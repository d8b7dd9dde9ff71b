---------------------------- MODULE AccountsProofs ----------------------------
(***************************************************************************)
(* Proofs about Accounts for any number of accounts and requests.          *)
(***************************************************************************)
EXTENDS Accounts, TLAPS

Transactions == Mutations \cup Reviews

(***************************************************************************)
(* The inductive invariant.                                                *)
(***************************************************************************)

\* The lock for the whole database lets one account transaction in.
MutexInv == \A p, q \in Transactions : InTransaction(p) /\ InTransaction(q) => p = q

\* Its actor may still do this, and what it decided on still holds.
ActorInv  == \A p \in Transactions : InTransaction(p) => ActorStill(p)
TargetInv == \A m \in Mutations : pc[m] = "commit" => MayApply(m)
ReviewInv == \A v \in Reviews : pc[v] = "commit" => MayReview(v)

\* A session comes from a request that has made it, and is made once.
SessionInv == \A p \in SignIns \cup Attempts : session[p] # None => pc[p] \in {"check", "done"}

\* A password belongs to an account, and one change at a time holds it.
CredentialInv ==
  /\ \A u \in Users : password[u] # None => Exists(u)
  /\ \A c \in Changes : pc[c] = "replace" =>
       /\ password[plan[c].user] = plan[c].old
       /\ \A d \in Changes : pc[d] = "replace" /\ plan[d].user = plan[c].user => d = c

\* Stages of a review that has listed a request, and of a login that has drawn its generation.
Listed(v)  == v \in Reviews /\ pc[v] \in {"lock", "target", "commit"}
Started(t) == t \in Attempts /\ pc[t] \in {"away", "resolve", "reconcile"}
Drawn(v)   == v \in Reviews /\ pc[v] = "commit" /\ plan[v].decision = "approved"

\* Generations are drawn from one sequence, and none between an approval's and its commit.
GenerationInv ==
  /\ \A x \in Subjects : link[x] # None => link[x].generation <= generation
  /\ \A v \in Reviews : Listed(v) => plan[v].generation <= generation
  /\ \A t \in Attempts : Started(t) => plan[t].generation <= generation
  /\ \A v \in Reviews : Drawn(v) =>
       /\ generation = plan[v].drawn
       /\ \A x \in Subjects : link[x] # None => link[x].generation < generation
       /\ \A w \in Reviews : Listed(w) => plan[w].generation < generation

\* A request to link is named by the login that made it, and has the account and the address
\* a review has listed as long as it has its generation.
EvidenceInv ==
  /\ \A x \in Subjects : link[x] # None => pc[link[x].id] = "done"
  /\ \A v \in Reviews : Listed(v) =>
       /\ pc[plan[v].id] = "done"
       /\ SameRequest(v) /\ link[plan[v].subject].generation = plan[v].generation =>
            /\ link[plan[v].subject].email = plan[v].email
            /\ link[plan[v].subject].user = plan[v].target

\* An approved request is what the last approval saw, and a login that is younger was
\* begun since.
ApprovalInv ==
  \A x \in Subjects : link[x] # None /\ link[x].status = "approved" =>
    /\ link[x].generation # 0
    /\ approval[x] # None /\ approval[x].email = link[x].email /\ approval[x].user = link[x].user
    /\ \A t \in Attempts : Started(t) /\ plan[t].generation > link[x].generation => t \in approval[x].since

\* Before the first account is made, only servers do anything.
LedInv == Enabled = {} => \A p \in Requests \ Servers : pc[p] = "done"

IndInv == /\ TypeOK /\ MutexInv /\ ActorInv /\ TargetInv /\ ReviewInv /\ SessionInv
          /\ CredentialInv /\ GenerationInv /\ EvidenceInv /\ ApprovalInv /\ EnabledAdmin /\ LedInv

(***************************************************************************)
(* Types                                                                   *)
(***************************************************************************)

\* What a request knows has the type of its stage.
LEMMA PlanStep ==
    ASSUME TypeOK, [Next]_vars
    PROVE  PlansTyped'
<1> USE NamesDiffer DEF PlansTyped, Finish, Goto, Know, Planned, Requests, Stages, Plans
<1>1. ASSUME NEW m \in Mutations, NEW s \in Sessions, NEW k \in Kinds, NEW u \in Users,
             NEW e \in Emails \cup {None}, Authenticate(m, s, k, u, e)
      PROVE  PlansTyped'
  <2>1. plan'[m] \in MutationPlans
    BY <1>1 DEF TypeOK, RowsTyped, Authenticate, Authorized, Identity, MutationPlans
  <2> QED BY <1>1, <2>1 DEF TypeOK, Authenticate
<1>2. ASSUME NEW p \in Transactions, LockActor(p) PROVE PlansTyped'
  BY <1>2 DEF TypeOK, LockActor, Transactions
<1>3. ASSUME NEW m \in Mutations, LockTarget(m) \/ RefuseMutation(m) \/ Commit(m) PROVE PlansTyped'
  BY <1>3 DEF TypeOK, LockTarget, RefuseMutation, Commit
<1>4. ASSUME NEW c \in Changes, NEW m \in Mutations, BreakDeadlock(c, m) PROVE PlansTyped'
  BY <1>4 DEF TypeOK, BreakDeadlock
<1>5. ASSUME NEW c \in Changes, NEW s \in Sessions, ReadCredential(c, s) PROVE PlansTyped'
  <2>1. plan'[c] \in ChangePlans
    BY <1>5 DEF TypeOK, RowsTyped, ReadCredential, Identity, ChangePlans
  <2> QED BY <1>5, <2>1 DEF TypeOK, ReadCredential
<1>6. ASSUME NEW c \in Changes, ClaimCredential(c) \/ ReplacePassword(c) PROVE PlansTyped'
  BY <1>6 DEF TypeOK, ClaimCredential, ReplacePassword
<1>7. ASSUME NEW i \in SignIns, NEW u \in Users, VerifyPassword(i, u) PROVE PlansTyped'
  <2>1. plan'[i] \in SignInPlans
    BY <1>7 DEF TypeOK, RowsTyped, VerifyPassword, Exists, SignInPlans, Rows
  <2> QED BY <1>7, <2>1 DEF TypeOK, VerifyPassword
<1>8. ASSUME NEW i \in SignIns, CheckEnabled(i) PROVE PlansTyped'
  BY <1>8 DEF TypeOK, CheckEnabled
<1>9. ASSUME NEW p \in SignIns \cup Attempts, CreateSession(p) PROVE PlansTyped'
  BY <1>9 DEF TypeOK, CreateSession
<1>10. ASSUME NEW b \in Servers, LookForAdmin(b) PROVE PlansTyped'
  BY <1>10 DEF TypeOK, LookForAdmin
<1>11. ASSUME NEW b \in Servers, NEW u \in Users, NEW e \in Emails, Bootstrap(b, u, e) PROVE PlansTyped'
  BY <1>11 DEF TypeOK, Bootstrap
<1>12. ASSUME NEW t \in Attempts, NEW s \in Sessions \cup {None}, StartLegacySso(t, s) PROVE PlansTyped'
  <2>1. plan'[t] \in StartPlans
    BY <1>12 DEF TypeOK, RowsTyped, StartLegacySso, Identity, StartPlans
  <2> QED BY <1>12, <2>1 DEF TypeOK, StartLegacySso
<1>13. ASSUME NEW t \in Attempts, NEW x \in Subjects, NEW e \in Emails, CompleteLegacySso(t, x, e)
       PROVE  PlansTyped'
  <2>1. plan'[t] \in LoginPlans
    BY <1>13 DEF TypeOK, CompleteLegacySso, StartPlans, LoginPlans
  <2> QED BY <1>13, <2>1 DEF TypeOK, CompleteLegacySso
<1>14. ASSUME NEW t \in Attempts,
              \/ Invalidate(t) \/ StayPending(t) \/ Deny(t) \/ FindTaken(t) \/ RequestLink(t)
              \/ OfferSwitch(t) \/ ClaimSession(t) \/ GiveUp(t)
              \/ \E confirm \in BOOLEAN : ConsumeSwitch(t, confirm)
       PROVE  PlansTyped'
  BY <1>14 DEF TypeOK, Invalidate, StayPending, Deny, FindTaken, RequestLink, OfferSwitch, ClaimSession,
               GiveUp, ConsumeSwitch, Ends
<1>15. ASSUME NEW t \in Attempts, NEW u \in Users, Linked(t, u), pc[t] \in {"resolve", "reconcile"}
       PROVE  PlansTyped'
  <2>1. plan'[t] \in LoginPlans /\ plan'[t].user \in Users
    BY <1>15 DEF TypeOK, Linked, LoginPlans
  <2> QED BY <1>15, <2>1 DEF TypeOK, Linked
<1>16. ASSUME NEW t \in Attempts,
              SignInOwner(t) \/ LinkApproved(t) \/ \E u \in Users : Provision(t, u)
       PROVE  PlansTyped'
  <2>1. pc[t] \in {"resolve", "reconcile"} /\ plan[t].subject \in Subjects
    BY <1>16 DEF TypeOK, SignInOwner, LinkApproved, Open, Provision, Unknown, Resolving, LoginPlans
  <2>2. Owner(t) # None => Owner(t) \in Users
    BY <2>1 DEF TypeOK, RowsTyped, Owner
  <2>3. Request(t) # None => Request(t).user \in Users
    BY <2>1 DEF TypeOK, RowsTyped, Request, Links
  <2>4. Ends(t) \/ \E u \in Users : Linked(t, u)
    BY <1>16, <2>2, <2>3 DEF SignInOwner, LinkApproved, Open, Provision
  <2> QED BY <1>15, <2>1, <2>4 DEF TypeOK, Ends
<1>17. ASSUME NEW v \in Reviews, NEW s \in Sessions, NEW x \in Subjects,
              NEW d \in {"approved", "rejected"}, ListRequests(v, s, x, d)
       PROVE  PlansTyped'
  <2>1. plan'[v] \in ReviewPlans
    BY <1>17 DEF TypeOK, RowsTyped, ListRequests, Authorized, Identity, ReviewPlans, Links
  <2> QED BY <1>17, <2>1 DEF TypeOK, ListRequests
<1>18. ASSUME NEW v \in Reviews, LockReview(v) PROVE PlansTyped'
  <2>1. plan'[v] \in ReviewPlans
    BY <1>18 DEF TypeOK, RowsTyped, LockReview, ReviewPlans
  <2> QED BY <1>18, <2>1 DEF TypeOK, LockReview
<1>19. ASSUME NEW v \in Reviews, RefuseReview(v) \/ CommitReview(v) PROVE PlansTyped'
  BY <1>19 DEF TypeOK, RefuseReview, CommitReview
<1>20. ASSUME NEW s \in Sessions, SignOut(s) PROVE PlansTyped'
  BY <1>20 DEF TypeOK, SignOut
<1>21. CASE UNCHANGED vars
  BY <1>21 DEF TypeOK, vars
<1> HIDE DEF PlansTyped, Finish, Goto, Know, Planned, Requests, Stages, Plans
<1>22. ASSUME NEW m \in Mutations, Mutating(m) PROVE PlansTyped'
  BY <1>1, <1>2, <1>3, <1>4, <1>22 DEF Mutating, Transactions
<1>23. ASSUME NEW t \in Attempts, LoggingIn(t) PROVE PlansTyped'
  BY <1>12, <1>13, <1>14, <1>16, <1>23 DEF LoggingIn
<1>24. ASSUME NEW v \in Reviews, Reviewing(v) PROVE PlansTyped'
  BY <1>2, <1>17, <1>18, <1>19, <1>24 DEF Reviewing, Transactions
<1> QED BY <1>5, <1>6, <1>7, <1>8, <1>9, <1>10, <1>11, <1>20, <1>21, <1>22, <1>23, <1>24
        DEF Next, Changing, SigningIn, Starting

\* A row with a field changed: of an account,
LEMMA MustRow ==
    ASSUME NEW r \in Rows, NEW b \in BOOLEAN
    PROVE  /\ [r EXCEPT !.must = b] \in Rows /\ [r EXCEPT !.must = b].must = b
           /\ [r EXCEPT !.must = b].email = r.email
           /\ [r EXCEPT !.must = b].role = r.role /\ [r EXCEPT !.must = b].enabled = r.enabled
  BY DEF Rows

LEMMA EnabledRow ==
    ASSUME NEW r \in Rows, NEW b \in BOOLEAN
    PROVE  /\ [r EXCEPT !.enabled = b] \in Rows
           /\ [r EXCEPT !.enabled = b].enabled = b /\ [r EXCEPT !.enabled = b].role = r.role
  BY DEF Rows

LEMMA RoleRow ==
    ASSUME NEW r \in Rows, NEW o \in {"admin", "user"}
    PROVE  /\ [r EXCEPT !.role = o] \in Rows
           /\ [r EXCEPT !.role = o].role = o /\ [r EXCEPT !.role = o].enabled = r.enabled
  BY DEF Rows

LEMMA EmailRow ==
    ASSUME NEW r \in Rows, NEW e \in Emails
    PROVE  /\ [r EXCEPT !.email = e] \in Rows
           /\ [r EXCEPT !.email = e].role = r.role /\ [r EXCEPT !.email = e].enabled = r.enabled
  BY DEF Rows

\* and of a request to link.
LEMMA PendingLink ==
    ASSUME NEW l \in Links, NEW g \in Nat
    PROVE  LET n == [l EXCEPT !.status = "pending", !.generation = g] IN
           /\ n \in Links /\ n.id = l.id /\ n.email = l.email /\ n.user = l.user
           /\ n.status = "pending" /\ n.generation = g
  BY DEF Links

LEMMA LinkedLink ==
    ASSUME NEW l \in Links
    PROVE  LET n == [l EXCEPT !.status = "linked"] IN
           /\ n \in Links /\ n.id = l.id /\ n.email = l.email /\ n.user = l.user
           /\ n.status = "linked" /\ n.generation = l.generation
  BY DEF Links

LEMMA SinceApproval ==
    ASSUME NEW a \in Approvals, NEW t \in Attempts
    PROVE  LET n == [a EXCEPT !.since = @ \cup {t}] IN
           n \in Approvals /\ n.email = a.email /\ n.user = a.user /\ n.since = a.since \cup {t}
  BY DEF Approvals

\* What a mutation does to the rows: it changes one account and its password, takes
\* sessions away, and has requests to link the account reviewed again.
CommitEffect(m) ==
  LET t == plan[m].target IN
  /\ \E r \in Rows \cup {None} :
       /\ user' = [user EXCEPT ![t] = r]
       /\ r = None <=> plan[m].kind = "delete"
       /\ t \in Enabled /\ ~RemovesAdmin(m) => r.enabled /\ r.role = "admin"
  /\ \E w \in Passwords \cup {None} :
       /\ password' = [password EXCEPT ![t] = w]
       /\ \/ w = m /\ plan[m].kind = "create"
          \/ w = m /\ plan[m].kind = "reset" /\ CredentialFree(t)
          \/ w = None /\ plan[m].kind = "delete" /\ CredentialFree(t)
          \/ w = password[t] /\ plan[m].kind \notin {"create", "reset", "delete"}
  /\ session' \in {session, Revoked(t)}
  /\ owner' \in [Subjects -> Users \cup {None}] /\ \A x \in Subjects : owner'[x] \in {owner[x], None}
  /\ generation' \in {generation, generation + 1}
  /\ link' \in [Subjects -> Links \cup {None}]
  /\ \A x \in Subjects :
       \/ link'[x] = link[x] \/ link'[x] = None
       \/ /\ link[x] # None /\ link'[x] \in Links
          /\ link'[x].id = link[x].id /\ link'[x].email = link[x].email /\ link'[x].user = link[x].user
          /\ link'[x].status = "pending" /\ link'[x].generation = generation + 1
          /\ generation' = generation + 1
  /\ approval' = approval

LEMMA CommitEffects ==
    ASSUME TypeOK, NEW m \in Mutations, Commit(m), MayApply(m)
    PROVE  CommitEffect(m)
<1> DEFINE t == plan[m].target
<1>1. plan[m] \in MutationPlans /\ t \in Users
  BY DEF TypeOK, PlansTyped, Planned, Commit, Finish, Goto, MutationPlans
<1>2. plan[m].kind \in {"create", "email"} => plan[m].email \in Emails
  BY <1>1 DEF MutationPlans
<1>3. plan[m].kind # "create" => user[t] \in Rows
  BY <1>1 DEF MayApply, TypeOK, RowsTyped
<1>4. approval' = approval
  BY DEF Commit
<1>5. CASE CreateUser(m)
  <2>1. \A role \in {"admin", "user"} : Row(plan[m].email, role, TRUE) \in Rows
    BY <1>2, <1>5 DEF CreateUser, Row, Rows
  <2>2. t \notin Enabled
    BY <1>5 DEF CreateUser, MayApply, Enabled, Exists
  <2>3. PICK role \in {"admin", "user"} :
          /\ user' = [user EXCEPT ![t] = Row(plan[m].email, role, TRUE)]
          /\ plan[m].kind = "create" /\ password' = [password EXCEPT ![t] = m]
          /\ UNCHANGED <<session, owner, link, generation>>
    BY <1>5 DEF CreateUser
  <2> DEFINE r == Row(plan[m].email, role, TRUE)
  <2>4. r \in Rows /\ user' = [user EXCEPT ![t] = r]
    BY <2>1, <2>3
  <2> HIDE DEF r
  <2>5. r # None /\ r \in Rows \cup {None} /\ m \in Passwords \cup {None}
    BY <2>4, NamesDiffer DEF Passwords
  <2>6. session' = session /\ owner' = owner /\ link' = link /\ generation' = generation
    BY <2>3
  <2> QED BY <1>4, <2>2, <2>3, <2>4, <2>5, <2>6 DEF CommitEffect, TypeOK, RowsTyped
<1>6. CASE SetEnabled(m)
  <2> DEFINE r == [user[t] EXCEPT !.enabled = (plan[m].kind = "enable")]
  <2>1. r \in Rows /\ r.enabled = (plan[m].kind = "enable") /\ r.role = user[t].role
    <3>1. user[t] \in Rows
      BY <1>3, <1>6 DEF SetEnabled
    <3>2. (plan[m].kind = "enable") \in BOOLEAN
      OBVIOUS
    <3> QED BY <3>1, <3>2, EnabledRow, Zenon
  <2>2. user' = [user EXCEPT ![t] = r] /\ plan[m].kind \in {"enable", "disable"}
        /\ session' \in {session, Revoked(t)} /\ UNCHANGED <<password, owner, link, generation>>
    BY <1>6, Zenon DEF SetEnabled
  <2> HIDE DEF r
  <2> QED BY <1>1, <1>4, <2>1, <2>2, NamesDiffer DEF CommitEffect, RemovesAdmin, Enabled, TypeOK, RowsTyped
<1>7. CASE SetRole(m)
  <2> DEFINE o == IF plan[m].kind = "promote" THEN "admin" ELSE "user"
             r == [user[t] EXCEPT !.role = o]
  <2>1. r \in Rows /\ r.role = o /\ r.enabled = user[t].enabled
    <3>1. user[t] \in Rows /\ o \in {"admin", "user"}
      BY <1>3, <1>7 DEF SetRole
    <3> HIDE DEF o
    <3> QED BY <3>1, RoleRow, Zenon
  <2>2. user' = [user EXCEPT ![t] = r] /\ plan[m].kind \in {"promote", "demote"}
        /\ session' \in {session, Revoked(t)} /\ UNCHANGED <<password, owner, link, generation>>
    BY <1>7, Zenon DEF SetRole
  <2> HIDE DEF r
  <2> QED BY <1>1, <1>4, <2>1, <2>2, NamesDiffer DEF CommitEffect, RemovesAdmin, Enabled, TypeOK, RowsTyped
<1>8. CASE ResetPassword(m)
  <2> DEFINE r == [user[t] EXCEPT !.must = TRUE]
  <2>1. r \in Rows /\ r.role = user[t].role /\ r.enabled = user[t].enabled
    <3>1. user[t] \in Rows
      BY <1>3, <1>8 DEF ResetPassword
    <3> QED BY <3>1, MustRow, Zenon
  <2>2. /\ user' = [user EXCEPT ![t] = r] /\ plan[m].kind = "reset" /\ CredentialFree(t)
        /\ password' = [password EXCEPT ![t] = m]
        /\ session' \in {session, Revoked(t)} /\ UNCHANGED <<owner, link, generation>>
    BY <1>8, Zenon DEF ResetPassword
  <2> HIDE DEF r
  <2> QED BY <1>1, <1>4, <2>1, <2>2, NamesDiffer
          DEF CommitEffect, RemovesAdmin, Enabled, Passwords, TypeOK, RowsTyped
<1>9. CASE DeleteUser(m)
  BY <1>1, <1>4, <1>9, NamesDiffer DEF CommitEffect, DeleteUser, RemovesAdmin, TypeOK, RowsTyped
<1>10. CASE SetEmail(m)
  <2> DEFINE r == [user[t] EXCEPT !.email = plan[m].email]
             stale == IF Holds(t, plan[m].email) THEN {} ELSE Undecided(t)
             l(x) == [link[x] EXCEPT !.status = "pending", !.generation = generation + 1]
  <2>1. r \in Rows /\ r.role = user[t].role /\ r.enabled = user[t].enabled
    <3>1. user[t] \in Rows /\ plan[m].email \in Emails
      BY <1>2, <1>3, <1>10 DEF SetEmail
    <3> QED BY <3>1, EmailRow, Zenon
  <2>2. /\ user' = [user EXCEPT ![t] = r] /\ plan[m].kind = "email"
        /\ session' \in {session, Revoked(t)} /\ UNCHANGED <<password, owner>>
        /\ generation' = IF stale = {} THEN generation ELSE generation + 1
        /\ link' = [x \in Subjects |-> IF x \in stale THEN l(x) ELSE link[x]]
    BY <1>10, Zenon DEF SetEmail
  <2>3. ASSUME NEW x \in stale
        PROVE  /\ x \in Subjects /\ link[x] # None /\ l(x) \in Links
               /\ l(x).id = link[x].id /\ l(x).email = link[x].email /\ l(x).user = link[x].user
               /\ l(x).status = "pending" /\ l(x).generation = generation + 1
    <3>1. x \in Subjects /\ link[x] \in Links /\ link[x] # None /\ generation + 1 \in Nat
      BY <2>3 DEF Undecided, TypeOK, RowsTyped
    <3> QED BY <3>1, PendingLink, Zenon
  <2> HIDE DEF r, stale, l
  <2>4. generation' \in {generation, generation + 1} /\ (stale # {} => generation' = generation + 1)
    BY <2>2
  <2>5. link' \in [Subjects -> Links \cup {None}]
    BY <2>2, <2>3 DEF TypeOK, RowsTyped
  <2>6. \A x \in Subjects : link'[x] = IF x \in stale THEN l(x) ELSE link[x]
    BY <2>2
  <2>7. r # None /\ (t \in Enabled => r.enabled /\ r.role = "admin")
    BY <2>1, NamesDiffer DEF Enabled
  <2>8. \A x \in Subjects :
          \/ link'[x] = link[x]
          \/ /\ link[x] # None /\ link'[x] \in Links
             /\ link'[x].id = link[x].id /\ link'[x].email = link[x].email /\ link'[x].user = link[x].user
             /\ link'[x].status = "pending" /\ link'[x].generation = generation + 1
             /\ generation' = generation + 1
    BY <2>3, <2>4, <2>6
  <2>9. password[t] \in Passwords \cup {None} /\ password' = [password EXCEPT ![t] = password[t]]
        /\ owner' = owner
    BY <1>1, <2>2 DEF TypeOK, RowsTyped
  <2> QED BY <1>4, <2>1, <2>2, <2>4, <2>5, <2>7, <2>8, <2>9 DEF CommitEffect, TypeOK, RowsTyped
<1> QED BY <1>5, <1>6, <1>7, <1>8, <1>9, <1>10 DEF Commit

\* A change of password changes one account's password and lets its flag down.
LEMMA ReplaceEffects ==
    ASSUME TypeOK, CredentialInv, NEW c \in Changes, ReplacePassword(c)
    PROVE  LET u == plan[c].user IN
           /\ u \in Users /\ user[u] \in Rows
           /\ \E r \in Rows : /\ user' = [user EXCEPT ![u] = r]
                              /\ r.email = user[u].email /\ r.role = user[u].role
                              /\ r.enabled = user[u].enabled
           /\ password' = [password EXCEPT ![u] = c] /\ session' = Revoked(u)
           /\ UNCHANGED <<owner, link, generation, approval>>
<1> DEFINE u == plan[c].user
           r == [user[u] EXCEPT !.must = FALSE]
<1>1. pc[c] = "replace" /\ plan[c] \in ChangePlans
  BY DEF ReplacePassword, Finish, Goto, TypeOK, PlansTyped, Planned
<1>2. u \in Users /\ plan[c].old # None
  BY <1>1, NamesDiffer DEF ChangePlans
<1>3. user[u] \in Rows
  BY <1>1, <1>2 DEF CredentialInv, Exists, TypeOK, RowsTyped
<1>4. r \in Rows /\ r.email = user[u].email /\ r.role = user[u].role /\ r.enabled = user[u].enabled
  BY <1>3, MustRow, Zenon
<1>5. /\ user' = [user EXCEPT ![u] = r] /\ password' = [password EXCEPT ![u] = c]
      /\ session' = Revoked(u) /\ UNCHANGED <<owner, link, generation, approval>>
  BY Zenon DEF ReplacePassword
<1> HIDE DEF r
<1> QED BY <1>2, <1>3, <1>4, <1>5

\* New evidence is pending under a new generation.
LEMMA InvalidateEffects ==
    ASSUME TypeOK, NEW t \in Attempts, Invalidate(t)
    PROVE  LET x == plan[t].subject IN
           /\ x \in Subjects /\ link[x] \in Links
           /\ \E l \in Links : /\ link' = [link EXCEPT ![x] = l]
                               /\ l.id = link[x].id /\ l.status = "pending"
                               /\ l.generation = generation + 1
           /\ generation' = generation + 1
           /\ UNCHANGED <<user, password, session, owner, approval>>
<1> DEFINE x == plan[t].subject
           l == [link[x] EXCEPT !.email = plan[t].email, !.user = Selected(t), !.status = "pending",
                                !.generation = generation + 1]
<1>1. plan[t] \in LoginPlans /\ x \in Subjects /\ plan[t].email \in Emails
  BY DEF Invalidate, Open, Resolving, TypeOK, PlansTyped, Planned, LoginPlans
<1>2. link[x] \in Links
  BY <1>1 DEF Invalidate, Open, Request, TypeOK, RowsTyped
<1>3. Selected(t) \in Users
  <2>1. link[x].user \in Users
    BY <1>2 DEF Links
  <2> QED BY <1>1, <2>1 DEF Selected, Matching, Request
<1>4. generation + 1 \in Nat
  BY DEF TypeOK, RowsTyped
<1>5. l \in Links /\ l.id = link[x].id /\ l.status = "pending" /\ l.generation = generation + 1
  <2> DEFINE k == link[x]
             e == plan[t].email
             u == Selected(t)
             g == generation + 1
  <2>1. k \in Links /\ e \in Emails /\ u \in Users /\ g \in Nat
    BY <1>1, <1>2, <1>3, <1>4
  <2> HIDE DEF k, e, u, g
  <2>2. LET n == [k EXCEPT !.email = e, !.user = u, !.status = "pending", !.generation = g] IN
        n \in Links /\ n.id = k.id /\ n.status = "pending" /\ n.generation = g
    BY <2>1 DEF Links
  <2> QED BY <2>2, Zenon DEF k, e, u, g
<1>6. /\ link' = [link EXCEPT ![x] = l] /\ generation' = generation + 1
      /\ UNCHANGED <<user, password, session, owner, approval>>
  BY Zenon DEF Invalidate
<1> HIDE DEF l
<1> QED BY <1>1, <1>2, <1>5, <1>6

\* A binding takes the account of the approved request.
LEMMA LinkApprovedEffects ==
    ASSUME TypeOK, NEW t \in Attempts, LinkApproved(t)
    PROVE  LET x == plan[t].subject IN
           /\ x \in Subjects /\ link[x] \in Links /\ link[x].status = "approved"
           /\ \E l \in Links : /\ link' = [link EXCEPT ![x] = l]
                               /\ l.id = link[x].id /\ l.email = link[x].email /\ l.user = link[x].user
                               /\ l.status = "linked" /\ l.generation = link[x].generation
           /\ owner' = [owner EXCEPT ![x] = link[x].user] /\ link[x].user \in Users
           /\ UNCHANGED <<user, password, session, generation, approval>>
<1> DEFINE x == plan[t].subject
           l == [link[x] EXCEPT !.status = "linked"]
<1>1. x \in Subjects
  BY DEF LinkApproved, Open, Resolving, TypeOK, PlansTyped, Planned, LoginPlans
<1>2. link[x] \in Links /\ link[x].status = "approved"
  BY <1>1 DEF LinkApproved, Open, Request, TypeOK, RowsTyped
<1>3. /\ l \in Links /\ l.id = link[x].id /\ l.email = link[x].email /\ l.user = link[x].user
      /\ l.status = "linked" /\ l.generation = link[x].generation
  BY <1>2, LinkedLink, Zenon
<1>4. /\ link' = [link EXCEPT ![x] = l] /\ owner' = [owner EXCEPT ![x] = link[x].user]
      /\ UNCHANGED <<user, password, session, generation, approval>>
  BY Zenon DEF LinkApproved, Request
<1>5. link[x].user \in Users
  BY <1>2 DEF Links
<1> HIDE DEF l
<1> QED BY <1>1, <1>2, <1>3, <1>4, <1>5

\* A review decides the request it has listed.
LEMMA CommitReviewEffects ==
    ASSUME TypeOK, ReviewInv, NEW v \in Reviews, CommitReview(v)
    PROVE  LET x == plan[v].subject IN
           /\ x \in Subjects /\ link[x] \in Links /\ MayReview(v)
           /\ \E l \in Links :
                /\ link' = [link EXCEPT ![x] = l]
                /\ l.id = link[x].id /\ l.email = link[x].email /\ l.user = link[x].user
                /\ l.status = plan[v].decision
                /\ l.generation = IF plan[v].decision = "approved" THEN plan[v].drawn
                                  ELSE link[x].generation
           /\ plan[v].decision = "rejected" => approval' = approval
           /\ plan[v].decision = "approved" =>
                approval' = [approval EXCEPT ![x] = [email |-> plan[v].email, user |-> plan[v].target,
                                                     since |-> {}]]
           /\ UNCHANGED <<user, password, session, owner, generation>>
<1> DEFINE x == plan[v].subject
           d == plan[v].decision
           g == IF d = "approved" THEN plan[v].drawn ELSE link[x].generation
           l == [link[x] EXCEPT !.status = d, !.generation = g]
<1>1. pc[v] = "commit" /\ plan[v] \in ReviewPlans
  BY DEF CommitReview, Finish, Goto, TypeOK, PlansTyped, Planned
<1>2. x \in Subjects /\ d \in {"approved", "rejected"} /\ plan[v].drawn \in Nat
  BY <1>1 DEF ReviewPlans
<1>3. MayReview(v)
  BY <1>1 DEF ReviewInv
<1>4. link[x] \in Links /\ link[x].generation \in Nat
  BY <1>2, <1>3 DEF MayReview, SameRequest, TypeOK, RowsTyped, Links
<1>5. g \in Nat
  BY <1>2, <1>4
<1>6. /\ link' = [link EXCEPT ![x] = l]
      /\ d = "rejected" => approval' = approval
      /\ d = "approved" => approval' = [approval EXCEPT ![x] = [email |-> plan[v].email,
                                                                user |-> plan[v].target, since |-> {}]]
      /\ UNCHANGED <<user, password, session, owner, generation>>
  BY <1>4, Zenon DEF CommitReview
<1> HIDE DEF g
<1>7. /\ l \in Links /\ l.id = link[x].id /\ l.email = link[x].email /\ l.user = link[x].user
      /\ l.status = d /\ l.generation = g
  <2> DEFINE k == link[x]
  <2>1. k \in Links /\ g \in Nat /\ d \in {"approved", "rejected"}
    BY <1>2, <1>4, <1>5
  <2> HIDE DEF k, d
  <2>2. LET n == [k EXCEPT !.status = d, !.generation = g] IN
        /\ n \in Links /\ n.id = k.id /\ n.email = k.email /\ n.user = k.user
        /\ n.status = d /\ n.generation = g
    BY <2>1 DEF Links
  <2> QED BY <2>2, Zenon DEF k, d
<1> HIDE DEF l
<1> QED BY <1>2, <1>3, <1>4, <1>6, <1>7 DEF g

\* A login that starts is remembered by the approvals there are.
LEMMA StartEffects ==
    ASSUME TypeOK, NEW t \in Attempts, NEW s \in Sessions \cup {None}, StartLegacySso(t, s)
    PROVE  /\ approval' \in [Subjects -> Approvals \cup {None}]
           /\ \A x \in Subjects :
                \/ approval[x] = None /\ approval'[x] = None
                \/ /\ approval[x] # None /\ approval'[x] \in Approvals
                   /\ approval'[x].email = approval[x].email /\ approval'[x].user = approval[x].user
                   /\ approval'[x].since = approval[x].since \cup {t}
           /\ generation' = generation + 1 /\ FenceFree
           /\ pc[t] = "idle" /\ pc' = [pc EXCEPT ![t] = "away"]
           /\ \E q \in StartPlans : plan' = [plan EXCEPT ![t] = q] /\ q.generation = generation + 1
           /\ UNCHANGED <<user, password, session, owner, link>>
<1> DEFINE n(x) == [approval[x] EXCEPT !.since = @ \cup {t}]
<1>1. approval' = [x \in Subjects |-> IF approval[x] = None THEN None ELSE n(x)]
  BY Zenon DEF StartLegacySso
<1>2. ASSUME NEW x \in Subjects, approval[x] # None
      PROVE  /\ n(x) \in Approvals /\ n(x).email = approval[x].email /\ n(x).user = approval[x].user
             /\ n(x).since = approval[x].since \cup {t}
  <2>1. approval[x] \in Approvals
    BY <1>2 DEF TypeOK, RowsTyped
  <2> QED BY <2>1, SinceApproval, Zenon
<1> DEFINE q == [generation |-> generation + 1, initiating |-> s,
                 initiator |-> IF s = None THEN None ELSE session[s]]
<1>3. q \in StartPlans /\ q.generation = generation + 1
  BY DEF StartPlans, TypeOK, RowsTyped
<1>4. /\ generation' = generation + 1 /\ FenceFree
      /\ pc[t] = "idle" /\ pc' = [pc EXCEPT ![t] = "away"] /\ plan' = [plan EXCEPT ![t] = q]
      /\ UNCHANGED <<user, password, session, owner, link>>
  BY Zenon DEF StartLegacySso, Goto
<1> HIDE DEF n, q
<1> QED BY <1>1, <1>2, <1>3, <1>4

\* A server that finds no administrator makes one.
LEMMA BootstrapEffects ==
    ASSUME NEW b \in Servers, NEW u \in Users, NEW e \in Emails, Bootstrap(b, u, e)
    PROVE  /\ MutexFree /\ UNCHANGED <<session, owner, link, generation, approval>>
           /\ \/ HasAdmin /\ UNCHANGED <<user, password>>
              \/ \E r \in Rows : /\ user' = [user EXCEPT ![u] = r] /\ r.enabled /\ r.role = "admin"
                                 /\ user[u] = None /\ password' = [password EXCEPT ![u] = b]
<1> DEFINE r == Row(e, "admin", TRUE)
<1>1. r \in Rows /\ r.enabled /\ r.role = "admin"
  BY DEF Row, Rows
<1>2. /\ MutexFree /\ UNCHANGED <<session, owner, link, generation, approval>>
      /\ \/ HasAdmin /\ UNCHANGED <<user, password>>
         \/ /\ user' = [user EXCEPT ![u] = r] /\ user[u] = None
            /\ password' = [password EXCEPT ![u] = b]
  BY Zenon DEF Bootstrap
<1> HIDE DEF r
<1> QED BY <1>1, <1>2

\* Every row has its type.
LEMMA RowsStep ==
    ASSUME TypeOK, TargetInv, ReviewInv, CredentialInv, [Next]_vars
    PROVE  RowsTyped'
<1> USE NamesDiffer DEF rows, Revoked
<1>1. ASSUME UNCHANGED rows PROVE RowsTyped'
  BY <1>1 DEF TypeOK, RowsTyped
<1>2. ASSUME NEW m \in Mutations, Commit(m) PROVE RowsTyped'
  <2>1. CommitEffect(m) /\ plan[m].target \in Users
    BY <1>2, CommitEffects DEF TargetInv, Commit, Finish, Goto, TypeOK, PlansTyped, Planned, MutationPlans
  <2>2. PICK r \in Rows \cup {None} : user' = [user EXCEPT ![plan[m].target] = r]
    BY <2>1 DEF CommitEffect
  <2>3. PICK w \in Passwords \cup {None} : password' = [password EXCEPT ![plan[m].target] = w]
    BY <2>1 DEF CommitEffect
  <2>4. user' \in [Users -> Rows \cup {None}] /\ password' \in [Users -> Passwords \cup {None}]
    BY <2>2, <2>3 DEF TypeOK, RowsTyped
  <2>5. session' \in [Sessions -> Users \cup {None}] /\ generation' \in Nat /\ approval' = approval
        /\ owner' \in [Subjects -> Users \cup {None}] /\ link' \in [Subjects -> Links \cup {None}]
    BY <2>1 DEF CommitEffect, TypeOK, RowsTyped
  <2> QED BY <2>4, <2>5 DEF TypeOK, RowsTyped
<1>3. ASSUME NEW c \in Changes, ReplacePassword(c) PROVE RowsTyped'
  BY <1>3, ReplaceEffects DEF TypeOK, RowsTyped, Passwords
<1>4. ASSUME NEW i \in SignIns, CheckEnabled(i) PROVE RowsTyped'
  BY <1>4 DEF CheckEnabled, TypeOK, RowsTyped
<1>5. ASSUME NEW p \in SignIns \cup Attempts, CreateSession(p) PROVE RowsTyped'
  <2>1. plan[p].user \in Users
    BY <1>5 DEF CreateSession, TypeOK, PlansTyped, Planned, SignInPlans
  <2> QED BY <1>5, <2>1 DEF CreateSession, TypeOK, RowsTyped, Sessions
<1>6. ASSUME NEW s \in Sessions, SignOut(s) PROVE RowsTyped'
  BY <1>6 DEF SignOut, TypeOK, RowsTyped
<1>7. ASSUME NEW b \in Servers, NEW u \in Users, NEW e \in Emails, Bootstrap(b, u, e) PROVE RowsTyped'
  BY <1>7, BootstrapEffects DEF TypeOK, RowsTyped, Passwords
<1>8. ASSUME NEW t \in Attempts, NEW s \in Sessions \cup {None}, StartLegacySso(t, s) PROVE RowsTyped'
  BY <1>8, StartEffects DEF TypeOK, RowsTyped
<1>9. ASSUME NEW t \in Attempts, Invalidate(t) PROVE RowsTyped'
  BY <1>9, InvalidateEffects DEF TypeOK, RowsTyped
<1>10. ASSUME NEW t \in Attempts, LinkApproved(t) PROVE RowsTyped'
  BY <1>10, LinkApprovedEffects DEF TypeOK, RowsTyped
<1>11. ASSUME NEW t \in Attempts, RequestLink(t) PROVE RowsTyped'
  <2>1. plan[t].email \in Emails /\ plan[t].subject \in Subjects
    BY <1>11 DEF RequestLink, TypeOK, PlansTyped, Planned, LoginPlans
  <2>2. Taken(plan[t].email) => (CHOOSE u \in Users : Holds(u, plan[t].email)) \in Users
    BY DEF Taken
  <2>3. link' \in [Subjects -> Links \cup {None}]
    BY <1>11, <2>1, <2>2 DEF RequestLink, TypeOK, RowsTyped, Links
  <2> QED BY <1>11, <2>3 DEF RequestLink, TypeOK, RowsTyped
<1>12. ASSUME NEW t \in Attempts, NEW u \in Users, Provision(t, u) PROVE RowsTyped'
  <2>1. Row(plan[t].email, "user", FALSE) \in Rows
    BY <1>12 DEF Provision, Unknown, Resolving, TypeOK, PlansTyped, Planned, LoginPlans, Row, Rows
  <2> QED BY <1>12, <2>1 DEF Provision, TypeOK, RowsTyped
<1>13. ASSUME NEW v \in Reviews, LockReview(v) PROVE RowsTyped'
  BY <1>13 DEF LockReview, TypeOK, RowsTyped
<1>14. ASSUME NEW v \in Reviews, CommitReview(v) PROVE RowsTyped'
  <2>1. plan[v].email \in Emails /\ plan[v].target \in Users
    BY <1>14 DEF CommitReview, Finish, Goto, TypeOK, PlansTyped, Planned, ReviewPlans
  <2>2. [email |-> plan[v].email, user |-> plan[v].target, since |-> {}] \in Approvals
    BY <2>1 DEF Approvals
  <2>3. plan[v].decision \in {"approved", "rejected"}
    BY <1>14 DEF CommitReview, Finish, Goto, TypeOK, PlansTyped, Planned, ReviewPlans
  <2> QED BY <1>14, <2>2, <2>3, CommitReviewEffects DEF TypeOK, RowsTyped
<1>15. ASSUME NEW m \in Mutations, Mutating(m) PROVE RowsTyped'
  BY <1>1, <1>2, <1>15 DEF Mutating, Authenticate, LockActor, LockTarget, RefuseMutation, BreakDeadlock
<1>16. ASSUME NEW c \in Changes, Changing(c) PROVE RowsTyped'
  BY <1>1, <1>3, <1>16 DEF Changing, ReadCredential, ClaimCredential
<1>17. ASSUME NEW t \in Attempts, LoggingIn(t) PROVE RowsTyped'
  BY <1>1, <1>8, <1>9, <1>10, <1>11, <1>12, <1>17
     DEF LoggingIn, CompleteLegacySso, SignInOwner, StayPending, Deny, FindTaken, OfferSwitch,
         ClaimSession, GiveUp, ConsumeSwitch
<1>18. ASSUME NEW v \in Reviews, Reviewing(v) PROVE RowsTyped'
  BY <1>1, <1>13, <1>14, <1>18 DEF Reviewing, ListRequests, LockActor, RefuseReview
<1>19. CASE UNCHANGED vars
  BY <1>1, <1>19 DEF vars
<1> QED BY <1>1, <1>4, <1>5, <1>6, <1>7, <1>15, <1>16, <1>17, <1>18, <1>19
        DEF Next, SigningIn, Starting, VerifyPassword, LookForAdmin

(***************************************************************************)
(* What an account transaction has found stays as it is                    *)
(***************************************************************************)

\* While p is in its transaction, no account comes, goes or changes but for the flag of a
\* password that is replaced, and this neither for its actor nor for its target.
Shielded(p) ==
  /\ plan'[p] = plan[p] \/ (p \in Reviews /\ LockReview(p))
  /\ link' = link /\ owner' = owner
  /\ session'[plan[p].session] = session[plan[p].session]
  /\ user'[plan[p].actor] = user[plan[p].actor]
  /\ \A u \in Users :
       \/ user'[u] = user[u] /\ password'[u] = password[u]
       \/ /\ user[u] \in Rows /\ user'[u] \in Rows
          /\ user'[u].email = user[u].email /\ user'[u].role = user[u].role
          /\ user'[u].enabled = user[u].enabled
          /\ password[u] # None /\ password'[u] # None

LEMMA ShieldStep ==
    ASSUME IndInv, [Next]_vars, NEW p \in Transactions, InTransaction(p), InTransaction(p)'
    PROVE  Shielded(p)
<1> DEFINE s == plan[p].session
           a == plan[p].actor
<1>1. ~MutexFree
  BY DEF MutexFree, Transactions
<1>2. TypeOK /\ RowsTyped /\ PlansTyped
  BY DEF IndInv, TypeOK
<1>3. s \in Sessions /\ a \in Users
  BY <1>2 DEF InTransaction, PlansTyped, Planned, Transactions, MutationPlans, ReviewPlans
<1>4. session[s] = a /\ Authorized(s)
  BY DEF IndInv, ActorInv, ActorStill
<1>5. p \in Requests
  BY DEF Transactions, Requests
<1> HIDE DEF s, a
<1>6. ASSUME UNCHANGED rows, plan'[p] = plan[p] \/ (p \in Reviews /\ LockReview(p)) PROVE Shielded(p)
  BY <1>6 DEF Shielded, rows
<1>7. ASSUME NEW q \in Requests, NEW from, Finish(q, from) PROVE p # q /\ plan'[p] = plan[p]
  <2>1. pc'[q] = "done"
    BY <1>2, <1>7 DEF Finish, Goto, PlansTyped
  <2>2. p # q
    BY <2>1 DEF InTransaction
  <2> QED BY <1>2, <1>5, <1>7, <2>2 DEF Finish, Know, PlansTyped
<1>7a. ASSUME NEW q \in Requests, NEW to, NEW what, Goto(q, "idle", to), Know(q, what)
       PROVE  plan'[p] = plan[p]
  <2>1. p # q
    BY <1>7a DEF Goto, InTransaction
  <2> QED BY <1>2, <1>5, <1>7a, <2>1 DEF Know, PlansTyped
<1>8. ASSUME NEW m \in Mutations, Mutating(m) PROVE Shielded(p)
  <2> m \in Requests
    BY DEF Requests
  <2>1. ASSUME NEW z \in Sessions, NEW k \in Kinds, NEW u \in Users, NEW e \in Emails \cup {None},
               Authenticate(m, z, k, u, e)
        PROVE  Shielded(p)
    BY <1>6, <1>7a, <2>1, Zenon DEF Authenticate
  <2>2. CASE LockActor(m)
    BY <1>1, <2>2 DEF LockActor
  <2>3. CASE LockTarget(m)
    BY <1>6, <2>3 DEF LockTarget
  <2>4. CASE RefuseMutation(m)
    BY <1>6, <1>7, <2>4 DEF RefuseMutation
  <2>5. CASE Commit(m)
    <3>1. m = p
      BY <2>5 DEF Commit, Finish, Goto, InTransaction, IndInv, MutexInv, Transactions
    <3> QED BY <1>7, <2>5, <3>1 DEF Commit
  <2>6. ASSUME NEW c \in Changes, BreakDeadlock(c, m) PROVE Shielded(p)
    <3>1. PICK victim \in {c, m} : Finish(victim, pc[victim])
      BY <2>6 DEF BreakDeadlock
    <3>2. victim \in Requests /\ UNCHANGED rows
      BY <2>6 DEF BreakDeadlock, Requests
    <3> QED BY <1>6, <1>7, <3>1, <3>2
  <2> QED BY <1>8, <2>1, <2>2, <2>3, <2>4, <2>5, <2>6 DEF Mutating
<1>9. ASSUME NEW c \in Changes, Changing(c) PROVE Shielded(p)
  <2> c \in Requests
    BY DEF Requests
  <2>1. ASSUME NEW z \in Sessions, ReadCredential(c, z) PROVE Shielded(p)
    BY <1>6, <1>7a, <2>1, Zenon DEF ReadCredential
  <2>2. CASE ClaimCredential(c)
    BY <1>6, <2>2 DEF ClaimCredential
  <2>3. CASE ReplacePassword(c)
    <3>1. plan[c].user # a
      BY <1>2, <2>3 DEF ReplacePassword, RowFree, Transactions, a
    <3>2. plan'[p] = plan[p]
      BY <1>7, <2>3 DEF ReplacePassword
    <3>3. session'[s] = session[s]
      BY <1>3, <1>4, <2>3, <3>1 DEF ReplacePassword, Revoked
    <3>4. pc[c] = "replace" /\ plan[c] \in ChangePlans
      BY <1>2, <2>3 DEF ReplacePassword, Finish, Goto, PlansTyped, Planned
    <3>5. password[plan[c].user] # None /\ c # None
      BY <3>4, NamesDiffer DEF IndInv, CredentialInv, ChangePlans, Requests
    <3> QED BY <1>2, <1>3, <2>3, <3>1, <3>2, <3>3, <3>5, ReplaceEffects
            DEF IndInv, Shielded, RowsTyped, s, a
  <2> QED BY <1>9, <2>1, <2>2, <2>3 DEF Changing
<1>10. ASSUME NEW i \in SignIns, SigningIn(i) PROVE Shielded(p)
  <2> i \in Requests
    BY DEF Requests
  <2>1. ASSUME NEW u \in Users, VerifyPassword(i, u) PROVE Shielded(p)
    BY <1>6, <1>7a, <2>1, Zenon DEF VerifyPassword
  <2>2. CASE CheckEnabled(i)
    <3>1. plan'[p] = plan[p]
      BY <1>7, <2>2 DEF CheckEnabled
    <3>2. session'[s] = session[s]
      BY <1>3, <1>4, <2>2 DEF CheckEnabled, Authorized, Identity
    <3> QED BY <2>2, <3>1, <3>2 DEF CheckEnabled, Shielded, s
  <2> QED BY <1>10, <2>1, <2>2 DEF SigningIn
<1>11. ASSUME NEW q \in SignIns \cup Attempts, CreateSession(q) PROVE Shielded(p)
  <2>1. q # s
    BY <1>4, <1>11 DEF CreateSession, Authorized, Identity, IndInv, SessionInv
  <2> QED BY <1>2, <1>3, <1>11, <2>1 DEF CreateSession, Shielded, RowsTyped, s
<1>12. ASSUME NEW z \in Sessions, SignOut(z) PROVE Shielded(p)
  <2>1. z # s
    BY <1>12 DEF SignOut, SessionFree, Transactions, s
  <2> QED BY <1>2, <1>3, <1>12, <2>1 DEF SignOut, Shielded, RowsTyped, s
<1>13. ASSUME NEW b \in Servers, Starting(b) PROVE Shielded(p)
  BY <1>1, <1>6, <1>13 DEF Starting, LookForAdmin, Bootstrap
<1>14. ASSUME NEW t \in Attempts, LoggingIn(t) PROVE Shielded(p)
  <2>1. p # t
    BY NamesDiffer DEF Transactions
  <2>2. CASE \E z \in Sessions \cup {None} : StartLegacySso(t, z)
    BY <1>2, <2>1, <2>2, StartEffects DEF Shielded, PlansTyped, Requests, Transactions
  <2>3. CASE \E x \in Subjects, e \in Emails : CompleteLegacySso(t, x, e)
    BY <1>2, <1>6, <2>1, <2>3 DEF CompleteLegacySso, PlansTyped, Requests, Transactions
  <2>4. CASE SignInOwner(t) \/ Invalidate(t) \/ StayPending(t) \/ LinkApproved(t) \/ Deny(t)
             \/ FindTaken(t) \/ RequestLink(t) \/ \E u \in Users : Provision(t, u)
    BY <1>1, <2>4 DEF SignInOwner, Invalidate, StayPending, LinkApproved, Deny, FindTaken, RequestLink,
                      Provision, Open, Unknown, Resolving
  <2>5. CASE OfferSwitch(t) \/ ClaimSession(t) \/ GiveUp(t) \/ \E confirm \in BOOLEAN : ConsumeSwitch(t, confirm)
    BY <1>2, <1>6, <2>1, <2>5 DEF OfferSwitch, ClaimSession, GiveUp, ConsumeSwitch, Ends, Finish, Know,
                                  PlansTyped, Requests, Transactions
  <2> QED BY <1>14, <2>2, <2>3, <2>4, <2>5 DEF LoggingIn
<1>15. ASSUME NEW v \in Reviews, Reviewing(v) PROVE Shielded(p)
  <2> v \in Requests
    BY DEF Requests
  <2>1. ASSUME NEW z \in Sessions, NEW x \in Subjects, NEW d \in {"approved", "rejected"},
               ListRequests(v, z, x, d)
        PROVE  Shielded(p)
    BY <1>6, <1>7a, <2>1, Zenon DEF ListRequests
  <2>2. CASE LockActor(v)
    BY <1>1, <2>2 DEF LockActor
  <2>3. CASE LockReview(v)
    <3>1. v = p
      BY <2>3 DEF LockReview, Goto, InTransaction, IndInv, MutexInv, Transactions
    <3> QED BY <2>3, <3>1 DEF LockReview, Shielded
  <2>4. CASE RefuseReview(v)
    BY <1>6, <1>7, <2>4 DEF RefuseReview
  <2>5. CASE CommitReview(v)
    <3>1. v = p
      BY <2>5 DEF CommitReview, Finish, Goto, InTransaction, IndInv, MutexInv, Transactions
    <3> QED BY <1>7, <2>5, <3>1 DEF CommitReview
  <2> QED BY <1>15, <2>1, <2>2, <2>3, <2>4, <2>5 DEF Reviewing
<1>16. CASE UNCHANGED vars
  BY <1>6, <1>16, Zenon DEF vars
<1> QED BY <1>8, <1>9, <1>10, <1>11, <1>12, <1>13, <1>14, <1>15, <1>16 DEF Next

(***************************************************************************)
(* Who moves                                                               *)
(***************************************************************************)

\* A request that moves or learns something has taken a step of its own.
LEMMA WhoMoves ==
    ASSUME TypeOK, [Next]_vars, NEW p \in Requests, pc'[p] # pc[p] \/ plan'[p] # plan[p]
    PROVE  \/ p \in Mutations /\ Mutating(p)
           \/ p \in Changes /\ (Changing(p) \/ \E m \in Mutations : BreakDeadlock(p, m))
           \/ p \in SignIns /\ (SigningIn(p) \/ CreateSession(p))
           \/ p \in Attempts /\ (LoggingIn(p) \/ CreateSession(p))
           \/ p \in Servers /\ Starting(p)
           \/ p \in Reviews /\ Reviewing(p)
<1>1. pc \in [Requests -> Stages] /\ plan \in [Requests -> Plans \cup {None}]
  BY DEF TypeOK, PlansTyped
<1>2. ASSUME NEW q \in Requests, NEW to, pc' = [pc EXCEPT ![q] = to],
             plan' = plan \/ \E what : plan' = [plan EXCEPT ![q] = what]
      PROVE  p = q
  BY <1>1, <1>2
<1>3. ASSUME NEW q \in Requests, NEW from, Finish(q, from) PROVE p = q
  BY <1>2, <1>3 DEF Finish, Goto, Know
<1>4. ASSUME NEW q \in Requests, NEW from, NEW to, NEW what, Goto(q, from, to), Know(q, what) PROVE p = q
  BY <1>2, <1>4 DEF Goto, Know
<1>5. ASSUME NEW q \in Requests, NEW from, NEW to, Goto(q, from, to), plan' = plan PROVE p = q
  BY <1>2, <1>5 DEF Goto
<1>6. ASSUME NEW q \in Transactions, LockActor(q) PROVE p = q
  <2>1. q \in Requests
    BY DEF Transactions, Requests
  <2> QED BY <1>5, <1>6, <2>1 DEF LockActor
<1>7. ASSUME NEW m \in Mutations, Mutating(m) PROVE p = m \/ \E c \in Changes : p = c /\ BreakDeadlock(c, m)
  <2> m \in Requests
    BY DEF Requests
  <2>1. ASSUME NEW s \in Sessions, NEW k \in Kinds, NEW u \in Users, NEW e \in Emails \cup {None},
               Authenticate(m, s, k, u, e)
        PROVE  p = m
    BY <1>4, <2>1, Zenon DEF Authenticate
  <2>2. ASSUME LockTarget(m) PROVE p = m
    BY <1>5, <2>2 DEF LockTarget
  <2>3. ASSUME RefuseMutation(m) \/ Commit(m) PROVE p = m
    BY <1>3, <2>3 DEF RefuseMutation, Commit
  <2>4. ASSUME NEW c \in Changes, BreakDeadlock(c, m) PROVE p = m \/ p = c
    <3>1. PICK victim \in {c, m} : Finish(victim, pc[victim])
      BY <2>4 DEF BreakDeadlock
    <3>2. victim \in Requests
      BY DEF Requests
    <3> QED BY <1>3, <3>1, <3>2
  <2> QED BY <1>6, <1>7, <2>1, <2>2, <2>3, <2>4 DEF Mutating, Transactions
<1>8. ASSUME NEW c \in Changes, Changing(c) PROVE p = c
  <2> c \in Requests
    BY DEF Requests
  <2>1. ASSUME NEW s \in Sessions, ReadCredential(c, s) PROVE p = c
    BY <1>4, <2>1, Zenon DEF ReadCredential
  <2>2. ASSUME ClaimCredential(c) PROVE p = c
    BY <1>5, <2>2 DEF ClaimCredential
  <2>3. ASSUME ReplacePassword(c) PROVE p = c
    BY <1>3, <2>3 DEF ReplacePassword
  <2> QED BY <1>8, <2>1, <2>2, <2>3 DEF Changing
<1>9. ASSUME NEW i \in SignIns, SigningIn(i) PROVE p = i
  <2> i \in Requests
    BY DEF Requests
  <2>1. ASSUME NEW u \in Users, VerifyPassword(i, u) PROVE p = i
    BY <1>4, <2>1, Zenon DEF VerifyPassword
  <2>2. ASSUME CheckEnabled(i) PROVE p = i
    BY <1>3, <2>2 DEF CheckEnabled
  <2> QED BY <1>9, <2>1, <2>2 DEF SigningIn
<1>10. ASSUME NEW q \in SignIns \cup Attempts, CreateSession(q) PROVE p = q
  <2>1. q \in Requests
    BY DEF Requests
  <2> QED BY <1>5, <1>10, <2>1 DEF CreateSession
<1>11. ASSUME NEW b \in Servers, Starting(b) PROVE p = b
  <2> b \in Requests
    BY DEF Requests
  <2> QED BY <1>5, <1>11 DEF Starting, LookForAdmin, Bootstrap
<1>12. ASSUME NEW t \in Attempts, LoggingIn(t) PROVE p = t
  <2> t \in Requests
    BY DEF Requests
  <2>1. ASSUME NEW s \in Sessions \cup {None}, StartLegacySso(t, s) PROVE p = t
    BY <1>2, <2>1, StartEffects
  <2>2. ASSUME NEW x \in Subjects, NEW e \in Emails, CompleteLegacySso(t, x, e) PROVE p = t
    BY <1>2, <2>2 DEF CompleteLegacySso, Goto
  <2>3. ASSUME NEW u, Linked(t, u) PROVE p = t
    BY <1>1, <2>3 DEF Linked
  <2>4. ASSUME Ends(t) PROVE p = t
    BY <1>3, <2>4 DEF Ends
  <2>5. ASSUME SignInOwner(t) \/ LinkApproved(t) \/ \E u \in Users : Provision(t, u) PROVE p = t
    BY <2>3, <2>4, <2>5 DEF SignInOwner, LinkApproved, Provision
  <2>6. ASSUME Invalidate(t) \/ StayPending(t) \/ Deny(t) \/ RequestLink(t) \/ GiveUp(t) PROVE p = t
    BY <2>4, <2>6 DEF Invalidate, StayPending, Deny, RequestLink, GiveUp
  <2>7. ASSUME FindTaken(t) \/ \E confirm \in BOOLEAN : ConsumeSwitch(t, confirm) PROVE p = t
    BY <1>5, <2>7 DEF FindTaken, ConsumeSwitch
  <2>8. ASSUME OfferSwitch(t) PROVE p = t
    BY <1>2, <2>8 DEF OfferSwitch
  <2>9. ASSUME ClaimSession(t) PROVE p = t
    BY <1>3, <2>9 DEF ClaimSession
  <2> QED BY <1>12, <2>1, <2>2, <2>5, <2>6, <2>7, <2>8, <2>9 DEF LoggingIn
<1>13. ASSUME NEW v \in Reviews, Reviewing(v) PROVE p = v
  <2> v \in Requests
    BY DEF Requests
  <2>1. ASSUME NEW s \in Sessions, NEW x \in Subjects, NEW d \in {"approved", "rejected"},
               ListRequests(v, s, x, d)
        PROVE  p = v
    BY <1>4, <2>1, Zenon DEF ListRequests
  <2>2. ASSUME LockReview(v) PROVE p = v
    BY <1>2, <2>2 DEF LockReview, Goto
  <2>3. ASSUME RefuseReview(v) \/ CommitReview(v) PROVE p = v
    BY <1>3, <2>3 DEF RefuseReview, CommitReview
  <2> QED BY <1>6, <1>13, <2>1, <2>2, <2>3 DEF Reviewing, Transactions
<1>14. ASSUME NEW s \in Sessions, SignOut(s) PROVE FALSE
  BY <1>14 DEF SignOut
<1>15. ~UNCHANGED vars
  BY DEF vars
<1> QED BY <1>7, <1>8, <1>9, <1>10, <1>11, <1>12, <1>13, <1>14, <1>15 DEF Next

\* A request that has ended stays so.
LEMMA DoneStays ==
    ASSUME TypeOK, [Next]_vars, NEW q \in Requests, pc[q] = "done"
    PROVE  pc'[q] = "done"
<1> SUFFICES ASSUME pc'[q] # pc[q] PROVE FALSE
  OBVIOUS
<1>1. CASE q \in Mutations /\ Mutating(q)
  BY <1>1 DEF Mutating, Authenticate, LockActor, LockTarget, RefuseMutation, Commit, BreakDeadlock, Finish, Goto
<1>2. CASE q \in Changes /\ (Changing(q) \/ \E m \in Mutations : BreakDeadlock(q, m))
  BY <1>2 DEF Changing, ReadCredential, ClaimCredential, ReplacePassword, BreakDeadlock, Finish, Goto
<1>3. CASE q \in SignIns \cup Attempts /\ CreateSession(q)
  BY <1>3 DEF CreateSession
<1>4. CASE q \in SignIns /\ SigningIn(q)
  BY <1>4 DEF SigningIn, VerifyPassword, CheckEnabled, Finish, Goto
<1>5. CASE q \in Servers /\ Starting(q)
  BY <1>5 DEF Starting, LookForAdmin, Bootstrap, Goto
<1>6. CASE q \in Attempts /\ LoggingIn(q)
  BY <1>6 DEF LoggingIn, StartLegacySso, CompleteLegacySso, SignInOwner, Invalidate, StayPending, LinkApproved,
              Deny, FindTaken, RequestLink, Provision, OfferSwitch, ClaimSession, GiveUp, ConsumeSwitch,
              Open, Unknown, Resolving, Finish, Goto
<1>7. CASE q \in Reviews /\ Reviewing(q)
  BY <1>7 DEF Reviewing, ListRequests, LockActor, LockReview, RefuseReview, CommitReview, Finish, Goto
<1> QED BY <1>1, <1>2, <1>3, <1>4, <1>5, <1>6, <1>7, WhoMoves

\* A mutation locks its actor and then its target.
LEMMA MutationMoves ==
    ASSUME TypeOK, [Next]_vars, NEW m \in Mutations
    PROVE  /\ InTransaction(m)' => InTransaction(m) \/ LockActor(m)
           /\ pc'[m] = "commit" => pc[m] = "commit" \/ LockTarget(m)
<1>1. m \in Requests /\ pc \in [Requests -> Stages]
  BY DEF Requests, TypeOK, PlansTyped
<1>2. CASE pc'[m] = pc[m]
  BY <1>2 DEF InTransaction
<1>3. CASE Mutating(m)
  <2>1. CASE \E s \in Sessions, k \in Kinds, u \in Users, e \in Emails \cup {None} : Authenticate(m, s, k, u, e)
    <3>1. pc'[m] = "lock"
      BY <1>1, <2>1 DEF Authenticate, Goto
    <3> QED BY <3>1 DEF InTransaction
  <2>2. CASE LockActor(m)
    BY <1>1, <2>2 DEF LockActor, Goto
  <2>3. CASE LockTarget(m)
    BY <2>3 DEF LockTarget, Goto, InTransaction
  <2>4. CASE RefuseMutation(m) \/ Commit(m)
    BY <1>1, <2>4 DEF RefuseMutation, Commit, Finish, Goto, InTransaction
  <2>5. CASE \E c \in Changes : BreakDeadlock(c, m)
    BY <2>5 DEF BreakDeadlock, InTransaction
  <2> QED BY <1>3, <2>1, <2>2, <2>3, <2>4, <2>5 DEF Mutating
<1> QED BY <1>1, <1>2, <1>3, NamesDiffer, WhoMoves

\* A review lists a request, locks its actor, and then the request.
LEMMA ReviewMoves ==
    ASSUME TypeOK, [Next]_vars, NEW v \in Reviews
    PROVE  /\ InTransaction(v)' => InTransaction(v) \/ LockActor(v)
           /\ pc'[v] = "commit" => (pc[v] = "commit" /\ plan'[v] = plan[v]) \/ LockReview(v)
           /\ Listed(v)' => \/ Listed(v) /\ plan'[v] = plan[v]
                            \/ LockReview(v)
                            \/ \E s \in Sessions, x \in Subjects, d \in {"approved", "rejected"} :
                                 ListRequests(v, s, x, d)
<1>1. v \in Requests /\ pc \in [Requests -> Stages]
  BY DEF Requests, TypeOK, PlansTyped
<1>2. CASE pc'[v] = pc[v] /\ plan'[v] = plan[v]
  BY <1>2 DEF InTransaction, Listed
<1>3. CASE Reviewing(v)
  <2>1. CASE \E s \in Sessions, x \in Subjects, d \in {"approved", "rejected"} : ListRequests(v, s, x, d)
    <3>1. pc'[v] = "lock"
      BY <1>1, <2>1 DEF ListRequests, Goto
    <3> QED BY <2>1, <3>1 DEF InTransaction
  <2>2. CASE LockActor(v)
    BY <1>1, <2>2 DEF LockActor, Goto, Listed
  <2>3. CASE LockReview(v)
    BY <2>3 DEF LockReview, Goto, InTransaction
  <2>4. CASE RefuseReview(v) \/ CommitReview(v)
    BY <1>1, <2>4 DEF RefuseReview, CommitReview, Finish, Goto, InTransaction, Listed
  <2> QED BY <1>3, <2>1, <2>2, <2>3, <2>4 DEF Reviewing
<1> QED BY <1>1, <1>2, <1>3, NamesDiffer, WhoMoves

\* A change claims the credential it has read.
LEMMA ChangeMoves ==
    ASSUME TypeOK, [Next]_vars, NEW c \in Changes, pc'[c] = "replace"
    PROVE  (pc[c] = "replace" /\ plan'[c] = plan[c]) \/ ClaimCredential(c)
<1>1. c \in Requests /\ pc \in [Requests -> Stages]
  BY DEF Requests, TypeOK, PlansTyped
<1>2. CASE Changing(c)
  BY <1>1, <1>2 DEF Changing, ReadCredential, ReplacePassword, Finish, Goto
<1>3. ASSUME NEW m \in Mutations, BreakDeadlock(c, m), pc'[c] # pc[c] \/ plan'[c] # plan[c] PROVE FALSE
  <2>1. m \in Requests /\ m # c
    BY NamesDiffer DEF Requests
  <2>2. PICK victim \in {c, m} : Finish(victim, pc[victim])
    BY <1>3 DEF BreakDeadlock
  <2>3. victim = c
    BY <1>1, <1>3, <2>1, <2>2 DEF Finish, Goto, Know, TypeOK, PlansTyped
  <2> QED BY <1>1, <2>2, <2>3 DEF Finish, Goto
<1> QED BY <1>1, <1>2, <1>3, NamesDiffer, WhoMoves

\* A login keeps the generation it has drawn.
LEMMA LoginMoves ==
    ASSUME TypeOK, [Next]_vars, NEW t \in Attempts, Started(t)'
    PROVE  \/ Started(t) /\ plan'[t].generation = plan[t].generation
           \/ \E s \in Sessions \cup {None} : StartLegacySso(t, s)
<1>1. t \in Requests /\ pc \in [Requests -> Stages] /\ plan \in [Requests -> Plans \cup {None}]
  BY DEF Requests, TypeOK, PlansTyped
<1>2. CASE pc'[t] = pc[t] /\ plan'[t] = plan[t]
  BY <1>2 DEF Started
<1>3. CASE CreateSession(t)
  BY <1>1, <1>3 DEF CreateSession, Goto, Started
<1>4. CASE LoggingIn(t)
  <2>1. ASSUME NEW x \in Subjects, NEW e \in Emails, CompleteLegacySso(t, x, e)
        PROVE  Started(t) /\ plan'[t].generation = plan[t].generation
    BY <1>1, <2>1 DEF CompleteLegacySso, Goto, Started
  <2>2. CASE FindTaken(t)
    BY <1>1, <2>2 DEF FindTaken, Goto, Started
  <2>3. CASE SignInOwner(t) \/ LinkApproved(t) \/ \E u \in Users : Provision(t, u)
    BY <1>1, <2>3 DEF SignInOwner, LinkApproved, Provision, Linked, Ends, Finish, Goto, Started
  <2>4. CASE Invalidate(t) \/ StayPending(t) \/ Deny(t) \/ RequestLink(t) \/ GiveUp(t) \/ ClaimSession(t)
    BY <1>1, <2>4 DEF Invalidate, StayPending, Deny, RequestLink, GiveUp, ClaimSession, Ends, Finish, Goto, Started
  <2>5. CASE OfferSwitch(t) \/ \E confirm \in BOOLEAN : ConsumeSwitch(t, confirm)
    BY <1>1, <2>5 DEF OfferSwitch, ConsumeSwitch, Goto, Started
  <2> QED BY <1>4, <2>1, <2>2, <2>3, <2>4, <2>5 DEF LoggingIn
<1> QED BY <1>1, <1>2, <1>3, <1>4, NamesDiffer, WhoMoves

(***************************************************************************)
(* What becomes of requests to link, and of the sequence                   *)
(***************************************************************************)

\* A request is to be reviewed again, under a new generation;
Renewed(x) ==
  /\ link[x] # None /\ link'[x] # None /\ link'[x].id = link[x].id
  /\ link'[x].status = "pending" /\ link'[x].generation = generation + 1
  /\ generation' = generation + 1

\* it is new;
Requested(x) ==
  /\ link[x] = None /\ generation' = generation
  /\ \E t \in Attempts :
       /\ link'[x] = [id |-> t, email |-> plan[t].email, status |-> "pending", generation |-> 0,
                      user |-> CHOOSE u \in Users : Holds(u, plan[t].email)]
       /\ pc[t] = "reconcile" /\ pc'[t] = "done"

\* it is used;
Bound(x) ==
  /\ link[x] # None /\ link'[x] # None /\ link'[x].id = link[x].id
  /\ link'[x].email = link[x].email /\ link'[x].user = link[x].user
  /\ link'[x].status = "linked" /\ link'[x].generation = link[x].generation
  /\ generation' = generation

\* it is decided.
Decided(x) ==
  /\ link[x] # None /\ link'[x] # None /\ link'[x].id = link[x].id
  /\ link'[x].email = link[x].email /\ link'[x].user = link[x].user
  /\ generation' = generation
  /\ \E v \in Reviews :
       /\ CommitReview(v) /\ plan[v].subject = x /\ link'[x].status = plan[v].decision
       /\ link'[x].generation = IF plan[v].decision = "approved" THEN plan[v].drawn
                                ELSE link[x].generation

LEMMA LinkStep ==
    ASSUME IndInv, [Next]_vars, NEW x \in Subjects, link'[x] # link[x]
    PROVE  link'[x] = None \/ Renewed(x) \/ Requested(x) \/ Bound(x) \/ Decided(x)
<1>1. TypeOK /\ RowsTyped /\ PlansTyped
  BY DEF IndInv, TypeOK
<1>2. ~UNCHANGED link
  OBVIOUS
<1>3. ASSUME NEW m \in Mutations, Commit(m) PROVE link'[x] = None \/ Renewed(x)
  <2>1. CommitEffect(m)
    BY <1>1, <1>3, CommitEffects DEF IndInv, TargetInv, Commit, Finish, Goto
  <2> QED BY <2>1, NamesDiffer DEF CommitEffect, Renewed
<1>4. ASSUME NEW t \in Attempts, Invalidate(t) PROVE Renewed(x)
  <2> DEFINE y == plan[t].subject
  <2>1. y \in Subjects /\ link[y] \in Links /\ generation' = generation + 1
    BY <1>1, <1>4, InvalidateEffects
  <2>2. PICK l \in Links : link' = [link EXCEPT ![y] = l] /\ l.id = link[y].id /\ l.status = "pending"
                           /\ l.generation = generation + 1
    BY <1>1, <1>4, InvalidateEffects
  <2> HIDE DEF y
  <2>3. x = y /\ link'[x] = l
    BY <1>1, <2>1, <2>2 DEF RowsTyped
  <2> QED BY <2>1, <2>2, <2>3, NamesDiffer DEF Renewed
<1>5. ASSUME NEW t \in Attempts, LinkApproved(t) PROVE Bound(x)
  <2> DEFINE y == plan[t].subject
  <2>1. y \in Subjects /\ link[y] \in Links /\ generation' = generation
    BY <1>1, <1>5, LinkApprovedEffects
  <2>2. PICK l \in Links : /\ link' = [link EXCEPT ![y] = l]
                           /\ l.id = link[y].id /\ l.email = link[y].email /\ l.user = link[y].user
                           /\ l.status = "linked" /\ l.generation = link[y].generation
    BY <1>1, <1>5, LinkApprovedEffects
  <2> HIDE DEF y
  <2>3. x = y /\ link'[x] = l
    BY <1>1, <2>1, <2>2 DEF RowsTyped
  <2> QED BY <2>1, <2>2, <2>3, NamesDiffer DEF Bound
<1>6. ASSUME NEW t \in Attempts, RequestLink(t) PROVE link'[x] = None \/ Requested(x)
  <2> DEFINE y == plan[t].subject
             e == plan[t].email
  <2>1. /\ link' = [link EXCEPT ![y] = IF Taken(e) THEN [id |-> t, email |-> e, status |-> "pending",
                                                         generation |-> 0,
                                                         user |-> CHOOSE u \in Users : Holds(u, e)]
                                       ELSE None]
        /\ link[y] = None /\ generation' = generation
    BY <1>6 DEF RequestLink, Unknown, Request
  <2>2. pc[t] = "reconcile" /\ pc'[t] = "done"
    BY <1>1, <1>6 DEF RequestLink, Ends, Finish, Goto, PlansTyped, Requests
  <2> HIDE DEF y
  <2>3. x = y
    BY <1>1, <2>1 DEF RowsTyped
  <2> QED BY <1>1, <2>1, <2>2, <2>3 DEF Requested, RowsTyped
<1>7. ASSUME NEW v \in Reviews, CommitReview(v) PROVE Decided(x)
  <2> DEFINE y == plan[v].subject
  <2>1. y \in Subjects /\ link[y] \in Links /\ generation' = generation
    BY <1>1, <1>7, CommitReviewEffects DEF IndInv
  <2>2. PICK l \in Links :
          /\ link' = [link EXCEPT ![y] = l]
          /\ l.id = link[y].id /\ l.email = link[y].email /\ l.user = link[y].user
          /\ l.status = plan[v].decision
          /\ l.generation = IF plan[v].decision = "approved" THEN plan[v].drawn ELSE link[y].generation
    BY <1>1, <1>7, CommitReviewEffects DEF IndInv
  <2>3. plan[v].subject = y
    OBVIOUS
  <2> HIDE DEF y
  <2>4. x = y /\ link'[x] = l
    BY <1>1, <2>1, <2>2 DEF RowsTyped
  <2>5. link[x] # None /\ l # None
    BY <2>1, <2>4, NamesDiffer
  <2> HIDE DEF CommitReview
  <2> QED BY <1>7, <2>1, <2>2, <2>3, <2>4, <2>5 DEF Decided
<1>8. ASSUME NEW m \in Mutations, Mutating(m) PROVE Commit(m)
  BY <1>2, <1>8 DEF Mutating, Authenticate, LockActor, LockTarget, RefuseMutation, BreakDeadlock, rows
<1>9. ASSUME NEW c \in Changes PROVE ~Changing(c)
  BY <1>2 DEF Changing, ReadCredential, ClaimCredential, ReplacePassword, rows
<1>10. ASSUME NEW i \in SignIns PROVE ~SigningIn(i)
  BY <1>2 DEF SigningIn, VerifyPassword, CheckEnabled, rows
<1>11. ASSUME NEW t \in Attempts, LoggingIn(t) PROVE Invalidate(t) \/ LinkApproved(t) \/ RequestLink(t)
  BY <1>2, <1>11 DEF LoggingIn, StartLegacySso, CompleteLegacySso, SignInOwner, StayPending, Deny, FindTaken,
                     Provision, OfferSwitch, ClaimSession, GiveUp, ConsumeSwitch, rows
<1>12. ASSUME NEW v \in Reviews, Reviewing(v) PROVE CommitReview(v)
  BY <1>2, <1>12 DEF Reviewing, ListRequests, LockActor, LockReview, RefuseReview, rows
<1>13. ASSUME NEW b \in Servers PROVE ~Starting(b)
  BY <1>2 DEF Starting, LookForAdmin, Bootstrap, rows
<1>14. ASSUME NEW p, CreateSession(p) \/ SignOut(p) PROVE FALSE
  BY <1>2, <1>14 DEF CreateSession, SignOut
<1>15. ~UNCHANGED vars
  BY DEF vars, rows
<1> QED BY <1>3, <1>4, <1>5, <1>6, <1>7, <1>8, <1>9, <1>10, <1>11, <1>12, <1>13, <1>14, <1>15 DEF Next

\* Generations are drawn one at a time, and not while an approval keeps the sequence.
LEMMA GenerationStep ==
    ASSUME IndInv, [Next]_vars
    PROVE  /\ generation' \in {generation, generation + 1}
           /\ \A v \in Reviews : Drawn(v) /\ pc'[v] = "commit" => generation' = generation
<1>1. TypeOK /\ PlansTyped
  BY DEF IndInv, TypeOK
<1>2. ASSUME NEW v \in Reviews, Drawn(v), MutexFree PROVE FALSE
  BY <1>2 DEF Drawn, MutexFree, InTransaction
<1>3. ASSUME NEW m \in Mutations, Commit(m)
      PROVE  generation' \in {generation, generation + 1} /\ \A v \in Reviews : ~Drawn(v)
  <2>1. CommitEffect(m) /\ pc[m] = "commit"
    BY <1>1, <1>3, CommitEffects DEF IndInv, TargetInv, Commit, Finish, Goto
  <2>2. generation' \in {generation, generation + 1}
    BY <2>1 DEF CommitEffect
  <2> QED BY <2>1, <2>2, NamesDiffer DEF IndInv, MutexInv, Drawn, InTransaction, Transactions
<1>4. ASSUME NEW t \in Attempts, Invalidate(t) PROVE generation' = generation + 1 /\ MutexFree
  BY <1>4 DEF Invalidate, Open, Resolving
<1>5. ASSUME NEW t \in Attempts, NEW s \in Sessions \cup {None}, StartLegacySso(t, s)
      PROVE  generation' = generation + 1 /\ \A v \in Reviews : ~Drawn(v)
  BY <1>5 DEF StartLegacySso, FenceFree, Drawn
<1>6. ASSUME NEW w \in Reviews, LockReview(w)
      PROVE  generation' \in {generation, generation + 1} /\ \A v \in Reviews : ~Drawn(v)
  <2>1. pc[w] = "target" /\ generation' \in {generation, generation + 1}
    BY <1>6 DEF LockReview, Goto
  <2> QED BY <2>1 DEF IndInv, MutexInv, Drawn, InTransaction, Transactions
<1>7. CASE generation' = generation
  BY <1>7
<1>8. CASE generation' # generation
  <2>1. ASSUME NEW m \in Mutations, Mutating(m) PROVE Commit(m)
    BY <1>8, <2>1 DEF Mutating, Authenticate, LockActor, LockTarget, RefuseMutation, BreakDeadlock, rows
  <2>2. ASSUME NEW c \in Changes PROVE ~Changing(c)
    BY <1>8 DEF Changing, ReadCredential, ClaimCredential, ReplacePassword, rows
  <2>3. ASSUME NEW i \in SignIns PROVE ~SigningIn(i)
    BY <1>8 DEF SigningIn, VerifyPassword, CheckEnabled, rows
  <2>4. ASSUME NEW t \in Attempts, LoggingIn(t)
        PROVE  Invalidate(t) \/ \E s \in Sessions \cup {None} : StartLegacySso(t, s)
    BY <1>8, <2>4 DEF LoggingIn, CompleteLegacySso, SignInOwner, StayPending, LinkApproved, Deny, FindTaken,
                      RequestLink, Provision, OfferSwitch, ClaimSession, GiveUp, ConsumeSwitch, rows
  <2>5. ASSUME NEW v \in Reviews, Reviewing(v) PROVE LockReview(v)
    BY <1>8, <2>5 DEF Reviewing, ListRequests, LockActor, CommitReview, RefuseReview, rows
  <2>6. ASSUME NEW b \in Servers PROVE ~Starting(b)
    BY <1>8 DEF Starting, LookForAdmin, Bootstrap, rows
  <2>7. ASSUME NEW p, CreateSession(p) \/ SignOut(p) PROVE FALSE
    BY <1>8, <2>7 DEF CreateSession, SignOut
  <2>8. ~UNCHANGED vars
    BY <1>8 DEF vars, rows
  <2> QED BY <1>2, <1>3, <1>4, <1>5, <1>6, <2>1, <2>2, <2>3, <2>4, <2>5, <2>6, <2>7, <2>8 DEF Next
<1> QED BY <1>7, <1>8

(***************************************************************************)
(* Transactions                                                            *)
(***************************************************************************)

\* One that has its locks has entered with the lock for the whole database free.
LEMMA EnterStep ==
    ASSUME TypeOK, [Next]_vars, NEW p \in Transactions, InTransaction(p)'
    PROVE  \/ InTransaction(p)
           \/ /\ MutexFree /\ ActorStill(p) /\ UNCHANGED <<rows, plan>>
              /\ \A q \in Requests \ {p} : pc'[q] = pc[q]
<1>1. InTransaction(p) \/ LockActor(p)
  BY MutationMoves, ReviewMoves DEF Transactions
<1>2. CASE LockActor(p)
  <2>1. p \in Requests /\ pc \in [Requests -> Stages]
    BY DEF Transactions, Requests, TypeOK, PlansTyped
  <2>2. pc' = [pc EXCEPT ![p] = IF ActorStill(p) THEN "target" ELSE "done"]
    BY <1>2 DEF LockActor, Goto
  <2>3. ActorStill(p)
    BY <2>1, <2>2 DEF InTransaction
  <2> QED BY <1>2, <2>1, <2>2, <2>3 DEF LockActor
<1> QED BY <1>1, <1>2

LEMMA MutexStep ==
    ASSUME IndInv, [Next]_vars
    PROVE  MutexInv'
<1>1. TypeOK
  BY DEF IndInv
<1>2. ASSUME NEW p \in Transactions, NEW q \in Transactions, InTransaction(p)', InTransaction(q)', p # q,
             ~InTransaction(p)
      PROVE  FALSE
  <2>1. MutexFree /\ pc'[q] = pc[q]
    BY <1>1, <1>2, EnterStep DEF Transactions, Requests
  <2> QED BY <1>2, <2>1 DEF MutexFree, InTransaction, Transactions
<1> QED BY <1>2 DEF IndInv, MutexInv

LEMMA ActorStep ==
    ASSUME IndInv, [Next]_vars
    PROVE  ActorInv'
<1>1. TypeOK
  BY DEF IndInv
<1> SUFFICES ASSUME NEW p \in Transactions, InTransaction(p)' PROVE ActorStill(p)'
  BY DEF ActorInv
<1>2. CASE InTransaction(p)
  <2>1. Shielded(p) /\ ActorStill(p)
    BY <1>2, ShieldStep DEF IndInv, ActorInv
  <2>2. plan'[p].session = plan[p].session /\ plan'[p].actor = plan[p].actor
    <3>1. CASE p \in Reviews /\ LockReview(p)
      <4>1. p \in Requests /\ plan \in [Requests -> Plans \cup {None}] /\ plan[p] \in ReviewPlans
        BY <1>1, <3>1 DEF TypeOK, PlansTyped, Planned, LockReview, Goto, Requests
      <4> QED BY <3>1, <4>1 DEF LockReview, ReviewPlans
    <3> QED BY <2>1, <3>1 DEF Shielded
  <2> QED BY <2>1, <2>2 DEF Shielded, ActorStill, Authorized, Identity, Exists
<1>3. CASE ~InTransaction(p)
  BY <1>1, <1>3, EnterStep DEF ActorStill, Authorized, Identity, Exists, rows
<1> QED BY <1>2, <1>3

\* A mutation may apply as long as the accounts are as they were.
LEMMA TargetStep ==
    ASSUME IndInv, [Next]_vars
    PROVE  TargetInv'
<1>1. TypeOK /\ RowsTyped
  BY DEF IndInv, TypeOK
<1> SUFFICES ASSUME NEW m \in Mutations, pc'[m] = "commit" PROVE MayApply(m)'
  BY DEF TargetInv
<1>2. CASE pc[m] = "commit"
  <2>1. Shielded(m)
    BY <1>2, ShieldStep DEF InTransaction, Transactions
  <2>2. plan'[m] = plan[m] /\ MayApply(m)
    BY <1>2, <2>1, NamesDiffer DEF Shielded, IndInv, TargetInv
  <2>3. plan[m].target \in Users
    BY <1>1, <1>2 DEF TypeOK, PlansTyped, Planned, MutationPlans
  <2>4. \A u \in Users : /\ user'[u] = None <=> user[u] = None
                         /\ password'[u] = None <=> password[u] = None
                         /\ u \in Enabled' <=> u \in Enabled
                         /\ \A e : Holds(u, e)' <=> Holds(u, e)
    BY <2>1, NamesDiffer DEF Shielded, Enabled, Exists, Holds
  <2>5. \A e : Taken(e)' <=> Taken(e)
    BY <2>4 DEF Taken
  <2>6. Enabled' = Enabled
    BY <2>4 DEF Enabled
  <2> HIDE DEF Taken, Enabled, Holds
  <2> QED BY <2>2, <2>3, <2>4, <2>5, <2>6 DEF MayApply, RemovesAdmin
<1>3. CASE LockTarget(m)
  BY <1>3 DEF LockTarget, MayApply, RemovesAdmin, Enabled, Exists, Holds, Taken, rows
<1> QED BY <1>1, <1>2, <1>3, MutationMoves

LEMMA ReviewStep ==
    ASSUME IndInv, [Next]_vars
    PROVE  ReviewInv'
<1>1. TypeOK /\ PlansTyped
  BY DEF IndInv, TypeOK
<1> SUFFICES ASSUME NEW v \in Reviews, pc'[v] = "commit" PROVE MayReview(v)'
  BY DEF ReviewInv
<1>2. CASE pc[v] = "commit" /\ plan'[v] = plan[v]
  <2>1. Shielded(v) /\ MayReview(v)
    BY <1>2, ShieldStep DEF InTransaction, Transactions, IndInv, ReviewInv
  <2>2. link[plan[v].subject].user \in Users
    <3>1. plan[v].subject \in Subjects
      BY <1>1, <1>2 DEF PlansTyped, Planned, ReviewPlans
    <3> QED BY <1>1, <2>1, <3>1 DEF MayReview, SameRequest, TypeOK, RowsTyped, Links
  <2> QED BY <1>2, <2>1, <2>2, NamesDiffer DEF Shielded, MayReview, SameRequest, Ordinary, Exists, Holds
<1>3. CASE LockReview(v)
  <2>1. MayReview(v) /\ UNCHANGED <<user, owner, link>>
    BY <1>3 DEF LockReview
  <2>2. /\ plan'[v].subject = plan[v].subject /\ plan'[v].id = plan[v].id
        /\ plan'[v].generation = plan[v].generation /\ plan'[v].decision = plan[v].decision
    <3>1. v \in Requests /\ plan \in [Requests -> Plans \cup {None}] /\ plan[v] \in ReviewPlans
      BY <1>1, <1>3 DEF PlansTyped, Planned, LockReview, Goto, Requests
    <3> QED BY <1>3, <3>1 DEF LockReview, ReviewPlans
  <2> QED BY <2>1, <2>2 DEF MayReview, SameRequest, Ordinary, Exists, Holds
<1> QED BY <1>1, <1>2, <1>3, ReviewMoves

(***************************************************************************)
(* Sessions and credentials                                                *)
(***************************************************************************)

\* A session is made by CreateSession only.
LEMMA SessionMade ==
    ASSUME IndInv, [Next]_vars, NEW p \in Sessions, session[p] = None, session'[p] # None
    PROVE  CreateSession(p) /\ p \in SignIns \cup Attempts
<1>1. TypeOK /\ RowsTyped
  BY DEF IndInv, TypeOK
<1>2. ~UNCHANGED session
  OBVIOUS
<1>3. ASSUME NEW u PROVE session' # Revoked(u)
  BY DEF Revoked
<1>4. ASSUME NEW m \in Mutations PROVE ~Mutating(m)
  <2>1. ASSUME Commit(m) PROVE FALSE
    BY <1>1, <1>2, <1>3, <2>1, CommitEffects DEF IndInv, TargetInv, Commit, Finish, Goto, CommitEffect
  <2> QED BY <1>2, <2>1 DEF Mutating, Authenticate, LockActor, LockTarget, RefuseMutation, BreakDeadlock, rows
<1>5. ASSUME NEW c \in Changes PROVE ~Changing(c)
  BY <1>2, <1>3 DEF Changing, ReadCredential, ClaimCredential, ReplacePassword, rows
<1>6. ASSUME NEW i \in SignIns PROVE ~SigningIn(i)
  <2>1. ~CheckEnabled(i)
    BY DEF CheckEnabled
  <2> QED BY <1>2, <2>1 DEF SigningIn, VerifyPassword, rows
<1>7. ASSUME NEW t \in Attempts PROVE ~LoggingIn(t)
  BY <1>2 DEF LoggingIn, StartLegacySso, CompleteLegacySso, SignInOwner, Invalidate, StayPending, LinkApproved,
              Deny, FindTaken, RequestLink, Provision, OfferSwitch, ClaimSession, GiveUp, ConsumeSwitch, rows
<1>8. ASSUME NEW v \in Reviews PROVE ~Reviewing(v)
  BY <1>2 DEF Reviewing, ListRequests, LockActor, LockReview, RefuseReview, CommitReview, rows
<1>9. ASSUME NEW b \in Servers PROVE ~Starting(b)
  BY <1>2 DEF Starting, LookForAdmin, Bootstrap, rows
<1>10. ASSUME NEW s \in Sessions PROVE ~SignOut(s)
  BY <1>1 DEF SignOut, RowsTyped
<1>11. ASSUME NEW q \in SignIns \cup Attempts, CreateSession(q) PROVE p = q
  BY <1>1, <1>11 DEF CreateSession, RowsTyped
<1>12. ~UNCHANGED vars
  BY <1>2 DEF vars, rows
<1> QED BY <1>4, <1>5, <1>6, <1>7, <1>8, <1>9, <1>10, <1>11, <1>12 DEF Next

LEMMA SessionStep ==
    ASSUME IndInv, [Next]_vars
    PROVE  SessionInv'
<1>1. TypeOK /\ pc \in [Requests -> Stages]
  BY DEF IndInv, TypeOK, PlansTyped
<1> SUFFICES ASSUME NEW p \in SignIns \cup Attempts, session'[p] # None PROVE pc'[p] \in {"check", "done"}
  BY DEF SessionInv
<1>2. p \in Requests /\ p \in Sessions /\ p \notin Mutations \cup Changes \cup Servers \cup Reviews
  BY NamesDiffer DEF Requests, Sessions
<1>3. CASE CreateSession(p)
  BY <1>1, <1>2, <1>3 DEF CreateSession, Goto
<1>4. CASE pc[p] \in {"check", "done"} /\ ~CreateSession(p)
  <2>1. CASE pc'[p] = pc[p]
    BY <1>4, <2>1
  <2>2. ASSUME p \in SignIns, SigningIn(p), pc[p] = "check" PROVE pc'[p] = "done"
    BY <1>1, <1>2, <2>2 DEF SigningIn, VerifyPassword, CheckEnabled, Finish, Goto
  <2>3. ASSUME p \in Attempts, LoggingIn(p), pc[p] = "check" PROVE pc'[p] = "done"
    BY <1>1, <1>2, <2>3
       DEF LoggingIn, StartLegacySso, CompleteLegacySso, SignInOwner, Invalidate, StayPending, LinkApproved,
           Deny, FindTaken, RequestLink, Provision, OfferSwitch, ClaimSession, GiveUp, ConsumeSwitch,
           Open, Unknown, Resolving, Ends, Finish, Goto
  <2> QED BY <1>1, <1>2, <1>4, <2>1, <2>2, <2>3, DoneStays, WhoMoves
<1> QED BY <1>2, <1>3, <1>4, SessionMade DEF IndInv, SessionInv

\* What becomes of a password: a mutation or a server sets it for an account it makes, a
\* reset, a deletion or a change of one's own gets it from no change that holds it.
PasswordStep(u) ==
  \/ password'[u] = password[u] /\ (user[u] # None => user'[u] # None)
  \/ password'[u] \in Mutations \cup Servers /\ user[u] = None /\ user'[u] # None
  \/ /\ password'[u] \in Mutations /\ CredentialFree(u) /\ user'[u] # None
  \/ password'[u] = None /\ CredentialFree(u)
  \/ \E c \in Changes : /\ password'[u] = c /\ plan[c].user = u /\ user'[u] # None
                        /\ pc[c] = "replace" /\ pc'[c] = "done"

LEMMA PasswordSteps ==
    ASSUME IndInv, [Next]_vars, NEW u \in Users
    PROVE  PasswordStep(u)
<1>1. TypeOK /\ RowsTyped /\ PlansTyped
  BY DEF IndInv, TypeOK
<1>2. ASSUME user' = user, password' = password PROVE PasswordStep(u)
  BY <1>2 DEF PasswordStep
<1>3. ASSUME NEW m \in Mutations, Commit(m) PROVE PasswordStep(u)
  <2> DEFINE t == plan[m].target
  <2>1. CommitEffect(m) /\ MayApply(m) /\ plan[m] \in MutationPlans
    BY <1>1, <1>3, CommitEffects DEF IndInv, TargetInv, Commit, Finish, Goto, PlansTyped, Planned
  <2>2. t \in Users
    BY <2>1 DEF MutationPlans
  <2>3. PICK r \in Rows \cup {None} : /\ user' = [user EXCEPT ![t] = r]
                                      /\ r = None <=> plan[m].kind = "delete"
    BY <2>1 DEF CommitEffect
  <2>4. PICK w \in Passwords \cup {None} :
          /\ password' = [password EXCEPT ![t] = w]
          /\ \/ w = m /\ plan[m].kind = "create"
             \/ w = m /\ plan[m].kind = "reset" /\ CredentialFree(t)
             \/ w = None /\ plan[m].kind = "delete" /\ CredentialFree(t)
             \/ w = password[t] /\ plan[m].kind \notin {"create", "reset", "delete"}
    BY <2>1 DEF CommitEffect
  <2>5. plan[m].kind = "create" => user[t] = None
    BY <2>1 DEF MayApply
  <2> HIDE DEF t
  <2>6. CASE u # t
    BY <1>1, <2>3, <2>4, <2>6 DEF PasswordStep, RowsTyped
  <2>7. CASE u = t
    <3>1. user'[u] = r /\ password'[u] = w
      BY <1>1, <2>2, <2>3, <2>4, <2>7 DEF RowsTyped
    <3> QED BY <2>3, <2>4, <2>5, <2>7, <3>1 DEF PasswordStep
  <2> QED BY <2>6, <2>7
<1>4. ASSUME NEW c \in Changes, ReplacePassword(c) PROVE PasswordStep(u)
  <2> DEFINE t == plan[c].user
  <2>1. t \in Users /\ user[t] \in Rows /\ password' = [password EXCEPT ![t] = c]
    BY <1>1, <1>4, ReplaceEffects DEF IndInv
  <2>2. PICK r \in Rows : user' = [user EXCEPT ![t] = r]
    BY <1>1, <1>4, ReplaceEffects DEF IndInv
  <2>3. pc[c] = "replace" /\ pc'[c] = "done"
    BY <1>1, <1>4 DEF ReplacePassword, Finish, Goto, PlansTyped, Requests
  <2> QED BY <1>1, <2>1, <2>2, <2>3, NamesDiffer DEF PasswordStep, RowsTyped
<1>5. ASSUME NEW b \in Servers, NEW t \in Users, NEW e \in Emails, Bootstrap(b, t, e) PROVE PasswordStep(u)
  <2>1. CASE UNCHANGED <<user, password>>
    BY <1>2, <2>1
  <2>2. ASSUME NEW r \in Rows, user' = [user EXCEPT ![t] = r], user[t] = None,
               password' = [password EXCEPT ![t] = b]
        PROVE  PasswordStep(u)
    BY <1>1, <2>2, NamesDiffer DEF PasswordStep, RowsTyped
  <2> QED BY <1>5, <2>1, <2>2, BootstrapEffects
<1>6. ASSUME NEW a \in Attempts, NEW t \in Users, Provision(a, t) PROVE PasswordStep(u)
  <2>1. Row(plan[a].email, "user", FALSE) \in Rows
    BY <1>1, <1>6 DEF Provision, Unknown, Resolving, PlansTyped, Planned, LoginPlans, Row, Rows
  <2>2. user' = [user EXCEPT ![t] = Row(plan[a].email, "user", FALSE)] /\ password' = password
    BY <1>6 DEF Provision
  <2> QED BY <1>1, <2>1, <2>2, NamesDiffer DEF PasswordStep, RowsTyped
<1>7. ASSUME NEW m \in Mutations, Mutating(m) PROVE PasswordStep(u)
  BY <1>2, <1>3, <1>7 DEF Mutating, Authenticate, LockActor, LockTarget, RefuseMutation, BreakDeadlock, rows
<1>8. ASSUME NEW c \in Changes, Changing(c) PROVE PasswordStep(u)
  BY <1>2, <1>4, <1>8 DEF Changing, ReadCredential, ClaimCredential, rows
<1>9. ASSUME NEW i \in SignIns, SigningIn(i) PROVE PasswordStep(u)
  BY <1>2, <1>9 DEF SigningIn, VerifyPassword, CheckEnabled, rows
<1>10. ASSUME NEW t \in Attempts, LoggingIn(t) PROVE PasswordStep(u)
  BY <1>2, <1>6, <1>10
     DEF LoggingIn, StartLegacySso, CompleteLegacySso, SignInOwner, Invalidate, StayPending, LinkApproved,
         Deny, FindTaken, RequestLink, OfferSwitch, ClaimSession, GiveUp, ConsumeSwitch, rows
<1>11. ASSUME NEW v \in Reviews, Reviewing(v) PROVE PasswordStep(u)
  BY <1>2, <1>11 DEF Reviewing, ListRequests, LockActor, LockReview, RefuseReview, CommitReview, rows
<1>12. ASSUME NEW b \in Servers, Starting(b) PROVE PasswordStep(u)
  BY <1>2, <1>5, <1>12 DEF Starting, LookForAdmin, rows
<1>13. ASSUME NEW p, CreateSession(p) \/ SignOut(p) PROVE PasswordStep(u)
  BY <1>2, <1>13 DEF CreateSession, SignOut
<1>14. CASE UNCHANGED vars
  BY <1>2, <1>14 DEF vars, rows
<1> QED BY <1>7, <1>8, <1>9, <1>10, <1>11, <1>12, <1>13, <1>14 DEF Next

LEMMA CredentialStep ==
    ASSUME IndInv, [Next]_vars
    PROVE  CredentialInv'
<1>1. TypeOK /\ RowsTyped /\ PlansTyped
  BY DEF IndInv, TypeOK
<1>2. ASSUME NEW u \in Users, password'[u] # None PROVE Exists(u)'
  <2>1. password[u] # None => user[u] # None
    BY DEF IndInv, CredentialInv, Exists
  <2> QED BY <1>2, <2>1, PasswordSteps, NamesDiffer DEF PasswordStep, Exists
<1>3. ASSUME NEW c \in Changes, pc'[c] = "replace"
      PROVE  /\ password'[plan'[c].user] = plan'[c].old
             /\ \A d \in Changes : pc'[d] = "replace" /\ plan'[d].user = plan'[c].user => d = c
  <2>1. CASE ClaimCredential(c)
    <3>1. c \in Requests /\ pc' = [pc EXCEPT ![c] = "replace"] /\ plan' = plan /\ password' = password
          /\ CredentialFree(plan[c].user) /\ password[plan[c].user] = plan[c].old
      BY <1>1, <1>3, <2>1 DEF ClaimCredential, Goto, PlansTyped, Requests, rows
    <3> QED BY <1>1, <3>1 DEF CredentialFree, PlansTyped
  <2>2. CASE pc[c] = "replace" /\ plan'[c] = plan[c]
    <3> DEFINE u == plan[c].user
    <3>1. u \in Users /\ password[u] = plan[c].old /\ plan[c].old # None /\ ~CredentialFree(u)
      <4>1. plan[c] \in ChangePlans
        BY <1>1, <2>2 DEF PlansTyped, Planned
      <4> QED BY <2>2, <4>1, NamesDiffer DEF ChangePlans, IndInv, CredentialInv, CredentialFree
    <3>2. user[u] # None
      BY <3>1 DEF IndInv, CredentialInv, Exists
    <3>3. ASSUME NEW d \in Changes, pc[d] = "replace", plan[d].user = u PROVE d = c
      BY <2>2, <3>3 DEF IndInv, CredentialInv
    <3>4. password'[u] = password[u]
      BY <1>3, <3>1, <3>2, <3>3, PasswordSteps DEF PasswordStep
    <3>5. ASSUME NEW d \in Changes, pc'[d] = "replace", plan'[d].user = u PROVE d = c
      <4>1. CASE pc[d] = "replace" /\ plan'[d] = plan[d]
        BY <3>3, <3>5, <4>1
      <4>2. CASE ClaimCredential(d)
        BY <3>1, <3>5, <4>2 DEF ClaimCredential
      <4> QED BY <1>1, <3>5, <4>1, <4>2, ChangeMoves
    <3> QED BY <2>2, <3>1, <3>4, <3>5
  <2> QED BY <1>1, <1>3, <2>1, <2>2, ChangeMoves
<1> QED BY <1>2, <1>3 DEF CredentialInv

(***************************************************************************)
(* Generations, evidence and approvals                                     *)
(***************************************************************************)

\* What a review knows when it has listed a request: the request, as it is now.
LEMMA ListEffects ==
    ASSUME TypeOK, NEW v \in Reviews, NEW s \in Sessions, NEW x \in Subjects,
           NEW d \in {"approved", "rejected"}, ListRequests(v, s, x, d)
    PROVE  /\ link[x] # None /\ plan'[v].subject = x /\ plan'[v].id = link[x].id
           /\ plan'[v].generation = link[x].generation /\ plan'[v].email = link[x].email
           /\ plan'[v].target = link[x].user /\ UNCHANGED rows
           /\ pc'[v] = "lock"
  BY DEF ListRequests, Goto, Know, TypeOK, PlansTyped, Requests

\* and once it has locked it: the same, and the generation of an approval.
LEMMA LockReviewEffects ==
    ASSUME TypeOK, NEW v \in Reviews, LockReview(v)
    PROVE  /\ Listed(v) /\ InTransaction(v) /\ MayReview(v)
           /\ plan'[v].subject = plan[v].subject /\ plan'[v].id = plan[v].id
           /\ plan'[v].generation = plan[v].generation /\ plan'[v].email = plan[v].email
           /\ plan'[v].target = plan[v].target /\ plan'[v].decision = plan[v].decision
           /\ plan[v].decision = "approved" => /\ plan'[v].drawn = generation + 1
                                               /\ generation' = generation + 1
           /\ UNCHANGED <<user, password, session, owner, link, approval>>
<1>1. /\ v \in Requests /\ plan \in [Requests -> Plans \cup {None}] /\ plan[v] \in ReviewPlans
      /\ pc[v] = "target"
  BY DEF TypeOK, PlansTyped, Planned, LockReview, Goto, Requests
<1> QED BY <1>1 DEF LockReview, ReviewPlans, Listed, InTransaction

LEMMA GenerationInvStep ==
    ASSUME IndInv, [Next]_vars
    PROVE  GenerationInv'
<1>1. TypeOK /\ RowsTyped /\ PlansTyped
  BY DEF IndInv, TypeOK
<1>2. generation \in Nat /\ generation' \in {generation, generation + 1}
  BY <1>1, GenerationStep DEF RowsTyped
<1>3. \A x \in Subjects : link[x] # None => link[x] \in Links /\ link[x].generation \in Nat
  BY <1>1 DEF RowsTyped, Links
<1>4. ASSUME NEW v \in Reviews, Listed(v) PROVE plan[v].generation \in Nat /\ plan[v].generation <= generation
  BY <1>1, <1>4 DEF Listed, PlansTyped, Planned, ReviewPlans, IndInv, GenerationInv
<1>5. ASSUME NEW v \in Reviews, CommitReview(v), plan[v].decision = "approved" PROVE plan[v].drawn = generation
  BY <1>1, <1>5 DEF CommitReview, Finish, Goto, IndInv, GenerationInv, Drawn
<1>6. ASSUME NEW x \in Subjects, link'[x] # None PROVE link'[x].generation <= generation'
  <2>1. CASE link'[x] = link[x]
    BY <1>2, <1>3, <1>6, <2>1 DEF IndInv, GenerationInv
  <2>2. CASE link'[x] # link[x]
    <3>1. Renewed(x) \/ Requested(x) \/ Bound(x) \/ Decided(x)
      BY <1>6, <2>2, LinkStep
    <3>2. CASE Renewed(x)
      BY <1>2, <3>2 DEF Renewed
    <3>3. CASE Requested(x)
      BY <1>2, <3>3 DEF Requested
    <3>4. CASE Bound(x)
      BY <1>3, <3>4 DEF Bound, IndInv, GenerationInv
    <3>5. CASE Decided(x)
      <4>1. link[x].generation <= generation
        BY <3>5 DEF Decided, IndInv, GenerationInv
      <4> QED BY <1>2, <1>5, <3>5, <4>1 DEF Decided
    <3> QED BY <3>1, <3>2, <3>3, <3>4, <3>5
  <2> QED BY <2>1, <2>2
<1>7. ASSUME NEW v \in Reviews, Listed(v)'
      PROVE  \/ Listed(v) /\ plan'[v].generation = plan[v].generation
             \/ \E x \in Subjects : /\ link[x] # None /\ plan'[v].generation = link[x].generation
                                    /\ generation' = generation
  <2>1. CASE LockReview(v)
    BY <1>1, <2>1, LockReviewEffects
  <2>2. ASSUME NEW s \in Sessions, NEW x \in Subjects, NEW d \in {"approved", "rejected"},
               ListRequests(v, s, x, d)
        PROVE  link[x] # None /\ plan'[v].generation = link[x].generation /\ generation' = generation
    BY <1>1, <2>2, ListEffects DEF rows
  <2> QED BY <1>1, <1>7, <2>1, <2>2, ReviewMoves
<1>8. ASSUME NEW v \in Reviews, Listed(v)' PROVE plan'[v].generation <= generation'
  <2>1. CASE Listed(v) /\ plan'[v].generation = plan[v].generation
    BY <1>2, <1>4, <2>1
  <2>2. ASSUME NEW x \in Subjects, link[x] # None, plan'[v].generation = link[x].generation,
               generation' = generation
        PROVE  plan'[v].generation <= generation'
    BY <2>2 DEF IndInv, GenerationInv
  <2> QED BY <1>7, <1>8, <2>1, <2>2
<1>9. ASSUME NEW t \in Attempts, Started(t)' PROVE plan'[t].generation <= generation'
  <2>1. CASE Started(t) /\ plan'[t].generation = plan[t].generation
    <3>1. plan[t].generation \in Nat
      BY <1>1, <2>1 DEF Started, PlansTyped, Planned, StartPlans, LoginPlans
    <3> QED BY <1>2, <2>1, <3>1 DEF IndInv, GenerationInv
  <2>2. ASSUME NEW s \in Sessions \cup {None}, StartLegacySso(t, s)
        PROVE  plan'[t].generation <= generation'
    BY <1>1, <1>2, <2>2, StartEffects DEF PlansTyped, Requests
  <2> QED BY <1>1, <1>9, <2>1, <2>2, LoginMoves
<1>10. ASSUME NEW v \in Reviews, Drawn(v)'
       PROVE  /\ generation' = plan'[v].drawn
              /\ \A x \in Subjects : link'[x] # None => link'[x].generation < generation'
              /\ \A w \in Reviews : Listed(w)' => plan'[w].generation < generation'
  <2>1. CASE Drawn(v) /\ plan'[v] = plan[v]
    <3>1. generation' = generation /\ generation = plan[v].drawn
      BY <1>10, <2>1, GenerationStep DEF Drawn, IndInv, GenerationInv
    <3>2. link' = link
      BY <1>10, <2>1, ShieldStep DEF Drawn, Shielded, InTransaction, Transactions
    <3>3. ASSUME NEW w \in Reviews, Listed(w)' PROVE plan'[w].generation < generation'
      BY <1>7, <2>1, <3>1, <3>3 DEF IndInv, GenerationInv
    <3> QED BY <2>1, <3>1, <3>2, <3>3 DEF IndInv, GenerationInv
  <2>2. CASE LockReview(v)
    <3>1. plan[v].decision = "approved" /\ plan'[v].drawn = generation + 1 /\ generation' = generation + 1
          /\ link' = link
      BY <1>1, <1>10, <2>2, LockReviewEffects DEF Drawn
    <3>2. \A x \in Subjects : link'[x] # None => link'[x].generation < generation'
      BY <1>2, <1>3, <3>1 DEF IndInv, GenerationInv
    <3>3. ASSUME NEW w \in Reviews, Listed(w)' PROVE plan'[w].generation < generation'
      BY <1>2, <1>3, <1>4, <1>7, <3>1, <3>3 DEF IndInv, GenerationInv
    <3> QED BY <3>1, <3>2, <3>3
  <2> QED BY <1>1, <1>10, <2>1, <2>2, ReviewMoves DEF Drawn
<1> QED BY <1>6, <1>8, <1>9, <1>10 DEF GenerationInv

LEMMA EvidenceStep ==
    ASSUME IndInv, [Next]_vars
    PROVE  EvidenceInv'
<1>1. TypeOK /\ RowsTyped /\ PlansTyped
  BY DEF IndInv, TypeOK
<1>2. generation \in Nat
  BY <1>1 DEF RowsTyped
<1>3. ASSUME NEW t \in Attempts, pc[t] = "done" PROVE pc'[t] = "done"
  BY <1>1, <1>3, DoneStays DEF Requests
<1>4. ASSUME NEW x \in Subjects, link[x] # None PROVE link[x].id \in Attempts /\ pc'[link[x].id] = "done"
  BY <1>1, <1>3, <1>4 DEF RowsTyped, Links, IndInv, EvidenceInv
<1>5. ASSUME NEW x \in Subjects, link'[x] # None PROVE pc'[link'[x].id] = "done"
  <2>1. CASE link'[x] = link[x]
    BY <1>4, <1>5, <2>1
  <2>2. CASE link'[x] # link[x]
    <3>1. Renewed(x) \/ Requested(x) \/ Bound(x) \/ Decided(x)
      BY <1>5, <2>2, LinkStep
    <3>2. CASE Requested(x)
      <4>1. PICK t \in Attempts : link'[x].id = t /\ pc'[t] = "done"
        BY <3>2 DEF Requested
      <4> QED BY <4>1
    <3>3. CASE Renewed(x) \/ Bound(x) \/ Decided(x)
      <4>1. link[x] # None /\ link'[x].id = link[x].id
        BY <3>3 DEF Renewed, Bound, Decided
      <4> QED BY <1>4, <4>1
    <3> QED BY <3>1, <3>2, <3>3
  <2> QED BY <2>1, <2>2
<1>6. ASSUME NEW v \in Reviews, Listed(v)'
      PROVE  /\ pc'[plan'[v].id] = "done"
             /\ LET x == plan'[v].subject IN
                link'[x] # None /\ link'[x].id = plan'[v].id /\ link'[x].generation = plan'[v].generation
                  => link'[x].email = plan'[v].email /\ link'[x].user = plan'[v].target
  <2>1. ASSUME NEW s \in Sessions, NEW x \in Subjects, NEW d \in {"approved", "rejected"},
               ListRequests(v, s, x, d)
        PROVE  /\ pc'[plan'[v].id] = "done" /\ plan'[v].subject = x
               /\ link'[x].email = plan'[v].email /\ link'[x].user = plan'[v].target
    BY <1>1, <1>4, <2>1, ListEffects DEF rows
  <2>2. CASE /\ Listed(v) /\ plan'[v].subject = plan[v].subject /\ plan'[v].id = plan[v].id
             /\ plan'[v].generation = plan[v].generation /\ plan'[v].email = plan[v].email
             /\ plan'[v].target = plan[v].target
    <3> DEFINE x == plan[v].subject
    <3>1. x \in Subjects /\ plan[v].id \in Attempts /\ plan[v].generation \in Nat
      BY <1>1, <2>2 DEF Listed, PlansTyped, Planned, ReviewPlans
    <3>2. pc[plan[v].id] = "done" /\ pc'[plan[v].id] = "done" /\ plan[v].generation <= generation
      BY <1>3, <2>2, <3>1 DEF IndInv, EvidenceInv, GenerationInv
    <3>3. link[x] # None /\ link[x].id = plan[v].id /\ link[x].generation = plan[v].generation
            => link[x].email = plan[v].email /\ link[x].user = plan[v].target
      BY <2>2 DEF IndInv, EvidenceInv, SameRequest
    <3>4. ASSUME link'[x] # None, link'[x].id = plan[v].id, link'[x].generation = plan[v].generation
          PROVE  link'[x].email = plan[v].email /\ link'[x].user = plan[v].target
      <4>1. CASE link'[x] = link[x]
        BY <3>3, <3>4, <4>1
      <4>2. CASE Renewed(x)
        BY <1>2, <3>1, <3>2, <3>4, <4>2 DEF Renewed
      <4>3. CASE Requested(x)
        BY <3>2, <3>4, <4>3 DEF Requested
      <4>4. CASE Bound(x)
        BY <3>3, <3>4, <4>4 DEF Bound
      <4>5. CASE Decided(x)
        <5>1. PICK w \in Reviews :
                /\ CommitReview(w)
                /\ link'[x].generation = IF plan[w].decision = "approved" THEN plan[w].drawn
                                         ELSE link[x].generation
          BY <4>5 DEF Decided
        <5>2. pc[w] = "commit"
          BY <5>1 DEF CommitReview, Finish, Goto
        <5>3. plan[w].decision # "approved"
          <6>1. SUFFICES ASSUME plan[w].decision = "approved" PROVE FALSE
            OBVIOUS
          <6>2. plan[w].drawn = generation /\ plan[v].generation < generation
            BY <2>2, <5>2, <6>1 DEF IndInv, GenerationInv, Drawn
          <6> QED BY <1>2, <3>1, <3>4, <5>1, <6>1, <6>2
        <5> QED BY <3>3, <3>4, <4>5, <5>1, <5>3 DEF Decided
      <4> QED BY <3>1, <3>4, <4>1, <4>2, <4>3, <4>4, <4>5, LinkStep
    <3> QED BY <2>2, <3>2, <3>4
  <2> QED BY <1>1, <1>6, <2>1, <2>2, LockReviewEffects, ReviewMoves
<1> QED BY <1>5, <1>6 DEF EvidenceInv, SameRequest

\* An approval remembers the logins that start, and the next one takes its place.
LEMMA ApprovalChanges ==
    ASSUME IndInv, [Next]_vars, NEW x \in Subjects
    PROVE  \/ approval'[x] = approval[x]
           \/ /\ approval[x] # None /\ approval'[x] # None
              /\ approval'[x].email = approval[x].email /\ approval'[x].user = approval[x].user
              /\ \E t \in Attempts : approval'[x].since = approval[x].since \cup {t}
           \/ \E v \in Reviews :
                /\ CommitReview(v) /\ plan[v].decision = "approved" /\ plan[v].subject = x
                /\ approval'[x] = [email |-> plan[v].email, user |-> plan[v].target, since |-> {}]
<1>1. TypeOK /\ RowsTyped
  BY DEF IndInv, TypeOK
<1>2. ASSUME NEW m \in Mutations, Mutating(m) PROVE approval' = approval
  BY <1>2 DEF Mutating, Authenticate, LockActor, LockTarget, RefuseMutation, Commit, BreakDeadlock, rows
<1>3. ASSUME NEW c \in Changes, Changing(c) PROVE approval' = approval
  BY <1>3 DEF Changing, ReadCredential, ClaimCredential, ReplacePassword, rows
<1>4. ASSUME NEW i \in SignIns, SigningIn(i) PROVE approval' = approval
  BY <1>4 DEF SigningIn, VerifyPassword, CheckEnabled, rows
<1>5. ASSUME NEW t \in Attempts, LoggingIn(t)
      PROVE  approval' = approval \/ \E s \in Sessions \cup {None} : StartLegacySso(t, s)
  BY <1>5 DEF LoggingIn, CompleteLegacySso, SignInOwner, Invalidate, StayPending, LinkApproved, Deny, FindTaken,
              RequestLink, Provision, OfferSwitch, ClaimSession, GiveUp, ConsumeSwitch, rows
<1>6. ASSUME NEW v \in Reviews, Reviewing(v) PROVE approval' = approval \/ CommitReview(v)
  BY <1>6 DEF Reviewing, ListRequests, LockActor, LockReview, RefuseReview, rows
<1>7. ASSUME NEW b \in Servers, Starting(b) PROVE approval' = approval
  BY <1>7 DEF Starting, LookForAdmin, Bootstrap, rows
<1>8. ASSUME NEW p, CreateSession(p) \/ SignOut(p) PROVE approval' = approval
  BY <1>8 DEF CreateSession, SignOut
<1>9. ASSUME NEW t \in Attempts, NEW s \in Sessions \cup {None}, StartLegacySso(t, s)
      PROVE  \/ approval'[x] = approval[x]
             \/ /\ approval[x] # None /\ approval'[x] # None
                /\ approval'[x].email = approval[x].email /\ approval'[x].user = approval[x].user
                /\ approval'[x].since = approval[x].since \cup {t}
  BY <1>1, <1>9, StartEffects, NamesDiffer
<1>10. ASSUME NEW v \in Reviews, CommitReview(v)
       PROVE  \/ approval'[x] = approval[x]
              \/ /\ plan[v].decision = "approved" /\ plan[v].subject = x
                 /\ approval'[x] = [email |-> plan[v].email, user |-> plan[v].target, since |-> {}]
  <2>1. plan[v].decision \in {"approved", "rejected"} /\ plan[v].subject \in Subjects
    BY <1>1, <1>10 DEF CommitReview, Finish, Goto, TypeOK, PlansTyped, Planned, ReviewPlans
  <2> QED BY <1>1, <1>10, <2>1, CommitReviewEffects DEF IndInv, RowsTyped
<1>11. CASE UNCHANGED vars
  BY <1>11 DEF vars, rows
<1> QED BY <1>2, <1>3, <1>4, <1>5, <1>6, <1>7, <1>8, <1>9, <1>10, <1>11 DEF Next

LEMMA ApprovalStep ==
    ASSUME IndInv, [Next]_vars
    PROVE  ApprovalInv'
<1>1. TypeOK /\ RowsTyped /\ PlansTyped
  BY DEF IndInv, TypeOK
<1>2. generation \in Nat
  BY <1>1 DEF RowsTyped
<1> SUFFICES ASSUME NEW x \in Subjects, link'[x] # None, link'[x].status = "approved"
             PROVE  /\ link'[x].generation # 0
                    /\ approval'[x] # None /\ approval'[x].email = link'[x].email
                    /\ approval'[x].user = link'[x].user
                    /\ \A t \in Attempts : Started(t)' /\ plan'[t].generation > link'[x].generation
                                             => t \in approval'[x].since
  BY DEF ApprovalInv
<1>3. CASE link'[x] = link[x]
  <2>1. /\ link[x].generation # 0 /\ approval[x] # None
        /\ approval[x].email = link[x].email /\ approval[x].user = link[x].user
        /\ \A t \in Attempts : Started(t) /\ plan[t].generation > link[x].generation => t \in approval[x].since
    BY <1>3 DEF IndInv, ApprovalInv
  <2>2. ASSUME NEW v \in Reviews, CommitReview(v), plan[v].subject = x PROVE FALSE
    BY <1>1, <1>3, <2>2, CommitReviewEffects DEF IndInv, MayReview
  <2>3. /\ approval'[x] # None /\ approval'[x].email = approval[x].email
        /\ approval'[x].user = approval[x].user /\ approval[x].since \subseteq approval'[x].since
    BY <2>1, <2>2, ApprovalChanges
  <2>4. ASSUME NEW t \in Attempts, Started(t)', plan'[t].generation > link[x].generation
        PROVE  t \in approval'[x].since
    <3>1. CASE Started(t) /\ plan'[t].generation = plan[t].generation
      BY <2>1, <2>3, <2>4, <3>1
    <3>2. ASSUME NEW s \in Sessions \cup {None}, StartLegacySso(t, s) PROVE t \in approval'[x].since
      BY <1>1, <2>1, <3>2, StartEffects
    <3> QED BY <1>1, <2>4, <3>1, <3>2, LoginMoves
  <2> QED BY <1>3, <2>1, <2>3, <2>4
<1>4. CASE link'[x] # link[x]
  <2>1. Decided(x)
    <3>1. ~Renewed(x)
      BY DEF Renewed
    <3>2. ~Bound(x)
      BY DEF Bound
    <3>3. ASSUME Requested(x) PROVE link'[x].status = "pending"
      <4>1. PICK t \in Attempts :
              link'[x] = [id |-> t, email |-> plan[t].email, status |-> "pending", generation |-> 0,
                          user |-> CHOOSE u \in Users : Holds(u, plan[t].email)]
        BY <3>3 DEF Requested
      <4> QED BY <4>1
    <3> QED BY <1>4, <3>1, <3>2, <3>3, LinkStep
  <2>2. PICK v \in Reviews : /\ CommitReview(v) /\ plan[v].subject = x /\ link'[x].status = plan[v].decision
                             /\ link'[x].generation = IF plan[v].decision = "approved" THEN plan[v].drawn
                                                      ELSE link[x].generation
    BY <2>1 DEF Decided
  <2>3. plan[v].decision = "approved" /\ link'[x].generation = plan[v].drawn /\ pc[v] = "commit"
    BY <2>2 DEF CommitReview, Finish, Goto
  <2>4. /\ approval' = [approval EXCEPT ![x] = [email |-> plan[v].email, user |-> plan[v].target, since |-> {}]]
        /\ MayReview(v) /\ generation' = generation
    BY <1>1, <2>2, <2>3, CommitReviewEffects DEF IndInv
  <2>5. link[x] # None /\ link[x].email = plan[v].email /\ link[x].user = plan[v].target
    BY <2>2, <2>3, <2>4 DEF MayReview, SameRequest, IndInv, EvidenceInv, Listed
  <2>6. link[x].generation \in Nat /\ link[x].generation < generation /\ plan[v].drawn = generation
    <3>1. link[x].generation \in Nat
      BY <1>1, <2>5 DEF RowsTyped, Links
    <3> QED BY <2>3, <2>5, <3>1 DEF IndInv, GenerationInv, Drawn
  <2>7. ASSUME NEW t \in Attempts, Started(t)' PROVE ~(plan'[t].generation > generation)
    <3>1. CASE Started(t) /\ plan'[t].generation = plan[t].generation
      <4>1. plan[t].generation \in Nat
        BY <1>1, <3>1 DEF Started, PlansTyped, Planned, StartPlans, LoginPlans
      <4> QED BY <1>2, <3>1, <4>1 DEF IndInv, GenerationInv
    <3>2. ASSUME NEW s \in Sessions \cup {None}, StartLegacySso(t, s) PROVE FALSE
      BY <1>1, <1>2, <2>4, <3>2, StartEffects
    <3> QED BY <1>1, <2>7, <3>1, <3>2, LoginMoves
  <2>8. approval'[x] = [email |-> plan[v].email, user |-> plan[v].target, since |-> {}]
    BY <1>1, <2>4 DEF RowsTyped
  <2>9. approval'[x] # None
    <3>1. approval'[x] \in Approvals
      <4>1. plan[v].email \in Emails /\ plan[v].target \in Users
        BY <1>1, <2>3 DEF PlansTyped, Planned, ReviewPlans
      <4> QED BY <2>8, <4>1 DEF Approvals
    <3> QED BY <3>1, NamesDiffer
  <2> QED BY <1>2, <2>1, <2>3, <2>5, <2>6, <2>7, <2>8, <2>9 DEF Decided
<1> QED BY <1>3, <1>4

(***************************************************************************)
(* An enabled administrator                                                *)
(***************************************************************************)

\* Whoever changes rows of accounts leaves an enabled administrator.
KeepsAdmin == (Enabled # {} => Enabled' # {}) /\ EnabledAdmin'

\* Every step does.
LEMMA AdminStep ==
    ASSUME IndInv, [Next]_vars
    PROVE  KeepsAdmin
<1>1. TypeOK /\ RowsTyped /\ PlansTyped
  BY DEF IndInv, TypeOK
<1>2. ASSUME NEW a \in Enabled, user'[a] = user[a] PROVE Enabled' # {}
  BY <1>2 DEF Enabled, Exists
<1>3. ASSUME NEW u \in Users, user'[u] # None, user'[u].enabled, user'[u].role = "admin" PROVE Enabled' # {}
  BY <1>3, NamesDiffer DEF Enabled, Exists
<1>4. ASSUME Enabled' # {} PROVE KeepsAdmin
  BY <1>4 DEF KeepsAdmin, EnabledAdmin
<1>5. ASSUME user' = user PROVE KeepsAdmin
  BY <1>5 DEF KeepsAdmin, IndInv, EnabledAdmin, Enabled, Exists
<1>6. ASSUME NEW m \in Mutations, Commit(m) PROVE KeepsAdmin
  <2> DEFINE t == plan[m].target
             a == plan[m].actor
  <2>1. CommitEffect(m) /\ MayApply(m) /\ ActorStill(m) /\ plan[m] \in MutationPlans
    BY <1>1, <1>6, CommitEffects
       DEF IndInv, TargetInv, ActorInv, InTransaction, Transactions, Commit, Finish, Goto, PlansTyped, Planned
  <2>2. t \in Users /\ a \in Users
    BY <2>1 DEF MutationPlans
  <2>3. a \in Enabled
    BY <2>1, <2>2 DEF ActorStill, Authorized, Identity, Enabled
  <2>4. PICK r \in Rows \cup {None} :
          /\ user' = [user EXCEPT ![t] = r]
          /\ r = None <=> plan[m].kind = "delete"
          /\ t \in Enabled /\ ~RemovesAdmin(m) => r.enabled /\ r.role = "admin"
    BY <2>1 DEF CommitEffect
  <2>5. CASE t \notin Enabled
    <3>1. user'[a] = user[a]
      BY <1>1, <2>2, <2>3, <2>4, <2>5 DEF RowsTyped
    <3> QED BY <1>2, <1>4, <2>3, <3>1
  <2>6. CASE t \in Enabled /\ RemovesAdmin(m)
    <3>1. PICK o \in Enabled : o # t
      BY <2>1, <2>6 DEF MayApply
    <3>2. user'[o] = user[o]
      BY <1>1, <2>4, <3>1 DEF RowsTyped, Enabled
    <3> QED BY <1>2, <1>4, <3>1, <3>2
  <2>7. CASE t \in Enabled /\ ~RemovesAdmin(m)
    <3>1. user'[t] = r /\ r # None /\ r.enabled /\ r.role = "admin"
      BY <1>1, <2>2, <2>4, <2>7 DEF RowsTyped, RemovesAdmin
    <3> QED BY <1>3, <1>4, <2>2, <3>1
  <2> QED BY <2>5, <2>6, <2>7
<1>7. ASSUME NEW c \in Changes, ReplacePassword(c) PROVE KeepsAdmin
  <2> DEFINE u == plan[c].user
  <2>1. u \in Users /\ user[u] \in Rows
    BY <1>1, <1>7, ReplaceEffects DEF IndInv
  <2>2. PICK r \in Rows : /\ user' = [user EXCEPT ![u] = r]
                          /\ r.role = user[u].role /\ r.enabled = user[u].enabled
    BY <1>1, <1>7, ReplaceEffects DEF IndInv
  <2>3. Enabled # {}
    BY <2>1, NamesDiffer DEF IndInv, EnabledAdmin, Exists
  <2>4. PICK a \in Enabled : TRUE
    BY <2>3
  <2> HIDE DEF u
  <2>5. CASE a = u
    <3>1. user'[u] = r
      BY <1>1, <2>1, <2>2 DEF RowsTyped
    <3>2. r # None /\ r.enabled /\ r.role = "admin"
      BY <2>2, <2>4, <2>5, NamesDiffer DEF Enabled
    <3> QED BY <1>3, <1>4, <2>1, <3>1, <3>2
  <2>6. CASE a # u
    <3>1. user'[a] = user[a]
      BY <1>1, <2>2, <2>6 DEF RowsTyped, Enabled
    <3> QED BY <1>2, <1>4, <3>1
  <2> QED BY <2>5, <2>6
<1>8. ASSUME NEW b \in Servers, NEW u \in Users, NEW e \in Emails, Bootstrap(b, u, e) PROVE KeepsAdmin
  <2>1. CASE UNCHANGED <<user, password>>
    BY <1>5, <2>1
  <2>2. ASSUME NEW r \in Rows, user' = [user EXCEPT ![u] = r], r.enabled, r.role = "admin" PROVE KeepsAdmin
    <3>1. user'[u] = r /\ r # None
      BY <1>1, <2>2, NamesDiffer DEF RowsTyped
    <3> QED BY <1>3, <1>4, <2>2, <3>1
  <2> QED BY <1>8, <2>1, <2>2, BootstrapEffects
<1>9. ASSUME NEW t \in Attempts, NEW u \in Users, Provision(t, u) PROVE KeepsAdmin
  <2>1. user[u] = None /\ user' = [user EXCEPT ![u] = Row(plan[t].email, "user", FALSE)]
    BY <1>9 DEF Provision
  <2>2. pc[t] # "done" /\ t \in Requests \ Servers
    BY <1>9, NamesDiffer DEF Provision, Unknown, Resolving, Requests
  <2>3. PICK a \in Enabled : TRUE
    BY <2>2 DEF IndInv, LedInv
  <2>4. user'[a] = user[a]
    BY <1>1, <2>1, <2>3 DEF RowsTyped, Enabled, Exists
  <2> QED BY <1>2, <1>4, <2>4
<1>10. ASSUME NEW m \in Mutations, Mutating(m) PROVE KeepsAdmin
  BY <1>5, <1>6, <1>10 DEF Mutating, Authenticate, LockActor, LockTarget, RefuseMutation, BreakDeadlock, rows
<1>11. ASSUME NEW c \in Changes, Changing(c) PROVE KeepsAdmin
  BY <1>5, <1>7, <1>11 DEF Changing, ReadCredential, ClaimCredential, rows
<1>12. ASSUME NEW i \in SignIns, SigningIn(i) PROVE KeepsAdmin
  BY <1>5, <1>12 DEF SigningIn, VerifyPassword, CheckEnabled, rows
<1>13. ASSUME NEW t \in Attempts, LoggingIn(t) PROVE KeepsAdmin
  BY <1>5, <1>9, <1>13
     DEF LoggingIn, StartLegacySso, CompleteLegacySso, SignInOwner, Invalidate, StayPending, LinkApproved,
         Deny, FindTaken, RequestLink, OfferSwitch, ClaimSession, GiveUp, ConsumeSwitch, rows
<1>14. ASSUME NEW v \in Reviews, Reviewing(v) PROVE KeepsAdmin
  BY <1>5, <1>14 DEF Reviewing, ListRequests, LockActor, LockReview, RefuseReview, CommitReview, rows
<1>15. ASSUME NEW b \in Servers, Starting(b) PROVE KeepsAdmin
  BY <1>5, <1>8, <1>15 DEF Starting, LookForAdmin, rows
<1>16. ASSUME NEW p, CreateSession(p) \/ SignOut(p) PROVE KeepsAdmin
  BY <1>5, <1>16 DEF CreateSession, SignOut
<1>17. CASE UNCHANGED vars
  BY <1>5, <1>17 DEF vars, rows
<1> QED
  BY <1>10, <1>11, <1>12, <1>13, <1>14, <1>15, <1>16, <1>17 DEF Next

LEMMA LedStep ==
    ASSUME IndInv, [Next]_vars
    PROVE  LedInv'
<1> SUFFICES ASSUME Enabled' = {}, NEW p \in Requests \ Servers PROVE pc'[p] = "done"
  BY DEF LedInv
<1>1. pc[p] = "done"
  BY AdminStep DEF KeepsAdmin, IndInv, LedInv
<1> QED BY <1>1, DoneStays DEF IndInv

(***************************************************************************)
(* The theorems                                                            *)
(***************************************************************************)

\* The invariant holds of a database with an administrator, and of an empty one.
LEMMA InitInv ==
    ASSUME Init
    PROVE  IndInv
<1>1. PICK crowd \in Crowds :
        /\ user = [u \in Users |->
                     IF u \in crowd THEN Row(u, IF u \in Admins THEN "admin" ELSE "user", FALSE) ELSE None]
        /\ password = [u \in Users |-> IF u \in crowd THEN u ELSE None]
        /\ session = [s \in Sessions |-> IF s \in crowd \cap Users THEN s ELSE None]
        /\ pc = [p \in Requests |-> IF p \in crowd THEN "idle" ELSE "done"]
  BY DEF Init
<1>2. /\ owner = [s \in Subjects |-> None] /\ link = [s \in Subjects |-> None] /\ generation = 0
      /\ approval = [s \in Subjects |-> None] /\ plan = [p \in Requests |-> None]
  BY DEF Init
<1>3. crowd \cap Users \subseteq Admins \cup Members
  BY CrowdsLed
<1>4. \A u \in Users : \A role \in {"admin", "user"} :
        u \in crowd => u \in Emails /\ u \in Passwords /\ Row(u, role, FALSE) \in Rows
  BY <1>3, NamesDiffer DEF Row, Rows, Passwords
<1>5. user \in [Users -> Rows \cup {None}]
  BY <1>1, <1>4
<1>6. password \in [Users -> Passwords \cup {None}]
  BY <1>1, <1>4
<1>7. RowsTyped
  BY <1>1, <1>2, <1>5, <1>6 DEF RowsTyped
<1>8. \A p \in Requests : pc[p] \in {"idle", "done"}
  BY <1>1
<1>9. PlansTyped
  BY <1>1, <1>2, <1>8 DEF PlansTyped, Planned, Stages, Requests
<1>10. MutexInv /\ ActorInv /\ TargetInv /\ ReviewInv /\ GenerationInv /\ EvidenceInv /\ ApprovalInv
  <2>1. \A p \in Transactions : ~InTransaction(p)
    BY <1>8 DEF InTransaction, Transactions, Requests
  <2>2. \A m \in Mutations : pc[m] # "commit"
    BY <1>8 DEF Requests
  <2>3. \A v \in Reviews : pc[v] # "commit" /\ ~Listed(v) /\ ~Drawn(v)
    BY <1>8 DEF Requests, Listed, Drawn
  <2>4. \A t \in Attempts : ~Started(t)
    BY <1>8 DEF Requests, Started
  <2>5. \A x \in Subjects : link[x] = None
    BY <1>2
  <2> QED BY <2>1, <2>2, <2>3, <2>4, <2>5
          DEF MutexInv, ActorInv, TargetInv, ReviewInv, GenerationInv, EvidenceInv, ApprovalInv
<1>11. SessionInv
  BY <1>1, NamesDiffer DEF SessionInv, Requests, Sessions
<1>12. CredentialInv
  <2>1. \A u \in Users : password[u] # None => Exists(u)
    BY <1>1, <1>4, NamesDiffer DEF Exists
  <2> QED BY <1>8, <2>1 DEF CredentialInv, Requests
<1>13. ASSUME NEW a \in crowd \cap Admins PROVE a \in Enabled
  <2>1. a \in Users /\ a \in crowd /\ a # None
    BY <1>13, NamesDiffer
  <2>2. user[a] = Row(a, "admin", FALSE) /\ user[a] # None
    BY <1>1, <1>4, <1>13, <2>1, NamesDiffer
  <2> QED BY <2>1, <2>2 DEF Enabled, Exists, Row
<1>14. CASE crowd \cap Admins # {}
  <2>1. Enabled # {}
    BY <1>13, <1>14
  <2> QED BY <1>7, <1>9, <1>10, <1>11, <1>12, <2>1 DEF IndInv, TypeOK, EnabledAdmin, LedInv
<1>15. CASE crowd \subseteq Servers
  <2>1. \A u \in Users : ~Exists(u)
    BY <1>1, <1>15, NamesDiffer DEF Exists, Requests
  <2>2. \A p \in Requests \ Servers : pc[p] = "done"
    BY <1>1, <1>15
  <2> QED BY <1>7, <1>9, <1>10, <1>11, <1>12, <2>1, <2>2 DEF IndInv, TypeOK, EnabledAdmin, LedInv
<1> QED BY <1>14, <1>15, CrowdsLed

\* The invariant is inductive.
LEMMA NextInv ==
    ASSUME IndInv, [Next]_vars
    PROVE  IndInv'
<1>1. TypeOK'
  BY PlanStep, RowsStep DEF IndInv, TypeOK
<1>2. MutexInv' /\ ActorInv' /\ TargetInv' /\ ReviewInv'
  BY MutexStep, ActorStep, TargetStep, ReviewStep
<1>3. SessionInv' /\ CredentialInv'
  BY SessionStep, CredentialStep
<1>4. GenerationInv' /\ EvidenceInv' /\ ApprovalInv'
  BY GenerationInvStep, EvidenceStep, ApprovalStep
<1>5. EnabledAdmin' /\ LedInv'
  BY AdminStep, LedStep DEF KeepsAdmin
<1> QED BY <1>1, <1>2, <1>3, <1>4, <1>5 DEF IndInv

\* In every reachable state: requests know what their stage needs, one account transaction
\* is under way, what it has found still holds, generations order logins and reviews.
THEOREM AccountsInvariant == Spec => []IndInv
<1>1. Init => IndInv
  BY InitInv
<1>2. IndInv /\ [Next]_vars => IndInv'
  BY NextInv
<1> QED BY <1>1, <1>2, PTL DEF Spec

\* Every variable has its type.
THEOREM AccountsTyped == Spec => []TypeOK
<1>1. IndInv => TypeOK
  BY DEF IndInv
<1> QED BY <1>1, AccountsInvariant, PTL

\* However many administrators disable, demote and delete each other at once, an enabled
\* one remains.
THEOREM AdminRemains == Spec => []EnabledAdmin
<1>1. IndInv => EnabledAdmin
  BY DEF IndInv
<1> QED BY <1>1, AccountsInvariant, PTL

\* Nobody's mutation or review is committed after he has lost his session or his role.
THEOREM MutationsAuthorized == Spec => AuthorizedMutation
<1>1. IndInv /\ [Next]_vars =>
        [\A p \in Mutations \cup Reviews :
           pc[p] = "commit" /\ rows' # rows /\ pc'[p] = "done" => ActorStill(p)]_vars
  BY DEF IndInv, ActorInv, InTransaction, Transactions
<1> QED BY <1>1, AccountsInvariant, PTL DEF Spec, AuthorizedMutation

\* A change of one's own password loses to a reset that comes between its check and its
\* commit.
THEOREM ResetsStand == Spec => ResetStands
<1>1. ASSUME IndInv, [Next]_vars, NEW u \in Users, NEW c \in Changes, password'[u] = c, password[u] # c
      PROVE  password[u] = plan[c].old
  <2>1. c # None /\ c \notin Mutations \cup Servers
    BY NamesDiffer DEF Requests
  <2>2. PasswordStep(u)
    BY <1>1, PasswordSteps
  <2>3. pc[c] = "replace" /\ plan[c].user = u
    BY <1>1, <2>1, <2>2 DEF PasswordStep
  <2> QED BY <1>1, <2>3 DEF IndInv, CredentialInv
<1>2. IndInv /\ [Next]_vars =>
        [\A u \in Users, c \in Changes : password'[u] = c /\ password[u] # c => password[u] = plan[c].old]_vars
  BY <1>1
<1> QED BY <1>2, AccountsInvariant, PTL DEF Spec, ResetStands

\* What becomes of the account a subject is bound to.
LEMMA OwnerStep ==
    ASSUME IndInv, [Next]_vars, NEW x \in Subjects, owner'[x] # owner[x], Exists(owner'[x])
    PROVE  \E t \in Attempts : LinkApproved(t) /\ plan[t].subject = x /\ owner'[x] = link[x].user
<1>1. TypeOK /\ RowsTyped
  BY DEF IndInv, TypeOK
<1>2. owner' # owner /\ owner'[x] # None
  BY DEF Exists
<1>3. ASSUME NEW m \in Mutations, Mutating(m) PROVE FALSE
  <2>1. CASE Commit(m)
    <3>1. CommitEffect(m)
      BY <1>1, <2>1, CommitEffects DEF IndInv, TargetInv, Commit, Finish, Goto
    <3> QED BY <1>2, <3>1 DEF CommitEffect
  <2> QED BY <1>2, <1>3, <2>1 DEF Mutating, Authenticate, LockActor, LockTarget, RefuseMutation, BreakDeadlock, rows
<1>4. ASSUME NEW c \in Changes PROVE ~Changing(c)
  BY <1>2 DEF Changing, ReadCredential, ClaimCredential, ReplacePassword, rows
<1>5. ASSUME NEW i \in SignIns PROVE ~SigningIn(i)
  BY <1>2 DEF SigningIn, VerifyPassword, CheckEnabled, rows
<1>6. ASSUME NEW t \in Attempts, NEW u \in Users, Provision(t, u) PROVE FALSE
  <2>1. owner' = [owner EXCEPT ![plan[t].subject] = u] /\ user[u] = None
    BY <1>6 DEF Provision
  <2>2. owner'[x] = u
    BY <1>1, <2>1 DEF RowsTyped
  <2> QED BY <2>1, <2>2 DEF Exists
<1>7. ASSUME NEW t \in Attempts, LoggingIn(t) PROVE LinkApproved(t)
  BY <1>2, <1>6, <1>7
     DEF LoggingIn, StartLegacySso, CompleteLegacySso, SignInOwner, Invalidate, StayPending, Deny, FindTaken,
         RequestLink, OfferSwitch, ClaimSession, GiveUp, ConsumeSwitch, rows
<1>8. ASSUME NEW t \in Attempts, LinkApproved(t) PROVE plan[t].subject = x /\ owner'[x] = link[x].user
  <2> DEFINE y == plan[t].subject
  <2>1. y \in Subjects /\ owner' = [owner EXCEPT ![y] = link[y].user]
    BY <1>1, <1>8, LinkApprovedEffects
  <2>2. plan[t].subject = y
    OBVIOUS
  <2> HIDE DEF y
  <2> QED BY <1>1, <2>1, <2>2 DEF RowsTyped
<1>9. ASSUME NEW v \in Reviews PROVE ~Reviewing(v)
  BY <1>2 DEF Reviewing, ListRequests, LockActor, LockReview, RefuseReview, CommitReview, rows
<1>10. ASSUME NEW b \in Servers PROVE ~Starting(b)
  BY <1>2 DEF Starting, LookForAdmin, Bootstrap, rows
<1>11. ASSUME NEW p, CreateSession(p) \/ SignOut(p) PROVE FALSE
  BY <1>2, <1>11 DEF CreateSession, SignOut
<1>12. ~UNCHANGED vars
  BY <1>2 DEF vars, rows
<1> QED BY <1>3, <1>4, <1>5, <1>7, <1>8, <1>9, <1>10, <1>11, <1>12 DEF Next

\* A subject is bound to an account that was there only as an administrator approved it,
\* and by a login begun after the approval.
THEOREM LinksApproved == Spec => LinkedAsApproved
<1>1. ASSUME IndInv, [Next]_vars, NEW x \in Subjects, approval'[x] # approval[x], approval'[x].since = {}
      PROVE  link[x].email = approval'[x].email /\ link[x].user = approval'[x].user
  <2>1. PICK v \in Reviews :
          /\ CommitReview(v) /\ plan[v].decision = "approved" /\ plan[v].subject = x
          /\ approval'[x] = [email |-> plan[v].email, user |-> plan[v].target, since |-> {}]
    BY <1>1, ApprovalChanges
  <2>2. pc[v] = "commit" /\ MayReview(v)
    BY <1>1, <2>1 DEF CommitReview, Finish, Goto, IndInv, ReviewInv
  <2> QED BY <1>1, <2>1, <2>2 DEF MayReview, SameRequest, IndInv, EvidenceInv, Listed
<1>2. ASSUME IndInv, [Next]_vars, NEW x \in Subjects, owner'[x] # owner[x], Exists(owner'[x])
      PROVE  /\ approval[x] # None /\ approval[x].user = owner'[x] /\ Holds(owner'[x], approval[x].email)
             /\ \E t \in approval[x].since : pc[t] # "linked" /\ pc'[t] = "linked"
  <2>1. PICK t \in Attempts : LinkApproved(t) /\ plan[t].subject = x /\ owner'[x] = link[x].user
    BY <1>2, OwnerStep
  <2>2. /\ Resolving(t) /\ ~Fenced(t) /\ ~Changed(t) /\ Request(t) = link[x]
        /\ link[x] # None /\ link[x].status = "approved"
    BY <2>1 DEF LinkApproved, Open, Request
  <2>3. /\ link[x].generation # 0
        /\ approval[x] # None /\ approval[x].email = link[x].email /\ approval[x].user = link[x].user
        /\ Started(t) /\ plan[t].generation > link[x].generation => t \in approval[x].since
    BY <1>2, <2>2 DEF IndInv, ApprovalInv
  <2>4. link[x].email = plan[t].email /\ Holds(link[x].user, plan[t].email)
    BY <2>2 DEF Changed
  <2>5. Started(t) /\ pc[t] # "linked"
    BY <2>2 DEF Resolving, Started
  <2>6. plan[t].generation > link[x].generation
    <3>1. plan[t].generation \in Nat /\ link[x].generation \in Nat
      BY <1>2, <2>2, <2>5 DEF IndInv, TypeOK, RowsTyped, PlansTyped, Planned, Started, Resolving,
                              StartPlans, LoginPlans, Links
    <3> QED BY <2>2, <2>3, <3>1 DEF Fenced
  <2>7. pc'[t] = "linked"
    BY <1>2, <2>1 DEF LinkApproved, Linked, IndInv, TypeOK, PlansTyped, Requests
  <2> QED BY <2>1, <2>3, <2>4, <2>5, <2>6, <2>7
<1>3. IndInv /\ [Next]_vars =>
        [\A x \in Subjects : LET u == owner'[x] IN
           /\ approval'[x] # approval[x] /\ approval'[x].since = {} =>
                link[x].email = approval'[x].email /\ link[x].user = approval'[x].user
           /\ u # owner[x] /\ Exists(u) =>
                /\ approval[x] # None /\ approval[x].user = u /\ Holds(u, approval[x].email)
                /\ \E t \in approval[x].since : pc[t] # "linked" /\ pc'[t] = "linked"]_vars
  BY <1>1, <1>2
<1> QED BY <1>3, AccountsInvariant, PTL DEF Spec, LinkedAsApproved
===============================================================================
