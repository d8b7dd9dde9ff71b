------------------------------- MODULE Accounts -------------------------------
(***************************************************************************)
(* Accounts: what administrators do to them, how people sign in and change *)
(* their passwords, and how an identity of the legacy provider is bound to *)
(* an account.                                                             *)
(*                                                                         *)
(* Administrators' mutations, reviews of legacy links and the resolution   *)
(* of a legacy identity take one lock for the whole database first; signing*)
(* in, signing out and changing a password do not, so they meet the others *)
(* at row locks: FOR UPDATE on a user row holds up a session that is being *)
(* inserted for that user.  Locks are not stored: who holds one follows    *)
(* from where the requests stand.                                          *)
(***************************************************************************)
EXTENDS Naturals

CONSTANTS Users,      \* ids of accounts, existing or not
          Emails,     \* the first address of an account carries its name
          Subjects,   \* people the legacy provider knows
          Admins,     \* enabled administrators at the start,
          Members,    \* and ordinary users, each with a password and signed in
          Mutations,  \* requests of administrators
          Reviews,    \* of a legacy link, from listing it to the decision
          SignIns,    \* with email and password
          Changes,    \* of one's own password
          Attempts,   \* to sign in through the legacy provider
          Servers,    \* processes starting on a database without users
          Crowds,     \* per initial state, the accounts there are and the requests made
          None

Requests == Mutations \cup Reviews \cup SignIns \cup Changes \cup Attempts \cup Servers
Sessions == Admins \cup Members \cup SignIns \cup Attempts

\* A new password carries the name of the request that set it: a password set
\* by an administrator is a temporary one.
Passwords == Admins \cup Members \cup Mutations \cup Changes \cup Servers

Kinds == {"create", "enable", "disable", "promote", "demote", "email", "reset", "delete"}

\* Rows of the tables.
Row(email, role, must) == [email |-> email, role |-> role, enabled |-> TRUE, must |-> must]
Rows  == [email : Emails, role : {"admin", "user"}, enabled : BOOLEAN, must : BOOLEAN]
Links == [id : Attempts, email : Emails, status : {"pending", "approved", "rejected", "linked"},
          generation : Nat, user : Users]
Approvals == [email : Emails, user : Users, since : SUBSET Attempts]

ASSUME NamesDiffer ==
  /\ None \notin Users \cup Emails \cup Subjects \cup Requests \cup Passwords \cup Sessions
  /\ None \notin Rows \cup Links \cup Approvals
  /\ Admins \cup Members = Users \cap Emails /\ Admins \cap Members = {}
  /\ Users \cap Requests = {}
  /\ Mutations \cap (Reviews \cup SignIns \cup Changes \cup Attempts \cup Servers) = {}
  /\ Reviews \cap (SignIns \cup Changes \cup Attempts \cup Servers) = {}
  /\ SignIns \cap (Changes \cup Attempts \cup Servers) = {}
  /\ Changes \cap (Attempts \cup Servers) = {} /\ Attempts \cap Servers = {}

\* There is an administrator, or nobody yet: then only servers start, which make one
\* before they listen.
ASSUME CrowdsLed ==
  \A crowd \in Crowds : /\ crowd \cap Users \subseteq Admins \cup Members
                        /\ (crowd \cap Admins # {}) \/ (crowd \subseteq Servers)

VARIABLES user,        \* rows of users
          password,    \* of the local credential
          session,     \* whose session it is
          owner,       \* the account a subject is bound to
          link,        \* requests to bind a subject to an account that exists
          generation,  \* the sequence legacy transactions and reviews draw from
          approval,    \* of the last approval: what was seen, who started since
          pc, plan     \* where a request stands and what it knows

rows == <<user, password, session, owner, link, generation, approval>>
vars == <<rows, pc, plan>>

Init ==
  /\ \E crowd \in Crowds :
       /\ user = [u \in Users |->
                    IF u \in crowd
                    THEN Row(u, IF u \in Admins THEN "admin" ELSE "user", FALSE) ELSE None]
       /\ password = [u \in Users |-> IF u \in crowd THEN u ELSE None]
       /\ session = [s \in Sessions |-> IF s \in crowd \cap Users THEN s ELSE None]
       /\ pc = [p \in Requests |-> IF p \in crowd THEN "idle" ELSE "done"]
  /\ owner = [s \in Subjects |-> None]
  /\ link = [s \in Subjects |-> None]
  /\ generation = 0
  /\ approval = [s \in Subjects |-> None]
  /\ plan = [p \in Requests |-> None]

Goto(p, from, to) == pc[p] = from /\ pc' = [pc EXCEPT ![p] = to]
Know(p, what)     == plan' = [plan EXCEPT ![p] = what]
Finish(p, from)   == Goto(p, from, "done") /\ Know(p, None)

Exists(u)   == u # None /\ user[u] # None
Ordinary(u) == Exists(u) /\ user[u].enabled /\ user[u].role = "user"
Enabled     == {u \in Users : Exists(u) /\ user[u].enabled /\ user[u].role = "admin"}
Holds(u, e) == Exists(u) /\ user[u].email = e
Taken(e)    == \E u \in Users : Holds(u, e)

\* identityFor: a session speaks for an enabled user, one of the legacy
\* provider's for an ordinary one only.
Identity(s) == /\ session[s] # None /\ Exists(session[s]) /\ user[session[s]].enabled
               /\ s \in Attempts => user[session[s]].role = "user"

\* What withAdminMutation and, under lock, lockAccountMutationActor ask for.
Authorized(s) == Identity(s) /\ user[session[s]].role = "admin" /\ ~user[session[s]].must

-----------------------------------------------------------------------------
(* Locks                                                                   *)

\* In an account transaction, past the lock for the whole database.
InTransaction(p) == pc[p] \in {"target", "commit"}
MutexFree == \A p \in Mutations \cup Reviews : ~InTransaction(p)

\* The actor's rows are locked first, the account aimed at is locked next.
RowFree(u) == \A p \in Mutations \cup Reviews :
                /\ InTransaction(p) => plan[p].actor # u
                /\ pc[p] = "commit" => plan[p].target # u
SessionFree(s) == \A p \in Mutations \cup Reviews : InTransaction(p) => plan[p].session # s

\* A password change has updated the credential and not committed.
CredentialFree(u) == \A c \in Changes : pc[c] = "replace" => plan[c].user # u

\* An approval has drawn its generation and not committed.
FenceFree == \A v \in Reviews : pc[v] = "commit" => plan[v].decision # "approved"

-----------------------------------------------------------------------------
(* Mutations by administrators                                             *)

\* The request is read before the transaction, under the identity of its session.
Authenticate(m, s, kind, target, email) ==
  /\ Goto(m, "idle", "lock")
  /\ Authorized(s)
  /\ kind = "create" => user[target] = None
  /\ email # None <=> kind \in {"create", "email"}
  /\ Know(m, [session |-> s, actor |-> session[s], kind |-> kind, target |-> target,
              email |-> email])
  /\ UNCHANGED rows

\* The actor's user and session rows, FOR UPDATE.
ActorStill(p) == /\ session[plan[p].session] = plan[p].actor
                 /\ Authorized(plan[p].session)

\* accountTransaction: nobody else's mutation is under way, and the actor may
\* still do this.
LockActor(p) ==
  /\ pc[p] = "lock" /\ MutexFree
  /\ Goto(p, "lock", IF ActorStill(p) THEN "target" ELSE "done")
  /\ UNCHANGED <<rows, plan>>

RemovesAdmin(m) == plan[m].kind \in {"disable", "demote", "delete"}

\* Mutant of MayApply: another administrator, enabled or not.
MayApplyCounting(m) ==
  LET t == plan[m].target IN
  /\ (plan[m].kind = "create") <=> (user[t] = None)
  /\ RemovesAdmin(m) /\ t \in Enabled => \E a \in Users \ {t} : Exists(a) /\ user[a].role = "admin"
  /\ plan[m].kind = "create" => ~Taken(plan[m].email)
  /\ plan[m].kind = "email" => \A u \in Users : Holds(u, plan[m].email) => u = t
  /\ plan[m].kind = "reset" => password[t] # None

\* The account is there, another enabled administrator remains, the new address
\* is free.
MayApply(m) ==
  LET t == plan[m].target IN
  /\ (plan[m].kind = "create") <=> (user[t] = None)
  /\ RemovesAdmin(m) /\ t \in Enabled => \E a \in Enabled : a # t
  /\ plan[m].kind = "create" => ~Taken(plan[m].email)
  /\ plan[m].kind = "email" => \A u \in Users : Holds(u, plan[m].email) => u = t
  /\ plan[m].kind = "reset" => password[t] # None

LockTarget(m) ==
  /\ Goto(m, "target", "commit")
  /\ MayApply(m)
  /\ UNCHANGED <<rows, plan>>

\* Refused, or responses and cleanup intents of the person remain.
RefuseMutation(m) ==
  /\ Finish(m, "target")
  /\ ~MayApply(m) \/ plan[m].kind = "delete"
  /\ UNCHANGED rows

Revoked(u) == [s \in Sessions |-> IF session[s] = u THEN None ELSE session[s]]

CreateUser(m) ==
  /\ plan[m].kind = "create"
  /\ \E role \in {"admin", "user"} :
       user' = [user EXCEPT ![plan[m].target] = Row(plan[m].email, role, TRUE)]
  /\ password' = [password EXCEPT ![plan[m].target] = m]
  /\ UNCHANGED <<session, owner, link, generation>>

\* Everything but enabling an account revokes its sessions.
SetEnabled(m) ==
  /\ plan[m].kind \in {"enable", "disable"}
  /\ user' = [user EXCEPT ![plan[m].target].enabled = plan[m].kind = "enable"]
  /\ session' = IF plan[m].kind = "enable" THEN session ELSE Revoked(plan[m].target)
  /\ UNCHANGED <<password, owner, link, generation>>

SetRole(m) ==
  /\ plan[m].kind \in {"promote", "demote"}
  /\ user' = [user EXCEPT ![plan[m].target].role =
                IF plan[m].kind = "promote" THEN "admin" ELSE "user"]
  /\ session' = Revoked(plan[m].target)
  /\ UNCHANGED <<password, owner, link, generation>>

\* Reviews of links to the account lose their evidence: they are pending again,
\* under a new generation.
Undecided(u) == {s \in Subjects : /\ link[s] # None /\ link[s].user = u
                                  /\ link[s].status \in {"pending", "approved"}}

SetEmail(m) ==
  LET t == plan[m].target
      stale == IF Holds(t, plan[m].email) THEN {} ELSE Undecided(t)
  IN  /\ plan[m].kind = "email"
      /\ user' = [user EXCEPT ![t].email = plan[m].email]
      /\ session' = Revoked(t)
      /\ generation' = IF stale = {} THEN generation ELSE generation + 1
      /\ link' = [s \in Subjects |->
                    IF s \in stale
                    THEN [link[s] EXCEPT !.status = "pending", !.generation = generation + 1]
                    ELSE link[s]]
      /\ UNCHANGED <<password, owner>>

\* Waits for a password change that has updated the credential.
ResetPassword(m) ==
  /\ plan[m].kind = "reset" /\ CredentialFree(plan[m].target)
  /\ password' = [password EXCEPT ![plan[m].target] = m]
  /\ user' = [user EXCEPT ![plan[m].target].must = TRUE]
  /\ session' = Revoked(plan[m].target)
  /\ UNCHANGED <<owner, link, generation>>

\* Credentials, sessions and link requests go with the row.
DeleteUser(m) ==
  LET t == plan[m].target IN
  /\ plan[m].kind = "delete" /\ CredentialFree(t)
  /\ user' = [user EXCEPT ![t] = None]
  /\ password' = [password EXCEPT ![t] = None]
  /\ session' = Revoked(t)
  /\ owner' = [s \in Subjects |-> IF owner[s] = t THEN None ELSE owner[s]]
  /\ link' = [s \in Subjects |->
                IF link[s] # None /\ link[s].user = t THEN None ELSE link[s]]
  /\ UNCHANGED generation

Commit(m) ==
  /\ Finish(m, "commit")
  /\ \/ CreateUser(m) \/ SetEnabled(m) \/ SetRole(m)
     \/ SetEmail(m) \/ ResetPassword(m) \/ DeleteUser(m)
  /\ UNCHANGED approval

-----------------------------------------------------------------------------
(* Passwords and sessions                                                  *)

\* The person knows the password of the moment; the route verifies it against
\* the hash it read and hashes the new one.
ReadCredential(c, s) ==
  /\ Goto(c, "idle", "claim")
  /\ Identity(s) /\ password[session[s]] # None
  /\ Know(c, [user |-> session[s], old |-> password[session[s]]])
  /\ UNCHANGED rows

\* Mutant of ClaimCredential: WHERE names the account only.
ClaimAnyCredential(c) ==
  /\ pc[c] = "claim" /\ CredentialFree(plan[c].user)
  /\ Goto(c, "claim", IF password[plan[c].user] # None THEN "replace" ELSE "done")
  /\ UNCHANGED <<rows, plan>>

\* The transaction updates the row if it still holds the hash that was read.
ClaimCredential(c) ==
  /\ pc[c] = "claim" /\ CredentialFree(plan[c].user)
  /\ Goto(c, "claim", IF password[plan[c].user] = plan[c].old THEN "replace" ELSE "done")
  /\ UNCHANGED <<rows, plan>>

\* It goes on with the user row and the sessions, and commits.
ReplacePassword(c) ==
  /\ pc[c] = "replace" /\ RowFree(plan[c].user)
  /\ Finish(c, "replace")
  /\ password' = [password EXCEPT ![plan[c].user] = c]
  /\ user' = [user EXCEPT ![plan[c].user].must = FALSE]
  /\ session' = Revoked(plan[c].user)
  /\ UNCHANGED <<owner, link, generation, approval>>

\* A change that holds the credential and a mutation that holds the user row
\* wait for each other: the database ends one of them.
BreakDeadlock(c, m) ==
  /\ pc[c] = "replace" /\ pc[m] = "commit" /\ plan[m].target = plan[c].user
  /\ plan[m].kind \in {"reset", "delete"}
  /\ \E victim \in {c, m} : Finish(victim, pc[victim])
  /\ UNCHANGED rows

\* The password is right; whether the account is enabled is asked later.
VerifyPassword(i, u) ==
  /\ Goto(i, "idle", "create")
  /\ Exists(u) /\ password[u] # None
  /\ Know(i, [user |-> u, email |-> user[u].email])
  /\ UNCHANGED rows

\* The insert waits for whoever has the user row FOR UPDATE, and fails without it.
CreateSession(p) ==
  /\ pc[p] = "create" /\ RowFree(plan[p].user)
  /\ Goto(p, "create", IF Exists(plan[p].user) THEN "check" ELSE "done")
  /\ session' = IF Exists(plan[p].user) THEN [session EXCEPT ![p] = plan[p].user] ELSE session
  /\ UNCHANGED <<user, password, owner, link, generation, approval, plan>>

\* The account is looked up again by the address: if it is disabled, all its
\* sessions go; if nobody has the address, the session is not handed out.
CheckEnabled(i) ==
  /\ i \in SignIns /\ Finish(i, "check")
  /\ session' = [s \in Sessions |->
                   IF /\ session[s] # None /\ Holds(session[s], plan[i].email)
                      /\ ~user[session[s]].enabled
                   THEN None ELSE session[s]]
  /\ UNCHANGED <<user, password, owner, link, generation, approval>>

\* Mutant of SignOut: the session row is not locked by whoever acts under it.
SignOutAnyway(s) ==
  /\ session[s] # None
  /\ session' = [session EXCEPT ![s] = None]
  /\ UNCHANGED <<user, password, owner, link, generation, approval, pc, plan>>

SignOut(s) ==
  /\ session[s] # None /\ SessionFree(s)
  /\ session' = [session EXCEPT ![s] = None]
  /\ UNCHANGED <<user, password, owner, link, generation, approval, pc, plan>>

HasAdmin == \E u \in Users : Exists(u) /\ user[u].role = "admin"

\* A server looks for an administrator before it hashes the configured password.
LookForAdmin(b) ==
  /\ Goto(b, "idle", IF HasAdmin THEN "done" ELSE "bootstrap")
  /\ UNCHANGED <<rows, plan>>

\* It looks again under the lock all account transactions take.
Bootstrap(b, u, e) ==
  /\ Goto(b, "bootstrap", "done")
  /\ MutexFree /\ user[u] = None
  /\ IF HasAdmin
     THEN UNCHANGED <<user, password>>
     ELSE /\ user' = [user EXCEPT ![u] = Row(e, "admin", TRUE)]
          /\ password' = [password EXCEPT ![u] = b]
  /\ UNCHANGED <<session, owner, link, generation, approval, plan>>

-----------------------------------------------------------------------------
(* Signing in through the legacy provider                                  *)

\* The transaction draws its generation under the lock of the sequence; a
\* signed-in person who starts it is remembered.
StartLegacySso(t, s) ==
  /\ Goto(t, "idle", "away")
  /\ s # None => Identity(s) /\ user[session[s]].role = "user"
  /\ FenceFree
  /\ generation' = generation + 1
  /\ plan' = [plan EXCEPT ![t] = [generation |-> generation + 1, initiating |-> s,
                                  initiator |-> IF s = None THEN None ELSE session[s]]]
  /\ approval' = [x \in Subjects |->
                    IF approval[x] = None THEN None
                    ELSE [approval[x] EXCEPT !.since = @ \cup {t}]]
  /\ UNCHANGED <<user, password, session, owner, link>>

\* The callback consumes the transaction and exchanges the code for an identity:
\* whoever signed in over there, with the address he has there.
CompleteLegacySso(t, x, e) ==
  /\ Goto(t, "away", "resolve")
  /\ plan' = [plan EXCEPT ![t] = [generation |-> @.generation, initiating |-> @.initiating,
                                  initiator |-> @.initiator, subject |-> x, email |-> e,
                                  user |-> None]]
  /\ UNCHANGED rows

\* Resolving is one transaction under the lock for the whole database; one that
\* meets a taken address is rolled back and another one reconciles.
Resolving(t) == pc[t] \in {"resolve", "reconcile"} /\ MutexFree

Owner(t)   == owner[plan[t].subject]
Request(t) == link[plan[t].subject]

\* The transaction is not younger than the last review.
Fenced(t) == Request(t) # None /\ Request(t).generation # 0
             /\ plan[t].generation <= Request(t).generation

Linked(t, u) ==
  /\ pc' = [pc EXCEPT ![t] = "linked"]
  /\ plan' = [plan EXCEPT ![t].user = u]

Ends(t) == Finish(t, pc[t])

\* A binding that exists is not questioned.
SignInOwner(t) ==
  /\ Resolving(t) /\ ~Fenced(t) /\ Owner(t) # None
  /\ IF Ordinary(Owner(t)) THEN Linked(t, Owner(t)) ELSE Ends(t)
  /\ UNCHANGED rows

\* An account may be bound by a request that is not decided against.
Open(t) == /\ Resolving(t) /\ ~Fenced(t) /\ Owner(t) = None
           /\ Request(t) # None /\ Request(t).status \in {"pending", "approved"}

Matching(e) == {u \in Users : Holds(u, e)}

\* An ordinary account that has the address now, else the one of the request.
Selected(t) ==
  IF \E u \in Matching(plan[t].email) : Ordinary(u)
  THEN CHOOSE u \in Matching(plan[t].email) : Ordinary(u)
  ELSE Request(t).user

\* The address or the account is not the one that was or will be reviewed.
Changed(t) ==
  LET r == Request(t) IN
  \/ r.email # plan[t].email
  \/ Selected(t) # r.user
  \/ ~Holds(r.user, r.email) /\ r.generation = 0
  \/ r.status = "approved" /\ ~(Ordinary(r.user) /\ Holds(r.user, plan[t].email))

\* invalidateLegacyAccountLinkReview: the request is pending with new evidence.
Invalidate(t) ==
  /\ Open(t) /\ Changed(t)
  /\ generation' = generation + 1
  /\ link' = [link EXCEPT ![plan[t].subject] =
                [@ EXCEPT !.email = plan[t].email, !.user = Selected(t),
                          !.status = "pending", !.generation = generation + 1]]
  /\ Ends(t)
  /\ UNCHANGED <<user, password, session, owner, approval>>

StayPending(t) ==
  /\ Open(t) /\ ~Changed(t) /\ Request(t).status = "pending"
  /\ Ends(t)
  /\ UNCHANGED rows

LinkApproved(t) ==
  /\ Open(t) /\ ~Changed(t) /\ Request(t).status = "approved"
  /\ owner' = [owner EXCEPT ![plan[t].subject] = Request(t).user]
  /\ link' = [link EXCEPT ![plan[t].subject].status = "linked"]
  /\ Linked(t, Request(t).user)
  /\ UNCHANGED <<user, password, session, generation, approval>>

\* Not younger than the review, or decided: rejected, or linked once.
Deny(t) ==
  /\ Resolving(t)
  /\ Fenced(t) \/ (Owner(t) = None /\ Request(t) # None /\ Request(t).status \in {"rejected", "linked"})
  /\ Ends(t)
  /\ UNCHANGED rows

Unknown(t) == Resolving(t) /\ Owner(t) = None /\ Request(t) = None

\* A free address makes an account of its own; on a second try it no longer does.
Provision(t, u) ==
  /\ Unknown(t) /\ pc[t] = "resolve" /\ ~Taken(plan[t].email) /\ user[u] = None
  /\ user' = [user EXCEPT ![u] = Row(plan[t].email, "user", FALSE)]
  /\ owner' = [owner EXCEPT ![plan[t].subject] = u]
  /\ Linked(t, u)
  /\ UNCHANGED <<password, session, link, generation, approval>>

FindTaken(t) ==
  /\ Unknown(t) /\ Taken(plan[t].email)
  /\ Goto(t, "resolve", "reconcile")
  /\ UNCHANGED <<rows, plan>>

\* A taken one makes a request to be reviewed, or nothing if it is free by now.
RequestLink(t) ==
  /\ Unknown(t) /\ pc[t] = "reconcile"
  /\ link' = [link EXCEPT ![plan[t].subject] =
                IF Taken(plan[t].email)
                THEN [id |-> t, email |-> plan[t].email, status |-> "pending", generation |-> 0,
                      user |-> CHOOSE u \in Users : Holds(u, plan[t].email)]
                ELSE None]
  /\ Ends(t)
  /\ UNCHANGED <<user, password, session, owner, generation, approval>>

\* Without an initiating session a new one is made; with one, the person is asked
\* whether to switch, if the session is still there.
OfferSwitch(t) ==
  /\ pc[t] = "linked"
  /\ LET s == plan[t].initiating IN
     pc' = [pc EXCEPT ![t] = IF s = None THEN "create"
                             ELSE IF session[s] = plan[t].initiator THEN "asked" ELSE "done"]
  /\ UNCHANGED <<rows, plan>>

\* The person who started it, still signed in, confirms an account as it was
\* shown to him; the challenge can be used once.
ConsumeSwitch(t, confirm) ==
  /\ pc[t] = "asked"
  /\ Identity(plan[t].initiating) /\ session[plan[t].initiating] = plan[t].initiator
  /\ Ordinary(plan[t].initiator) /\ Ordinary(plan[t].user)
  /\ Goto(t, "asked", IF confirm THEN "create" ELSE "done")
  /\ UNCHANGED <<rows, plan>>

\* The transfer is consumed, whether or not the session still speaks for an
\* ordinary user and its token is given out.
ClaimSession(t) ==
  /\ t \in Attempts
  /\ Finish(t, "check")
  /\ UNCHANGED rows

\* Transactions, challenges and transfers expire, requests fail.
GiveUp(t) ==
  /\ pc[t] \in {"away", "asked", "check"} /\ t \in Attempts
  /\ Ends(t)
  /\ UNCHANGED rows

-----------------------------------------------------------------------------
(* Reviews of legacy links                                                 *)

\* The administrator has the list in front of him and decides on what it shows.
ListRequests(v, s, x, decision) ==
  /\ Goto(v, "idle", "lock")
  /\ Authorized(s) /\ link[x] # None /\ link[x].status = "pending"
  /\ Know(v, [session |-> s, actor |-> session[s], subject |-> x, id |-> link[x].id,
              generation |-> link[x].generation, email |-> link[x].email,
              target |-> link[x].user, decision |-> decision, drawn |-> 0])
  /\ UNCHANGED rows

SameRequest(v) == /\ link[plan[v].subject] # None
                  /\ link[plan[v].subject].id = plan[v].id

\* Mutant of MayReview: whatever it says now.
MayReviewAny(v) ==
  LET r == link[plan[v].subject] IN
  /\ SameRequest(v) /\ r.status = "pending"
  /\ plan[v].decision = "approved" =>
       Ordinary(r.user) /\ Holds(r.user, r.email) /\ owner[plan[v].subject] = None

\* The request is pending under the generation that was listed, and an approval
\* wants an ordinary account that has the address and a subject without one.
MayReview(v) ==
  LET r == link[plan[v].subject] IN
  /\ SameRequest(v) /\ r.status = "pending"
  /\ r.generation = plan[v].generation
  /\ plan[v].decision = "approved" =>
       Ordinary(r.user) /\ Holds(r.user, r.email) /\ owner[plan[v].subject] = None

\* An approval draws the generation it will store.
LockReview(v) ==
  /\ Goto(v, "target", "commit")
  /\ MayReview(v)
  /\ IF plan[v].decision = "approved"
     THEN /\ generation' = generation + 1
          /\ plan' = [plan EXCEPT ![v].drawn = generation + 1]
     ELSE UNCHANGED <<generation, plan>>
  /\ UNCHANGED <<user, password, session, owner, link, approval>>

RefuseReview(v) ==
  /\ Finish(v, "target")
  /\ ~MayReview(v)
  /\ UNCHANGED rows

CommitReview(v) ==
  LET x == plan[v].subject IN
  /\ Finish(v, "commit")
  /\ link' = [link EXCEPT ![x].status = plan[v].decision,
                          ![x].generation = IF plan[v].decision = "approved"
                                            THEN plan[v].drawn ELSE @]
  /\ approval' = IF plan[v].decision = "approved"
                 THEN [approval EXCEPT ![x] = [email |-> plan[v].email, user |-> plan[v].target,
                                               since |-> {}]]
                 ELSE approval
  /\ UNCHANGED <<user, password, session, owner, generation>>

-----------------------------------------------------------------------------
Mutating(m) ==
  \/ \E s \in Sessions, k \in Kinds, u \in Users, e \in Emails \cup {None} : Authenticate(m, s, k, u, e)
  \/ LockActor(m) \/ LockTarget(m) \/ RefuseMutation(m) \/ Commit(m)
  \/ \E c \in Changes : BreakDeadlock(c, m)

Changing(c) == (\E s \in Sessions : ReadCredential(c, s)) \/ ClaimCredential(c) \/ ReplacePassword(c)

SigningIn(i) == (\E u \in Users : VerifyPassword(i, u)) \/ CheckEnabled(i)

Starting(b) == LookForAdmin(b) \/ \E u \in Users, e \in Emails : Bootstrap(b, u, e)

LoggingIn(t) ==
  \/ \E s \in Sessions \cup {None} : StartLegacySso(t, s)
  \/ \E x \in Subjects, e \in Emails : CompleteLegacySso(t, x, e)
  \/ SignInOwner(t) \/ Invalidate(t) \/ StayPending(t) \/ LinkApproved(t) \/ Deny(t)
  \/ FindTaken(t) \/ RequestLink(t) \/ \E u \in Users : Provision(t, u)
  \/ OfferSwitch(t) \/ ClaimSession(t) \/ GiveUp(t)
  \/ \E confirm \in BOOLEAN : ConsumeSwitch(t, confirm)

Reviewing(v) ==
  \/ \E s \in Sessions, x \in Subjects, d \in {"approved", "rejected"} : ListRequests(v, s, x, d)
  \/ LockActor(v) \/ LockReview(v) \/ RefuseReview(v) \/ CommitReview(v)

Next == \/ \E m \in Mutations : Mutating(m)
        \/ \E c \in Changes : Changing(c)
        \/ \E i \in SignIns : SigningIn(i)
        \/ \E p \in SignIns \cup Attempts : CreateSession(p)
        \/ \E s \in Sessions : SignOut(s)
        \/ \E b \in Servers : Starting(b)
        \/ \E t \in Attempts : LoggingIn(t)
        \/ \E v \in Reviews : Reviewing(v)

Spec == Init /\ [][Next]_vars

-----------------------------------------------------------------------------
(* Properties                                                              *)

Stages == {"idle", "lock", "target", "commit", "done", "claim", "replace", "create", "check",
           "bootstrap", "away", "resolve", "reconcile", "linked", "asked"}

\* What a request knows.
MutationPlans == {p \in [session : Sessions, actor : Users, kind : Kinds, target : Users,
                         email : Emails \cup {None}] :
                    p.kind \in {"create", "email"} => p.email # None}
ReviewPlans == [session : Sessions, actor : Users, subject : Subjects, id : Attempts,
                generation : Nat, email : Emails, target : Users,
                decision : {"approved", "rejected"}, drawn : Nat]
ChangePlans == [user : Users, old : Passwords]
SignInPlans == [user : Users, email : Emails]
StartPlans  == [generation : Nat, initiating : Sessions \cup {None}, initiator : Users \cup {None}]
LoginPlans  == [generation : Nat, initiating : Sessions \cup {None}, initiator : Users \cup {None},
                subject : Subjects, email : Emails, user : Users \cup {None}]

Plans == MutationPlans \cup ReviewPlans \cup ChangePlans \cup SignInPlans \cup StartPlans \cup LoginPlans

RowsTyped ==
  /\ user \in [Users -> Rows \cup {None}]
  /\ password \in [Users -> Passwords \cup {None}]
  /\ session \in [Sessions -> Users \cup {None}]
  /\ owner \in [Subjects -> Users \cup {None}]
  /\ link \in [Subjects -> Links \cup {None}]
  /\ approval \in [Subjects -> Approvals \cup {None}]
  /\ generation \in Nat

Planned(p, stages, plans) == pc[p] \in stages => plan[p] \in plans

PlansTyped ==
  /\ pc \in [Requests -> Stages]
  /\ plan \in [Requests -> Plans \cup {None}]
  /\ \A m \in Mutations : Planned(m, {"lock", "target", "commit"}, MutationPlans)
  /\ \A v \in Reviews   : Planned(v, {"lock", "target", "commit"}, ReviewPlans)
  /\ \A c \in Changes   : Planned(c, {"claim", "replace"}, ChangePlans)
  /\ \A i \in SignIns   : Planned(i, {"create", "check"}, SignInPlans)
  /\ \A t \in Attempts  : /\ Planned(t, {"away"}, StartPlans)
                          /\ Planned(t, {"resolve", "reconcile", "linked", "asked", "create"}, LoginPlans)
                          /\ pc[t] \in {"linked", "asked", "create"} => plan[t].user \in Users

\* Every variable has its type, and a request that has begun knows what it read.
TypeOK == RowsTyped /\ PlansTyped

\* Once a server has made one, there is an enabled administrator, whatever
\* administrators do to each other at once.
EnabledAdmin == (\E u \in Users : Exists(u)) => Enabled # {}

\* A mutation or a review is committed by somebody who is an enabled administrator
\* at that moment, with a password of his own and the session it came with.
AuthorizedMutation ==
  [][\A p \in Mutations \cup Reviews :
       pc[p] = "commit" /\ rows' # rows /\ pc'[p] = "done" => ActorStill(p)]_vars

\* A person's change replaces the password he proved to know, never one that an
\* administrator has set since.
ResetStands ==
  [][\A u \in Users, c \in Changes : password'[u] = c /\ password[u] # c => password[u] = plan[c].old]_vars

\* An administrator approves an account and an address as he saw them, and a
\* subject gets an account that existed before only if these are what was approved,
\* by a login begun after that.
LinkedAsApproved ==
  [][\A x \in Subjects : LET u == owner'[x] IN
       /\ approval'[x] # approval[x] /\ approval'[x].since = {} =>
            link[x].email = approval'[x].email /\ link[x].user = approval'[x].user
       /\ u # owner[x] /\ Exists(u) =>
            /\ approval[x] # None /\ approval[x].user = u /\ Holds(u, approval[x].email)
            /\ \E t \in approval[x].since : pc[t] # "linked" /\ pc'[t] = "linked"]_vars
===============================================================================
