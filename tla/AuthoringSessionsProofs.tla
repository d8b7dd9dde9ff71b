------------------------ MODULE AuthoringSessionsProofs ------------------------
(***************************************************************************)
(* Proofs about AuthoringSessions for any number of owners, requests and   *)
(* endings.                                                                *)
(***************************************************************************)
EXTENDS AuthoringSessions, FiniteSetTheorems, TLAPS

(***************************************************************************)
(* The inductive invariant.                                                *)
(***************************************************************************)

Steps == {"idle", "identified", "reserved", "clearing", "disposing", "looking", "authorizing",
          "authorized", "generating", "rechecking", "rechecked", "failing", "done"}
EndingSteps == {"idle", "called", "draining", "disposing", "revoking", "leaving", "done"}
Phases == {"absent", "open", "closing", "erasing", "gone"}

TypeOK ==
  /\ live \in [Owners -> BOOLEAN]
  /\ pc \in [Requests -> Steps]
  /\ by \in [Requests -> Owners \cup {None}]
  /\ target \in [Requests -> Creations \cup {None}]
  /\ authorized \in [Requests -> BOOLEAN]
  /\ cancelled \in [Requests -> BOOLEAN]
  /\ pending \in [Owners -> SUBSET Requests]
  /\ phase \in [Creations -> Phases]
  /\ tool \in [Creations -> Requests \cup {None}]
  /\ idle \in [Creations -> BOOLEAN]
  /\ files \in [Creations -> BOOLEAN]
  /\ ending \in [Owners -> Int]
  /\ epc \in [Endings -> EndingSteps]
  /\ eby \in [Endings -> Owners \cup {None}]
  /\ drains \in [Endings -> SUBSET Requests]
  /\ waits \in [Endings -> SUBSET Requests]
  /\ disposes \in [Endings -> Creations \cup {None}]

\* A request whose reservation was made and that is not answered yet.
Underway(r) == pc[r] \notin {"idle", "identified", "done"}

\* Requests and endings know their owner, and a workspace in the map was published by a
\* request that is answered.
OwnerInv ==
  /\ \A r \in Requests : pc[r] \notin {"idle", "done"} => by[r] \in Owners
  /\ \A e \in Endings : IF epc[e] = "idle" THEN eby[e] = None ELSE epc[e] # "done" => eby[e] \in Owners
  /\ \A c \in Creations : phase[c] # "absent" => pc[c] = "done" /\ by[c] \in Owners

\* One request of an owner is reserved at a time.  A request under way has lost its
\* reservation only if it is cancelled, which an ending that withdraws one has seen to.
ReservationInv ==
  /\ \A o \in Owners : \A r \in pending[o] :
       Underway(r) /\ by[r] = o /\ \A q \in pending[o] : q = r
  /\ \A r \in Requests : Underway(r) /\ ~cancelled[r] => r \in pending[by[r]]
  /\ \A e \in Endings : \A r \in drains[e] : cancelled[r]

\* No workspace is open beside a creation that may publish another one.
LoneInv ==
  /\ \A c, d \in Creations : phase[c] = "open" /\ phase[d] = "open" /\ by[c] = by[d] => c = d
  /\ \A c, d \in Creations :
       /\ pc[c] \in {"authorizing", "authorized", "generating"} /\ ~cancelled[c]
       /\ phase[d] = "open"
       => by[c] # by[d]

\* A revision that works on a workspace of its owner is reserved, and the tools of the
\* workspace are its own.
UseInv ==
  \A r \in Revisions :
    /\ pc[r] \in UsesWorkspace \cup {"looking"} =>
         target[r] \in Creations /\ phase[target[r]] # "absent" /\ by[target[r]] = by[r]
    /\ pc[r] \in UsesWorkspace =>
         /\ r \in pending[by[r]] /\ tool[target[r]] = r
         /\ phase[target[r]] \in {"open", "closing"}

\* A generation is reserved until it ends, so that an ending finds it.
GenerationInv == \A r \in Requests : pc[r] = "generating" => r \in pending[by[r]]

\* endingOwnerSessionCounts counts the endings that have closed the gate.
AtGate(o) == {e \in Endings : eby[e] = o /\ epc[e] \in {"draining", "disposing", "revoking", "leaving"}}
GateInv == \A o \in Owners : IsFiniteSet(AtGate(o)) /\ ending[o] = Cardinality(AtGate(o))

\* Behind a closed gate all requests under way are cancelled; then no generation is left,
\* and then no workspace.
DrainInv ==
  \A e \in Endings :
    /\ epc[e] \in {"draining", "disposing", "revoking", "leaving"} =>
         \A r \in Requests : by[r] = eby[e] /\ Underway(r) => cancelled[r]
    /\ epc[e] = "draining" =>
         \A r \in Requests : by[r] = eby[e] /\ pc[r] = "generating" => r \in waits[e]
    /\ epc[e] \in {"disposing", "revoking", "leaving"} =>
         \A r \in Requests : by[r] = eby[e] => pc[r] # "generating"
    /\ epc[e] \in {"revoking", "leaving"} =>
         \A c \in Creations : by[c] = eby[e] => phase[c] # "open"

\* The owner's session is revoked, and every ending of it has reached one of some steps.
Revoked(o, S) == /\ ~live[o]
                 /\ \E e \in Endings : eby[e] = o
                 /\ \A e \in Endings : eby[e] = o => epc[e] \in S

\* What stands of the work of a revoked owner when its endings are that far.  A request
\* reserved after they opened the gate again is refused by the session row.
RevokedInv ==
  \A o \in Owners :
    /\ Revoked(o, {"draining", "disposing", "revoking", "leaving", "done"}) =>
         \A r \in Requests : by[r] = o /\ ~cancelled[r] =>
           /\ pc[r] # "generating"
           /\ pc[r] \in {"authorized", "rechecked"} => ~authorized[r]
    /\ Revoked(o, {"disposing", "revoking", "leaving", "done"}) =>
         \A r \in Requests : by[r] = o => pc[r] # "generating"
    /\ Revoked(o, {"revoking", "leaving", "done"}) =>
         \A c \in Creations : by[c] = o => phase[c] # "open"

IndInv == /\ TypeOK /\ OwnerInv /\ ReservationInv /\ LoneInv /\ UseInv /\ GenerationInv
          /\ GateInv /\ DrainInv /\ RevokedInv /\ NoStrayFiles

(***************************************************************************)
(* What becomes of the state in a step                                     *)
(***************************************************************************)


\* The values of every variable have their types.
LEMMA TypeStep ==
    ASSUME TypeOK, OwnerInv, [Next]_vars
    PROVE  TypeOK'
<1> USE DEF TypeOK, Requests, Endings, Steps, EndingSteps, Phases, Goto, GotoEnding,
        FinishPending, Release, Move, Answer, MoveEnding, requestVars, workspaceVars, endingVars
<1>1. ASSUME NEW r \in Requests, NEW o \in Owners, Identify(r, o) PROVE TypeOK'
  BY <1>1 DEF Identify
<1>2. ASSUME NEW r \in Requests, Reserve(r) \/ RefuseReservation(r) \/ RefuseRequest(r) PROVE TypeOK'
  BY <1>2 DEF Reserve, RefuseReservation, RefuseRequest
<1>3. ASSUME NEW c \in Creations,
             \/ BeginCreate(c) \/ ClearedExpired(c) \/ RefuseSecond(c) \/ StartCreate(c) \/ FailCreate(c)
      PROVE  TypeOK'
  BY <1>3 DEF BeginCreate, ClearedExpired, RefuseSecond, StartCreate, FailCreate
<1>4. ASSUME NEW c \in Creations, ClearExpired(c) PROVE TypeOK'
  <2>1. PICK w \in OpenOf(by[c]) : Dispose(w) /\ target' = [target EXCEPT ![c] = w]
    BY <1>4 DEF ClearExpired
  <2>2. phase' \in [Creations -> Phases] /\ cancelled' \in [Requests -> BOOLEAN]
    BY <2>1 DEF Dispose, OpenOf
  <2>3. target' \in [Requests -> Creations \cup {None}]
    BY <2>1 DEF OpenOf
  <2> QED BY <1>4, <2>2, <2>3 DEF ClearExpired
<1>5. ASSUME NEW r \in Requests, QueryOwner(r) PROVE TypeOK'
  <2>1. by[r] \in Owners
    BY <1>5 DEF QueryOwner, OwnerInv
  <2> QED BY <1>5, <2>1 DEF QueryOwner
<1>6. ASSUME NEW c \in Creations, OpenWorkspace(c) PROVE TypeOK'
  BY <1>6 DEF OpenWorkspace
<1>19. ASSUME NEW c \in Creations, CleanUp(c) PROVE TypeOK'
  <2>1. files' \in [Creations -> BOOLEAN]
    BY <1>19 DEF CleanUp
  <2> QED BY <1>19, <2>1 DEF CleanUp
<1>7. ASSUME NEW c \in Creations, Publish(c) PROVE TypeOK'
  BY <1>7 DEF Publish
<1>8. ASSUME NEW r \in Revisions,
             \/ BeginRevise(r) \/ ReviseFoundNothing(r) \/ GenerateRevision(r) \/ RevisionGenerated(r)
             \/ FailRevise(r)
      PROVE  TypeOK'
  BY <1>8 DEF BeginRevise, ReviseFoundNothing, GenerateRevision, RevisionGenerated, FailRevise
<1>9. ASSUME NEW r \in Revisions, ReviseExpired(r) PROVE TypeOK'
  BY <1>9 DEF ReviseExpired, Dispose
<1>10. ASSUME NEW r \in Revisions, StartRevise(r) \/ CommitRevision(r) PROVE TypeOK'
  <2>1. CASE StartRevise(r)
    BY <2>1 DEF StartRevise
  <2>2. CASE CommitRevision(r)
    BY <2>2 DEF CommitRevision
  <2> QED BY <1>10, <2>1, <2>2
<1>11. ASSUME NEW c \in Creations, GrowIdle(c) \/ EraseDocument(c) \/ RemoveFiles(c) PROVE TypeOK'
  BY <1>11 DEF GrowIdle, EraseDocument, RemoveFiles
<1>12. ASSUME NEW c \in Creations, End(c) \/ Expire(c) PROVE TypeOK'
  BY <1>12 DEF End, Expire, Dispose
<1>13. ASSUME NEW e \in Endings, NEW o \in Owners, SignOut(e, o) \/ Revoke(e, o) PROVE TypeOK'
  <2>1. CASE SignOut(e, o)
    BY <2>1 DEF SignOut
  <2>2. CASE Revoke(e, o)
    BY <2>2 DEF Revoke
  <2> QED BY <1>13, <2>1, <2>2
<1>14. ASSUME NEW e \in Endings, BeginEnding(e) PROVE TypeOK'
  BY <1>14 DEF BeginEnding, OwnerInv
<1>15. ASSUME NEW e \in Endings, Drained(e) PROVE TypeOK'
  BY <1>15 DEF Drained, OwnerInv
<1>16. ASSUME NEW e \in Endings, DisposeOwned(e) PROVE TypeOK'
  <2>1. PICK c \in OpenOf(eby[e]) : Dispose(c) /\ disposes' = [disposes EXCEPT ![e] = c]
    BY <1>16 DEF DisposeOwned
  <2>2. phase' \in [Creations -> Phases] /\ cancelled' \in [Requests -> BOOLEAN]
    BY <2>1 DEF Dispose, OpenOf
  <2>3. disposes' \in [Endings -> Creations \cup {None}]
    BY <2>1 DEF OpenOf
  <2> QED BY <1>16, <2>2, <2>3 DEF DisposeOwned
<1>17. ASSUME NEW e \in Endings, DisposedOwned(e) \/ RevokeOwner(e) \/ LeaveEnding(e) PROVE TypeOK'
  <2>1. CASE DisposedOwned(e)
    BY <2>1 DEF DisposedOwned
  <2>2. CASE RevokeOwner(e)
    <3>1. live' \in [Owners -> BOOLEAN] /\ epc' \in [Endings -> EndingSteps]
      BY <2>2 DEF RevokeOwner
    <3> QED BY <2>2, <3>1 DEF RevokeOwner
  <2>3. CASE LeaveEnding(e)
    BY <2>3 DEF LeaveEnding, OwnerInv
  <2> QED BY <1>17, <2>1, <2>2, <2>3
<1>18. ASSUME UNCHANGED vars PROVE TypeOK'
  BY <1>18 DEF vars
<1> QED
  BY <1>1, <1>2, <1>3, <1>4, <1>5, <1>6, <1>7, <1>8, <1>9, <1>10, <1>11, <1>12, <1>13, <1>14, <1>15,
     <1>16, <1>17, <1>18, <1>19
     DEF Next, RequestArrives, CreateStep, ReviseStep, WorkspaceStep, EndingArrives, EndingStep, Rest

\* How a request comes to a stage, in a step of its own.
Moves(r) ==
  /\ by'[r] = by[r] \/ (pc[r] = "idle" /\ pc'[r] = "identified" /\ by'[r] \in Owners /\ live[by'[r]])
  /\ cancelled[r] => cancelled'[r]
  /\ pc[r] = "done" => pc'[r] = "done"
  /\ pc'[r] \notin {"idle", "done"} => pc[r] # "idle" \/ by'[r] \in Owners
  /\ Underway(r)' => Underway(r) \/ Reserve(r)
  /\ Underway(r) => Underway(r)' \/ pc'[r] = "done"
  /\ pc'[r] = "generating" =>
       \/ pc[r] = "generating"
       \/ pc[r] = "authorized" /\ authorized[r] /\ ~cancelled[r]
  /\ pc'[r] \in {"authorized", "rechecked"} =>
       \/ pc'[r] = pc[r] /\ authorized'[r] = authorized[r]
       \/ authorized'[r] = live[by[r]]

\* A creation starts beside no open workspace; it has a directory until it has ended.
CreationMoves(c) ==
  /\ pc'[c] \in {"authorizing", "authorized", "generating"} =>
       pc[c] \in {"authorizing", "authorized", "generating"} \/ StartCreate(c)
  /\ pc[c] \in {"generating", "failing"} =>
       pc'[c] \in {"generating", "failing"} \/ Publish(c) \/ CleanUp(c)

\* A revision starts in the workspace it has looked up, and stays there.
RevisionMoves(r) ==
  /\ pc[r] = "idle" \/ target'[r] = target[r]
  /\ pc'[r] = "looking" => pc[r] = "looking" \/ BeginRevise(r)
  /\ pc'[r] \in UsesWorkspace => pc[r] \in UsesWorkspace \/ StartRevise(r)

\* Every step moves requests like this.
LEMMA MoveStep ==
    ASSUME TypeOK, NEW q \in Requests, [Next]_vars
    PROVE  Moves(q)
<1> USE DEF TypeOK, Moves, Underway, Goto, FinishPending, Release, Move, Answer, MoveEnding,
        requestVars, workspaceVars, endingVars, Requests
<1>1. ASSUME NEW r \in Requests, NEW o \in Owners, Identify(r, o) PROVE Moves(q)
  BY <1>1 DEF Identify
<1>2. ASSUME NEW r \in Requests, Reserve(r) PROVE Moves(q)
  BY <1>2 DEF Reserve
<1>3. ASSUME NEW r \in Requests, RefuseReservation(r) \/ RefuseRequest(r) PROVE Moves(q)
  BY <1>3 DEF RefuseReservation, RefuseRequest
<1>4. ASSUME NEW c \in Creations,
             \/ BeginCreate(c) \/ ClearedExpired(c)
             \/ RefuseSecond(c) \/ StartCreate(c)
      PROVE  Moves(q)
  BY <1>4 DEF BeginCreate, ClearedExpired, RefuseSecond, StartCreate
<1>5. ASSUME NEW c \in Creations, ClearExpired(c) PROVE Moves(q)
  BY <1>5 DEF ClearExpired, Dispose, OpenOf
<1>6. ASSUME NEW r \in Requests, QueryOwner(r) PROVE Moves(q)
  BY <1>6 DEF QueryOwner
<1>7. ASSUME NEW c \in Creations, OpenWorkspace(c) PROVE Moves(q)
  BY <1>7 DEF OpenWorkspace
<1>8. ASSUME NEW c \in Creations, Publish(c) PROVE Moves(q)
  BY <1>8 DEF Publish
<1>9. ASSUME NEW c \in Creations, FailCreate(c) \/ CleanUp(c) PROVE Moves(q)
  BY <1>9 DEF FailCreate, CleanUp
<1>10. ASSUME NEW r \in Revisions,
              \/ BeginRevise(r) \/ ReviseFoundNothing(r)
              \/ RevisionGenerated(r) \/ FailRevise(r)
       PROVE  Moves(q)
  BY <1>10 DEF BeginRevise, ReviseFoundNothing, RevisionGenerated, FailRevise
<1>11. ASSUME NEW r \in Revisions, ReviseExpired(r) PROVE Moves(q)
  BY <1>11 DEF ReviseExpired, Dispose, OpenOf
<1>12. ASSUME NEW r \in Revisions, StartRevise(r) PROVE Moves(q)
  BY <1>12 DEF StartRevise
<1>13. ASSUME NEW r \in Revisions, GenerateRevision(r) PROVE Moves(q)
  BY <1>13 DEF GenerateRevision, Current
<1>14. ASSUME NEW r \in Revisions, CommitRevision(r) PROVE Moves(q)
  BY <1>14 DEF CommitRevision
<1>15. ASSUME NEW c \in Creations, GrowIdle(c) \/ EraseDocument(c) \/ RemoveFiles(c) PROVE Moves(q)
  BY <1>15 DEF GrowIdle, EraseDocument, RemoveFiles
<1>16. ASSUME NEW c \in Creations, End(c) \/ Expire(c) PROVE Moves(q)
  BY <1>16 DEF End, Expire, Dispose
<1>17. ASSUME NEW e \in Endings, NEW o \in Owners, SignOut(e, o) \/ Revoke(e, o) PROVE Moves(q)
  BY <1>17 DEF SignOut, Revoke
<1>18. ASSUME NEW e \in Endings, BeginEnding(e) PROVE Moves(q)
  BY <1>18 DEF BeginEnding
<1>19. ASSUME NEW e \in Endings, Drained(e) PROVE Moves(q)
  BY <1>19 DEF Drained
<1>20. ASSUME NEW e \in Endings, DisposeOwned(e) PROVE Moves(q)
  BY <1>20 DEF DisposeOwned, Dispose, OpenOf
<1>21. ASSUME NEW e \in Endings, DisposedOwned(e) \/ RevokeOwner(e) \/ LeaveEnding(e) PROVE Moves(q)
  BY <1>21 DEF DisposedOwned, RevokeOwner, LeaveEnding
<1>22. ASSUME UNCHANGED vars PROVE Moves(q)
  BY <1>22 DEF vars
<1> QED
  BY <1>1, <1>2, <1>3, <1>4, <1>5, <1>6, <1>7, <1>8, <1>9, <1>10, <1>11, <1>12, <1>13, <1>14,
     <1>15, <1>16, <1>17, <1>18, <1>19, <1>20, <1>21, <1>22
     DEF Next, RequestArrives, CreateStep, ReviseStep, WorkspaceStep, EndingArrives, EndingStep, Rest

\* Every step moves creations like this.
LEMMA CreationStep ==
    ASSUME TypeOK, NEW d \in Creations, [Next]_vars
    PROVE  CreationMoves(d)
<1> USE ProcessesAreDistinct DEF TypeOK, CreationMoves, Goto, FinishPending, Release, Move, Answer, MoveEnding,
        requestVars, workspaceVars, endingVars, Requests
<1>1. ASSUME NEW r \in Requests, NEW o \in Owners, Identify(r, o) PROVE CreationMoves(d)
  BY <1>1 DEF Identify
<1>2. ASSUME NEW r \in Requests, Reserve(r) PROVE CreationMoves(d)
  BY <1>2 DEF Reserve
<1>3. ASSUME NEW r \in Requests, RefuseReservation(r) \/ RefuseRequest(r) PROVE CreationMoves(d)
  BY <1>3 DEF RefuseReservation, RefuseRequest
<1>4. ASSUME NEW c \in Creations,
             \/ BeginCreate(c) \/ ClearedExpired(c)
             \/ RefuseSecond(c) \/ StartCreate(c)
      PROVE  CreationMoves(d)
  BY <1>4 DEF BeginCreate, ClearedExpired, RefuseSecond, StartCreate
<1>5. ASSUME NEW c \in Creations, ClearExpired(c) PROVE CreationMoves(d)
  BY <1>5 DEF ClearExpired, Dispose, OpenOf
<1>6. ASSUME NEW r \in Requests, QueryOwner(r) PROVE CreationMoves(d)
  BY <1>6 DEF QueryOwner
<1>7. ASSUME NEW c \in Creations, OpenWorkspace(c) PROVE CreationMoves(d)
  BY <1>7 DEF OpenWorkspace
<1>8. ASSUME NEW c \in Creations, Publish(c) PROVE CreationMoves(d)
  BY <1>8 DEF Publish
<1>9. ASSUME NEW c \in Creations, FailCreate(c) \/ CleanUp(c) PROVE CreationMoves(d)
  BY <1>9 DEF FailCreate, CleanUp
<1>10. ASSUME NEW r \in Revisions,
              \/ BeginRevise(r) \/ ReviseFoundNothing(r)
              \/ RevisionGenerated(r) \/ FailRevise(r)
       PROVE  CreationMoves(d)
  BY <1>10 DEF BeginRevise, ReviseFoundNothing, RevisionGenerated, FailRevise
<1>11. ASSUME NEW r \in Revisions, ReviseExpired(r) PROVE CreationMoves(d)
  BY <1>11 DEF ReviseExpired, Dispose, OpenOf
<1>12. ASSUME NEW r \in Revisions, StartRevise(r) PROVE CreationMoves(d)
  BY <1>12 DEF StartRevise
<1>13. ASSUME NEW r \in Revisions, GenerateRevision(r) PROVE CreationMoves(d)
  BY <1>13 DEF GenerateRevision, Current
<1>14. ASSUME NEW r \in Revisions, CommitRevision(r) PROVE CreationMoves(d)
  BY <1>14 DEF CommitRevision
<1>15. ASSUME NEW c \in Creations, GrowIdle(c) \/ EraseDocument(c) \/ RemoveFiles(c)
       PROVE  CreationMoves(d)
  BY <1>15 DEF GrowIdle, EraseDocument, RemoveFiles
<1>16. ASSUME NEW c \in Creations, End(c) \/ Expire(c) PROVE CreationMoves(d)
  BY <1>16 DEF End, Expire, Dispose
<1>17. ASSUME NEW e \in Endings, NEW o \in Owners, SignOut(e, o) \/ Revoke(e, o)
       PROVE  CreationMoves(d)
  BY <1>17 DEF SignOut, Revoke
<1>18. ASSUME NEW e \in Endings, BeginEnding(e) PROVE CreationMoves(d)
  BY <1>18 DEF BeginEnding
<1>19. ASSUME NEW e \in Endings, Drained(e) PROVE CreationMoves(d)
  BY <1>19 DEF Drained
<1>20. ASSUME NEW e \in Endings, DisposeOwned(e) PROVE CreationMoves(d)
  BY <1>20 DEF DisposeOwned, Dispose, OpenOf
<1>21. ASSUME NEW e \in Endings, DisposedOwned(e) \/ RevokeOwner(e) \/ LeaveEnding(e)
       PROVE  CreationMoves(d)
  BY <1>21 DEF DisposedOwned, RevokeOwner, LeaveEnding
<1>22. ASSUME UNCHANGED vars PROVE CreationMoves(d)
  BY <1>22 DEF vars
<1> QED
  BY <1>1, <1>2, <1>3, <1>4, <1>5, <1>6, <1>7, <1>8, <1>9, <1>10, <1>11, <1>12, <1>13, <1>14,
     <1>15, <1>16, <1>17, <1>18, <1>19, <1>20, <1>21, <1>22
     DEF Next, RequestArrives, CreateStep, ReviseStep, WorkspaceStep, EndingArrives, EndingStep, Rest

\* Every step moves revisions like this.
LEMMA RevisionStep ==
    ASSUME TypeOK, NEW q \in Revisions, [Next]_vars
    PROVE  RevisionMoves(q)
<1> USE ProcessesAreDistinct DEF TypeOK, RevisionMoves, UsesWorkspace, Goto, FinishPending, Release, Move, Answer,
        MoveEnding, requestVars, workspaceVars, endingVars, Requests
<1>1. ASSUME NEW r \in Requests, NEW o \in Owners, Identify(r, o) PROVE RevisionMoves(q)
  BY <1>1 DEF Identify
<1>2. ASSUME NEW r \in Requests, Reserve(r) PROVE RevisionMoves(q)
  BY <1>2 DEF Reserve
<1>3. ASSUME NEW r \in Requests, RefuseReservation(r) \/ RefuseRequest(r) PROVE RevisionMoves(q)
  BY <1>3 DEF RefuseReservation, RefuseRequest
<1>4. ASSUME NEW c \in Creations,
             \/ BeginCreate(c) \/ ClearedExpired(c)
             \/ RefuseSecond(c) \/ StartCreate(c)
      PROVE  RevisionMoves(q)
  BY <1>4 DEF BeginCreate, ClearedExpired, RefuseSecond, StartCreate
<1>5. ASSUME NEW c \in Creations, ClearExpired(c) PROVE RevisionMoves(q)
  BY <1>5 DEF ClearExpired, Dispose, OpenOf
<1>6. ASSUME NEW r \in Requests, QueryOwner(r) PROVE RevisionMoves(q)
  BY <1>6 DEF QueryOwner
<1>7. ASSUME NEW c \in Creations, OpenWorkspace(c) PROVE RevisionMoves(q)
  BY <1>7 DEF OpenWorkspace
<1>8. ASSUME NEW c \in Creations, Publish(c) PROVE RevisionMoves(q)
  BY <1>8 DEF Publish
<1>9. ASSUME NEW c \in Creations, FailCreate(c) \/ CleanUp(c) PROVE RevisionMoves(q)
  BY <1>9 DEF FailCreate, CleanUp
<1>10. ASSUME NEW r \in Revisions,
              \/ BeginRevise(r) \/ ReviseFoundNothing(r)
              \/ RevisionGenerated(r) \/ FailRevise(r)
       PROVE  RevisionMoves(q)
  BY <1>10 DEF BeginRevise, ReviseFoundNothing, RevisionGenerated, FailRevise
<1>11. ASSUME NEW r \in Revisions, ReviseExpired(r) PROVE RevisionMoves(q)
  BY <1>11 DEF ReviseExpired, Dispose, OpenOf
<1>12. ASSUME NEW r \in Revisions, StartRevise(r) PROVE RevisionMoves(q)
  BY <1>12 DEF StartRevise
<1>13. ASSUME NEW r \in Revisions, GenerateRevision(r) PROVE RevisionMoves(q)
  BY <1>13 DEF GenerateRevision, Current
<1>14. ASSUME NEW r \in Revisions, CommitRevision(r) PROVE RevisionMoves(q)
  BY <1>14 DEF CommitRevision
<1>15. ASSUME NEW c \in Creations, GrowIdle(c) \/ EraseDocument(c) \/ RemoveFiles(c)
       PROVE  RevisionMoves(q)
  BY <1>15 DEF GrowIdle, EraseDocument, RemoveFiles
<1>16. ASSUME NEW c \in Creations, End(c) \/ Expire(c) PROVE RevisionMoves(q)
  BY <1>16 DEF End, Expire, Dispose
<1>17. ASSUME NEW e \in Endings, NEW o \in Owners, SignOut(e, o) \/ Revoke(e, o)
       PROVE  RevisionMoves(q)
  BY <1>17 DEF SignOut, Revoke
<1>18. ASSUME NEW e \in Endings, BeginEnding(e) PROVE RevisionMoves(q)
  BY <1>18 DEF BeginEnding
<1>19. ASSUME NEW e \in Endings, Drained(e) PROVE RevisionMoves(q)
  BY <1>19 DEF Drained
<1>20. ASSUME NEW e \in Endings, DisposeOwned(e) PROVE RevisionMoves(q)
  BY <1>20 DEF DisposeOwned, Dispose, OpenOf
<1>21. ASSUME NEW e \in Endings, DisposedOwned(e) \/ RevokeOwner(e) \/ LeaveEnding(e)
       PROVE  RevisionMoves(q)
  BY <1>21 DEF DisposedOwned, RevokeOwner, LeaveEnding
<1>22. ASSUME UNCHANGED vars PROVE RevisionMoves(q)
  BY <1>22 DEF vars
<1> QED
  BY <1>1, <1>2, <1>3, <1>4, <1>5, <1>6, <1>7, <1>8, <1>9, <1>10, <1>11, <1>12, <1>13, <1>14,
     <1>15, <1>16, <1>17, <1>18, <1>19, <1>20, <1>21, <1>22
     DEF Next, RequestArrives, CreateStep, ReviseStep, WorkspaceStep, EndingArrives, EndingStep, Rest

\* How a request gets its reservation and loses it.
PendingMoves(o, r) ==
  /\ r \in pending'[o] => r \in pending[o] \/ (Reserve(r) /\ by[r] = o)
  /\ r \in pending[o] =>
       \/ r \in pending'[o]
       \/ by[r] = o /\ pc'[r] = "done"
       \/ \E e \in Endings : Drained(e) /\ eby[e] = o /\ r \in Unstarted(e)
  /\ Underway(r) /\ by[r] = o /\ pc'[r] = "done" => r \notin pending'[o]

\* How a workspace comes to a phase, gets new tools and a directory.
WorkspaceMoves(c) ==
  /\ \/ phase'[c] = phase[c]
     \/ Publish(c)
     \/ phase[c] = "open" /\ phase'[c] = "closing"
     \/ phase[c] = "closing" /\ phase'[c] = "erasing" /\ tool[c] \notin pending[by[c]]
     \/ RemoveFiles(c)
  /\ tool'[c] = tool[c] \/ Publish(c) \/ (\E r \in Revisions : StartRevise(r) /\ target[r] = c)
  /\ files'[c] => files[c] \/ OpenWorkspace(c)

\* How an ending gets its owner and goes on.
EndingMoves(e) ==
  /\ \/ eby'[e] = eby[e] /\ epc'[e] = epc[e]
     \/ epc[e] = "idle" /\ epc'[e] = "called" /\ eby'[e] \in Owners /\ live[eby'[e]]
     \/ /\ eby'[e] = eby[e]
        /\ BeginEnding(e) \/ Drained(e) \/ DisposedOwned(e) \/ RevokeOwner(e) \/ LeaveEnding(e)
  /\ (drains'[e] = drains[e] /\ waits'[e] = waits[e]) \/ BeginEnding(e)

\* How the session row of an owner goes.
LiveMoves(o) ==
  \/ live'[o] = live[o]
  \/ \E e \in Endings : Revoke(e, o)
  \/ \E e \in Endings : RevokeOwner(e) /\ eby[e] = o

\* Every step makes and ends reservations like this.
LEMMA PendingStep ==
    ASSUME TypeOK, OwnerInv, NEW p \in Owners, NEW q \in Requests, [Next]_vars
    PROVE  PendingMoves(p, q)
<1> USE DEF TypeOK, OwnerInv, PendingMoves, Underway, Goto, GotoEnding, FinishPending, Release, Move, Answer, MoveEnding,
        requestVars, workspaceVars, endingVars, Requests
<1>1. ASSUME NEW r \in Requests, NEW o \in Owners, Identify(r, o) PROVE PendingMoves(p, q)
  BY <1>1 DEF Identify
<1>2. ASSUME NEW r \in Requests, Reserve(r) PROVE PendingMoves(p, q)
  BY <1>2 DEF Reserve
<1>3. ASSUME NEW r \in Requests, RefuseReservation(r) \/ RefuseRequest(r) PROVE PendingMoves(p, q)
  BY <1>3 DEF RefuseReservation, RefuseRequest
<1>4. ASSUME NEW c \in Creations,
             \/ BeginCreate(c) \/ ClearedExpired(c)
             \/ RefuseSecond(c) \/ StartCreate(c)
      PROVE  PendingMoves(p, q)
  BY <1>4 DEF BeginCreate, ClearedExpired, RefuseSecond, StartCreate
<1>5. ASSUME NEW c \in Creations, ClearExpired(c) PROVE PendingMoves(p, q)
  BY <1>5 DEF ClearExpired, Dispose, OpenOf
<1>6. ASSUME NEW r \in Requests, QueryOwner(r) PROVE PendingMoves(p, q)
  BY <1>6 DEF QueryOwner
<1>7. ASSUME NEW c \in Creations, OpenWorkspace(c) PROVE PendingMoves(p, q)
  BY <1>7 DEF OpenWorkspace
<1>8. ASSUME NEW c \in Creations, Publish(c) PROVE PendingMoves(p, q)
  BY <1>8 DEF Publish
<1>9. ASSUME NEW c \in Creations, FailCreate(c) \/ CleanUp(c) PROVE PendingMoves(p, q)
  BY <1>9 DEF FailCreate, CleanUp
<1>10. ASSUME NEW r \in Revisions,
              \/ BeginRevise(r) \/ ReviseFoundNothing(r)
              \/ RevisionGenerated(r) \/ FailRevise(r)
       PROVE  PendingMoves(p, q)
  BY <1>10 DEF BeginRevise, ReviseFoundNothing, RevisionGenerated, FailRevise
<1>11. ASSUME NEW r \in Revisions, ReviseExpired(r) PROVE PendingMoves(p, q)
  BY <1>11 DEF ReviseExpired, Dispose, OpenOf
<1>12. ASSUME NEW r \in Revisions, StartRevise(r) PROVE PendingMoves(p, q)
  BY <1>12 DEF StartRevise
<1>13. ASSUME NEW r \in Revisions, GenerateRevision(r) PROVE PendingMoves(p, q)
  BY <1>13 DEF GenerateRevision, Current
<1>14. ASSUME NEW r \in Revisions, CommitRevision(r) PROVE PendingMoves(p, q)
  BY <1>14 DEF CommitRevision
<1>15. ASSUME NEW c \in Creations, GrowIdle(c) \/ EraseDocument(c) \/ RemoveFiles(c)
       PROVE  PendingMoves(p, q)
  BY <1>15 DEF GrowIdle, EraseDocument, RemoveFiles
<1>16. ASSUME NEW c \in Creations, End(c) \/ Expire(c) PROVE PendingMoves(p, q)
  BY <1>16 DEF End, Expire, Dispose
<1>17. ASSUME NEW e \in Endings, NEW o \in Owners, SignOut(e, o) \/ Revoke(e, o)
       PROVE  PendingMoves(p, q)
  BY <1>17 DEF SignOut, Revoke
<1>18. ASSUME NEW e \in Endings, BeginEnding(e) PROVE PendingMoves(p, q)
  BY <1>18 DEF BeginEnding
<1>19. ASSUME NEW e \in Endings, Drained(e) PROVE PendingMoves(p, q)
  BY <1>19 DEF Drained
<1>20. ASSUME NEW e \in Endings, DisposeOwned(e) PROVE PendingMoves(p, q)
  BY <1>20 DEF DisposeOwned, Dispose, OpenOf
<1>21. ASSUME NEW e \in Endings, DisposedOwned(e) \/ RevokeOwner(e) \/ LeaveEnding(e)
       PROVE  PendingMoves(p, q)
  BY <1>21 DEF DisposedOwned, RevokeOwner, LeaveEnding
<1>22. ASSUME UNCHANGED vars PROVE PendingMoves(p, q)
  BY <1>22 DEF vars
<1> QED
  BY <1>1, <1>2, <1>3, <1>4, <1>5, <1>6, <1>7, <1>8, <1>9, <1>10, <1>11, <1>12, <1>13, <1>14,
     <1>15, <1>16, <1>17, <1>18, <1>19, <1>20, <1>21, <1>22
     DEF Next, RequestArrives, CreateStep, ReviseStep, WorkspaceStep, EndingArrives, EndingStep, Rest

\* Every step moves workspaces like this.
LEMMA WorkspacesStep ==
    ASSUME TypeOK, NEW d \in Creations, [Next]_vars
    PROVE  WorkspaceMoves(d)
<1> USE DEF TypeOK, WorkspaceMoves, Goto, GotoEnding, FinishPending, Release, Move, Answer, MoveEnding,
        requestVars, workspaceVars, endingVars, Requests
<1>1. ASSUME NEW r \in Requests, NEW o \in Owners, Identify(r, o) PROVE WorkspaceMoves(d)
  BY <1>1 DEF Identify
<1>2. ASSUME NEW r \in Requests, Reserve(r) PROVE WorkspaceMoves(d)
  BY <1>2 DEF Reserve
<1>3. ASSUME NEW r \in Requests, RefuseReservation(r) \/ RefuseRequest(r) PROVE WorkspaceMoves(d)
  BY <1>3 DEF RefuseReservation, RefuseRequest
<1>4. ASSUME NEW c \in Creations,
             \/ BeginCreate(c) \/ ClearedExpired(c)
             \/ RefuseSecond(c) \/ StartCreate(c)
      PROVE  WorkspaceMoves(d)
  BY <1>4 DEF BeginCreate, ClearedExpired, RefuseSecond, StartCreate
<1>5. ASSUME NEW c \in Creations, ClearExpired(c) PROVE WorkspaceMoves(d)
  BY <1>5 DEF ClearExpired, Dispose, OpenOf
<1>6. ASSUME NEW r \in Requests, QueryOwner(r) PROVE WorkspaceMoves(d)
  BY <1>6 DEF QueryOwner
<1>7. ASSUME NEW c \in Creations, OpenWorkspace(c) PROVE WorkspaceMoves(d)
  BY <1>7 DEF OpenWorkspace
<1>8. ASSUME NEW c \in Creations, Publish(c) PROVE WorkspaceMoves(d)
  BY <1>8 DEF Publish
<1>9. ASSUME NEW c \in Creations, FailCreate(c) \/ CleanUp(c) PROVE WorkspaceMoves(d)
  BY <1>9 DEF FailCreate, CleanUp
<1>10. ASSUME NEW r \in Revisions,
              \/ BeginRevise(r) \/ ReviseFoundNothing(r)
              \/ RevisionGenerated(r) \/ FailRevise(r)
       PROVE  WorkspaceMoves(d)
  BY <1>10 DEF BeginRevise, ReviseFoundNothing, RevisionGenerated, FailRevise
<1>11. ASSUME NEW r \in Revisions, ReviseExpired(r) PROVE WorkspaceMoves(d)
  BY <1>11 DEF ReviseExpired, Dispose, OpenOf
<1>12. ASSUME NEW r \in Revisions, StartRevise(r) PROVE WorkspaceMoves(d)
  BY <1>12 DEF StartRevise
<1>13. ASSUME NEW r \in Revisions, GenerateRevision(r) PROVE WorkspaceMoves(d)
  BY <1>13 DEF GenerateRevision, Current
<1>14. ASSUME NEW r \in Revisions, CommitRevision(r) PROVE WorkspaceMoves(d)
  BY <1>14 DEF CommitRevision
<1>15. ASSUME NEW c \in Creations, GrowIdle(c) \/ EraseDocument(c) \/ RemoveFiles(c)
       PROVE  WorkspaceMoves(d)
  BY <1>15 DEF GrowIdle, EraseDocument, RemoveFiles
<1>16. ASSUME NEW c \in Creations, End(c) \/ Expire(c) PROVE WorkspaceMoves(d)
  BY <1>16 DEF End, Expire, Dispose
<1>17. ASSUME NEW e \in Endings, NEW o \in Owners, SignOut(e, o) \/ Revoke(e, o)
       PROVE  WorkspaceMoves(d)
  BY <1>17 DEF SignOut, Revoke
<1>18. ASSUME NEW e \in Endings, BeginEnding(e) PROVE WorkspaceMoves(d)
  BY <1>18 DEF BeginEnding
<1>19. ASSUME NEW e \in Endings, Drained(e) PROVE WorkspaceMoves(d)
  BY <1>19 DEF Drained
<1>20. ASSUME NEW e \in Endings, DisposeOwned(e) PROVE WorkspaceMoves(d)
  BY <1>20 DEF DisposeOwned, Dispose, OpenOf
<1>21. ASSUME NEW e \in Endings, DisposedOwned(e) \/ RevokeOwner(e) \/ LeaveEnding(e)
       PROVE  WorkspaceMoves(d)
  BY <1>21 DEF DisposedOwned, RevokeOwner, LeaveEnding
<1>22. ASSUME UNCHANGED vars PROVE WorkspaceMoves(d)
  BY <1>22 DEF vars
<1> HIDE DEF TypeOK, WorkspaceMoves
<1> QED
  BY <1>1, <1>2, <1>3, <1>4, <1>5, <1>6, <1>7, <1>8, <1>9, <1>10, <1>11, <1>12, <1>13, <1>14,
     <1>15, <1>16, <1>17, <1>18, <1>19, <1>20, <1>21, <1>22
     DEF Next, RequestArrives, CreateStep, ReviseStep, WorkspaceStep, EndingArrives, EndingStep, Rest

\* Every step moves endings like this.
LEMMA EndingsStep ==
    ASSUME TypeOK, NEW f \in Endings, [Next]_vars
    PROVE  EndingMoves(f)
<1> USE DEF TypeOK, EndingMoves, Goto, GotoEnding, FinishPending, Release, Move, Answer, MoveEnding,
        requestVars, workspaceVars, endingVars, Requests
<1>1. ASSUME NEW r \in Requests, NEW o \in Owners, Identify(r, o) PROVE EndingMoves(f)
  BY <1>1 DEF Identify
<1>2. ASSUME NEW r \in Requests, Reserve(r) PROVE EndingMoves(f)
  BY <1>2 DEF Reserve
<1>3. ASSUME NEW r \in Requests, RefuseReservation(r) \/ RefuseRequest(r) PROVE EndingMoves(f)
  BY <1>3 DEF RefuseReservation, RefuseRequest
<1>4. ASSUME NEW c \in Creations,
             \/ BeginCreate(c) \/ ClearedExpired(c)
             \/ RefuseSecond(c) \/ StartCreate(c)
      PROVE  EndingMoves(f)
  BY <1>4 DEF BeginCreate, ClearedExpired, RefuseSecond, StartCreate
<1>5. ASSUME NEW c \in Creations, ClearExpired(c) PROVE EndingMoves(f)
  BY <1>5 DEF ClearExpired, Dispose, OpenOf
<1>6. ASSUME NEW r \in Requests, QueryOwner(r) PROVE EndingMoves(f)
  BY <1>6 DEF QueryOwner
<1>7. ASSUME NEW c \in Creations, OpenWorkspace(c) PROVE EndingMoves(f)
  BY <1>7 DEF OpenWorkspace
<1>8. ASSUME NEW c \in Creations, Publish(c) PROVE EndingMoves(f)
  BY <1>8 DEF Publish
<1>9. ASSUME NEW c \in Creations, FailCreate(c) \/ CleanUp(c) PROVE EndingMoves(f)
  BY <1>9 DEF FailCreate, CleanUp
<1>10. ASSUME NEW r \in Revisions,
              \/ BeginRevise(r) \/ ReviseFoundNothing(r)
              \/ RevisionGenerated(r) \/ FailRevise(r)
       PROVE  EndingMoves(f)
  BY <1>10 DEF BeginRevise, ReviseFoundNothing, RevisionGenerated, FailRevise
<1>11. ASSUME NEW r \in Revisions, ReviseExpired(r) PROVE EndingMoves(f)
  BY <1>11 DEF ReviseExpired, Dispose, OpenOf
<1>12. ASSUME NEW r \in Revisions, StartRevise(r) PROVE EndingMoves(f)
  BY <1>12 DEF StartRevise
<1>13. ASSUME NEW r \in Revisions, GenerateRevision(r) PROVE EndingMoves(f)
  BY <1>13 DEF GenerateRevision, Current
<1>14. ASSUME NEW r \in Revisions, CommitRevision(r) PROVE EndingMoves(f)
  BY <1>14 DEF CommitRevision
<1>15. ASSUME NEW c \in Creations, GrowIdle(c) \/ EraseDocument(c) \/ RemoveFiles(c)
       PROVE  EndingMoves(f)
  BY <1>15 DEF GrowIdle, EraseDocument, RemoveFiles
<1>16. ASSUME NEW c \in Creations, End(c) \/ Expire(c) PROVE EndingMoves(f)
  BY <1>16 DEF End, Expire, Dispose
<1>17. ASSUME NEW e \in Endings, NEW o \in Owners, SignOut(e, o) \/ Revoke(e, o)
       PROVE  EndingMoves(f)
  BY <1>17 DEF SignOut, Revoke
<1>18. ASSUME NEW e \in Endings, BeginEnding(e) PROVE EndingMoves(f)
  BY <1>18 DEF BeginEnding
<1>19. ASSUME NEW e \in Endings, Drained(e) PROVE EndingMoves(f)
  BY <1>19 DEF Drained
<1>20. ASSUME NEW e \in Endings, DisposeOwned(e) PROVE EndingMoves(f)
  BY <1>20 DEF DisposeOwned, Dispose, OpenOf
<1>21. ASSUME NEW e \in Endings, DisposedOwned(e) \/ RevokeOwner(e) \/ LeaveEnding(e)
       PROVE  EndingMoves(f)
  BY <1>21 DEF DisposedOwned, RevokeOwner, LeaveEnding
<1>22. ASSUME UNCHANGED vars PROVE EndingMoves(f)
  BY <1>22 DEF vars
<1> HIDE DEF TypeOK, EndingMoves
<1> QED
  BY <1>1, <1>2, <1>3, <1>4, <1>5, <1>6, <1>7, <1>8, <1>9, <1>10, <1>11, <1>12, <1>13, <1>14,
     <1>15, <1>16, <1>17, <1>18, <1>19, <1>20, <1>21, <1>22
     DEF Next, RequestArrives, CreateStep, ReviseStep, WorkspaceStep, EndingArrives, EndingStep, Rest

\* Every step deletes session rows like this.
LEMMA LiveStep ==
    ASSUME TypeOK, NEW p \in Owners, [Next]_vars
    PROVE  LiveMoves(p)
<1> USE DEF TypeOK, LiveMoves, Goto, GotoEnding, FinishPending, Release, Move, Answer, MoveEnding,
        requestVars, workspaceVars, endingVars, Requests
<1>1. ASSUME NEW r \in Requests, NEW o \in Owners, Identify(r, o) PROVE LiveMoves(p)
  BY <1>1 DEF Identify
<1>2. ASSUME NEW r \in Requests, Reserve(r) PROVE LiveMoves(p)
  BY <1>2 DEF Reserve
<1>3. ASSUME NEW r \in Requests, RefuseReservation(r) \/ RefuseRequest(r) PROVE LiveMoves(p)
  BY <1>3 DEF RefuseReservation, RefuseRequest
<1>4. ASSUME NEW c \in Creations,
             \/ BeginCreate(c) \/ ClearedExpired(c)
             \/ RefuseSecond(c) \/ StartCreate(c)
      PROVE  LiveMoves(p)
  BY <1>4 DEF BeginCreate, ClearedExpired, RefuseSecond, StartCreate
<1>5. ASSUME NEW c \in Creations, ClearExpired(c) PROVE LiveMoves(p)
  BY <1>5 DEF ClearExpired, Dispose, OpenOf
<1>6. ASSUME NEW r \in Requests, QueryOwner(r) PROVE LiveMoves(p)
  BY <1>6 DEF QueryOwner
<1>7. ASSUME NEW c \in Creations, OpenWorkspace(c) PROVE LiveMoves(p)
  BY <1>7 DEF OpenWorkspace
<1>8. ASSUME NEW c \in Creations, Publish(c) PROVE LiveMoves(p)
  BY <1>8 DEF Publish
<1>9. ASSUME NEW c \in Creations, FailCreate(c) \/ CleanUp(c) PROVE LiveMoves(p)
  BY <1>9 DEF FailCreate, CleanUp
<1>10. ASSUME NEW r \in Revisions,
              \/ BeginRevise(r) \/ ReviseFoundNothing(r)
              \/ RevisionGenerated(r) \/ FailRevise(r)
       PROVE  LiveMoves(p)
  BY <1>10 DEF BeginRevise, ReviseFoundNothing, RevisionGenerated, FailRevise
<1>11. ASSUME NEW r \in Revisions, ReviseExpired(r) PROVE LiveMoves(p)
  BY <1>11 DEF ReviseExpired, Dispose, OpenOf
<1>12. ASSUME NEW r \in Revisions, StartRevise(r) PROVE LiveMoves(p)
  BY <1>12 DEF StartRevise
<1>13. ASSUME NEW r \in Revisions, GenerateRevision(r) PROVE LiveMoves(p)
  BY <1>13 DEF GenerateRevision, Current
<1>14. ASSUME NEW r \in Revisions, CommitRevision(r) PROVE LiveMoves(p)
  BY <1>14 DEF CommitRevision
<1>15. ASSUME NEW c \in Creations, GrowIdle(c) \/ EraseDocument(c) \/ RemoveFiles(c)
       PROVE  LiveMoves(p)
  BY <1>15 DEF GrowIdle, EraseDocument, RemoveFiles
<1>16. ASSUME NEW c \in Creations, End(c) \/ Expire(c) PROVE LiveMoves(p)
  BY <1>16 DEF End, Expire, Dispose
<1>17. ASSUME NEW e \in Endings, NEW o \in Owners, SignOut(e, o) \/ Revoke(e, o) PROVE LiveMoves(p)
  BY <1>17 DEF SignOut, Revoke
<1>18. ASSUME NEW e \in Endings, BeginEnding(e) PROVE LiveMoves(p)
  BY <1>18 DEF BeginEnding
<1>19. ASSUME NEW e \in Endings, Drained(e) PROVE LiveMoves(p)
  BY <1>19 DEF Drained
<1>20. ASSUME NEW e \in Endings, DisposeOwned(e) PROVE LiveMoves(p)
  BY <1>20 DEF DisposeOwned, Dispose, OpenOf
<1>21. ASSUME NEW e \in Endings, DisposedOwned(e) \/ RevokeOwner(e) \/ LeaveEnding(e)
       PROVE  LiveMoves(p)
  BY <1>21 DEF DisposedOwned, RevokeOwner, LeaveEnding
<1>22. ASSUME UNCHANGED vars PROVE LiveMoves(p)
  BY <1>22 DEF vars
<1> HIDE DEF TypeOK, LiveMoves
<1> QED
  BY <1>1, <1>2, <1>3, <1>4, <1>5, <1>6, <1>7, <1>8, <1>9, <1>10, <1>11, <1>12, <1>13, <1>14,
     <1>15, <1>16, <1>17, <1>18, <1>19, <1>20, <1>21, <1>22
     DEF Next, RequestArrives, CreateStep, ReviseStep, WorkspaceStep, EndingArrives, EndingStep, Rest

\* Only an ending that closes the gate or leaves it is counted.
Counted == UNCHANGED ending \/ \E e \in Endings : BeginEnding(e) \/ LeaveEnding(e)

\* Every step counts endings like this.
LEMMA CountStep ==
    ASSUME TypeOK, [Next]_vars
    PROVE  Counted
<1> USE DEF Counted, Goto, GotoEnding, FinishPending, Release, Move, Answer, MoveEnding,
        requestVars, workspaceVars, endingVars, Requests
<1>1. ASSUME NEW r \in Requests, NEW o \in Owners, Identify(r, o) PROVE Counted
  BY <1>1 DEF Identify
<1>2. ASSUME NEW r \in Requests, Reserve(r) PROVE Counted
  BY <1>2 DEF Reserve
<1>3. ASSUME NEW r \in Requests, RefuseReservation(r) \/ RefuseRequest(r) PROVE Counted
  BY <1>3 DEF RefuseReservation, RefuseRequest
<1>4. ASSUME NEW c \in Creations,
             \/ BeginCreate(c) \/ ClearedExpired(c)
             \/ RefuseSecond(c) \/ StartCreate(c)
      PROVE  Counted
  BY <1>4 DEF BeginCreate, ClearedExpired, RefuseSecond, StartCreate
<1>5. ASSUME NEW c \in Creations, ClearExpired(c) PROVE Counted
  BY <1>5 DEF ClearExpired, Dispose, OpenOf
<1>6. ASSUME NEW r \in Requests, QueryOwner(r) PROVE Counted
  BY <1>6 DEF QueryOwner
<1>7. ASSUME NEW c \in Creations, OpenWorkspace(c) PROVE Counted
  BY <1>7 DEF OpenWorkspace
<1>8. ASSUME NEW c \in Creations, Publish(c) PROVE Counted
  BY <1>8 DEF Publish
<1>9. ASSUME NEW c \in Creations, FailCreate(c) \/ CleanUp(c) PROVE Counted
  BY <1>9 DEF FailCreate, CleanUp
<1>10. ASSUME NEW r \in Revisions,
              \/ BeginRevise(r) \/ ReviseFoundNothing(r)
              \/ RevisionGenerated(r) \/ FailRevise(r)
       PROVE  Counted
  BY <1>10 DEF BeginRevise, ReviseFoundNothing, RevisionGenerated, FailRevise
<1>11. ASSUME NEW r \in Revisions, ReviseExpired(r) PROVE Counted
  BY <1>11 DEF ReviseExpired, Dispose, OpenOf
<1>12. ASSUME NEW r \in Revisions, StartRevise(r) PROVE Counted
  BY <1>12 DEF StartRevise
<1>13. ASSUME NEW r \in Revisions, GenerateRevision(r) PROVE Counted
  BY <1>13 DEF GenerateRevision, Current
<1>14. ASSUME NEW r \in Revisions, CommitRevision(r) PROVE Counted
  BY <1>14 DEF CommitRevision
<1>15. ASSUME NEW c \in Creations, GrowIdle(c) \/ EraseDocument(c) \/ RemoveFiles(c) PROVE Counted
  BY <1>15 DEF GrowIdle, EraseDocument, RemoveFiles
<1>16. ASSUME NEW c \in Creations, End(c) \/ Expire(c) PROVE Counted
  BY <1>16 DEF End, Expire, Dispose
<1>17. ASSUME NEW e \in Endings, NEW o \in Owners, SignOut(e, o) \/ Revoke(e, o) PROVE Counted
  BY <1>17 DEF SignOut, Revoke
<1>18. ASSUME NEW e \in Endings, BeginEnding(e) PROVE Counted
  BY <1>18 DEF BeginEnding
<1>19. ASSUME NEW e \in Endings, Drained(e) PROVE Counted
  BY <1>19 DEF Drained
<1>20. ASSUME NEW e \in Endings, DisposeOwned(e) PROVE Counted
  BY <1>20 DEF DisposeOwned, Dispose, OpenOf
<1>21. ASSUME NEW e \in Endings, DisposedOwned(e) \/ RevokeOwner(e) \/ LeaveEnding(e) PROVE Counted
  BY <1>21 DEF DisposedOwned, RevokeOwner, LeaveEnding
<1>22. ASSUME UNCHANGED vars PROVE Counted
  BY <1>22 DEF vars
<1> HIDE DEF Counted
<1> QED
  BY <1>1, <1>2, <1>3, <1>4, <1>5, <1>6, <1>7, <1>8, <1>9, <1>10, <1>11, <1>12, <1>13, <1>14,
     <1>15, <1>16, <1>17, <1>18, <1>19, <1>20, <1>21, <1>22
     DEF Next, RequestArrives, CreateStep, ReviseStep, WorkspaceStep, EndingArrives, EndingStep, Rest

(***************************************************************************)
(* Each part of the invariant is preserved                                 *)
(***************************************************************************)

\* Processes under way keep their owners.
LEMMA OwnerStep ==
    ASSUME TypeOK, OwnerInv, [Next]_vars
    PROVE  OwnerInv'
<1> USE DEF OwnerInv
<1>1. ASSUME NEW r \in Requests, pc'[r] \notin {"idle", "done"} PROVE by'[r] \in Owners
  BY <1>1, MoveStep DEF Moves
<1>2. ASSUME NEW e \in Endings
      PROVE  IF epc'[e] = "idle" THEN eby'[e] = None ELSE epc'[e] # "done" => eby'[e] \in Owners
  BY EndingsStep DEF EndingMoves, BeginEnding, Drained, DisposedOwned, RevokeOwner, LeaveEnding,
     GotoEnding, MoveEnding, TypeOK
<1>3. ASSUME NEW c \in Creations, phase'[c] # "absent" PROVE pc'[c] = "done" /\ by'[c] \in Owners
  <2>1. CASE Publish(c)
    BY <2>1 DEF Publish, Release, Goto, TypeOK, Requests
  <2>2. CASE ~Publish(c)
    <3>1. phase[c] # "absent"
      BY <1>3, <2>2, WorkspacesStep DEF WorkspaceMoves, RemoveFiles
    <3> QED BY <3>1, MoveStep DEF Moves, Requests
  <2> QED BY <2>1, <2>2
<1> QED BY <1>1, <1>2, <1>3

\* One reservation of an owner at a time, which only a cancelled request may lose early.
LEMMA ReservationStep ==
    ASSUME TypeOK, OwnerInv, ReservationInv, [Next]_vars
    PROVE  ReservationInv'
<1>1. ASSUME NEW r \in Requests, Reserve(r)
      PROVE  /\ pending[by[r]] = {} /\ pending' = [pending EXCEPT ![by[r]] = {r}]
             /\ by' = by /\ by[r] \in Owners /\ Underway(r)'
  BY <1>1 DEF Reserve, Goto, TypeOK, OwnerInv, Underway
<1>2. ASSUME NEW o \in Owners, NEW r \in pending'[o] PROVE Underway(r)' /\ by'[r] = o
  <2>1. r \in Requests
    BY TypeStep DEF TypeOK
  <2>2. CASE Reserve(r) /\ by[r] = o
    BY <2>1, <2>2, <1>1
  <2>3. CASE ~(Reserve(r) /\ by[r] = o)
    <3>1. r \in pending[o]
      BY <2>1, <2>3, PendingStep DEF PendingMoves
    <3>2. Underway(r) /\ by[r] = o
      BY <3>1 DEF ReservationInv
    <3> QED BY <2>1, <3>2, MoveStep, PendingStep DEF Moves, PendingMoves, Underway
  <2> QED BY <2>2, <2>3
<1>3. ASSUME NEW o \in Owners, NEW r \in pending'[o], NEW q \in pending'[o] PROVE q = r
  <2>1. r \in Requests /\ q \in Requests
    BY TypeStep DEF TypeOK
  <2>2. CASE \E p \in Requests : Reserve(p) /\ by[p] = o
    <3>1. PICK p \in Requests : Reserve(p) /\ by[p] = o
      BY <2>2
    <3>2. pending'[o] = {p}
      BY <3>1, <1>1 DEF TypeOK
    <3> QED BY <3>2
  <2>3. CASE ~ \E p \in Requests : Reserve(p) /\ by[p] = o
    <3>1. r \in pending[o] /\ q \in pending[o]
      BY <2>1, <2>3, PendingStep DEF PendingMoves
    <3> QED BY <3>1 DEF ReservationInv
  <2> QED BY <2>2, <2>3
<1>4. ASSUME NEW r \in Requests, Underway(r)', ~cancelled'[r] PROVE r \in pending'[by'[r]]
  <2>1. CASE Reserve(r)
    BY <2>1, <1>1 DEF TypeOK
  <2>2. CASE ~Reserve(r)
    <3>1. Underway(r) /\ ~cancelled[r] /\ by'[r] = by[r] /\ pc'[r] # "done"
      BY <1>4, <2>2, MoveStep DEF Moves, Underway
    <3>2. by[r] \in Owners /\ r \in pending[by[r]]
      BY <3>1 DEF OwnerInv, Underway, ReservationInv
    <3>3. ASSUME NEW e \in Endings PROVE r \notin Unstarted(e)
      BY <3>1 DEF Unstarted, ReservationInv
    <3> QED BY <3>1, <3>2, <3>3, PendingStep DEF PendingMoves
  <2> QED BY <2>1, <2>2
<1>5. ASSUME NEW e \in Endings, NEW r \in drains'[e] PROVE cancelled'[r]
  <2>1. r \in Requests
    BY TypeStep DEF TypeOK
  <2>2. CASE BeginEnding(e)
    BY <2>1, <2>2 DEF BeginEnding, TypeOK
  <2>3. CASE ~BeginEnding(e)
    BY <2>1, <2>3, EndingsStep, MoveStep DEF EndingMoves, Moves, ReservationInv
  <2> QED BY <2>2, <2>3
<1> QED BY <1>2, <1>3, <1>4, <1>5 DEF ReservationInv

\* No creation publishes its workspace beside another one.
LEMMA LoneStep ==
    ASSUME TypeOK, OwnerInv, ReservationInv, LoneInv, [Next]_vars
    PROVE  LoneInv'
<1> DEFINE Making(c) == pc[c] \in {"authorizing", "authorized", "generating"} /\ ~cancelled[c]
<1>1. ASSUME NEW c \in Creations, phase[c] # "absent" PROVE by'[c] = by[c]
  BY <1>1, MoveStep DEF Moves, OwnerInv, Requests
<1>2. ASSUME NEW c \in Creations, phase'[c] = "open" PROVE phase[c] = "open" \/ Publish(c)
  BY <1>2, WorkspacesStep DEF WorkspaceMoves, RemoveFiles, TypeOK
<1>3. ASSUME NEW c \in Creations, Publish(c)
      PROVE  /\ Making(c) /\ by'[c] = by[c] /\ pc'[c] = "done"
             /\ \A d \in Creations : d # c => phase'[d] = phase[d]
  BY <1>3 DEF Publish, Release, Goto, TypeOK, Requests
<1>4. ASSUME NEW c \in Creations, NEW d \in Creations,
             phase'[c] = "open", phase'[d] = "open", by'[c] = by'[d]
      PROVE  c = d
  BY <1>1, <1>2, <1>3, <1>4 DEF LoneInv
<1>5. ASSUME NEW c \in Creations, Making(c) PROVE by[c] \in Owners /\ c \in pending[by[c]]
  BY <1>5 DEF OwnerInv, ReservationInv, Underway, Requests
<1>6. ASSUME NEW c \in Creations, NEW d \in Creations,
             pc'[c] \in {"authorizing", "authorized", "generating"}, ~cancelled'[c], phase'[d] = "open"
      PROVE  by'[c] # by'[d]
  <2>1. CASE StartCreate(c)
    BY <1>6, <2>1 DEF StartCreate, Move, OpenOf, workspaceVars
  <2>2. CASE ~StartCreate(c)
    <3>1. Making(c) /\ by'[c] = by[c]
      BY <1>6, <2>2, CreationStep, MoveStep DEF CreationMoves, Moves, Requests
    <3>2. CASE Publish(d)
      BY <1>3, <1>5, <1>6, <3>1, <3>2 DEF ReservationInv
    <3>3. CASE ~Publish(d)
      BY <1>1, <1>2, <1>6, <3>1, <3>3 DEF LoneInv
    <3> QED BY <3>2, <3>3
  <2> QED BY <2>1, <2>2
<1> QED BY <1>4, <1>6 DEF LoneInv

\* A revision keeps its reservation and the tools of its workspace, whose erasure waits.
LEMMA UseStep ==
    ASSUME TypeOK, OwnerInv, ReservationInv, UseInv, [Next]_vars
    PROVE  UseInv'
<1> USE DEF Requests
<1>1. ASSUME NEW c \in Creations, phase[c] # "absent"
      PROVE  phase'[c] # "absent" /\ by'[c] = by[c] /\ ~Publish(c)
  <2>1. pc[c] = "done"
    BY <1>1 DEF OwnerInv
  <2> QED BY <1>1, <2>1, WorkspacesStep, MoveStep DEF WorkspaceMoves, RemoveFiles, Publish, Moves, TypeOK
<1>2. ASSUME NEW r \in Revisions, pc'[r] \in UsesWorkspace \cup {"looking"}
      PROVE  target'[r] \in Creations /\ phase'[target'[r]] # "absent" /\ by'[target'[r]] = by'[r]
  <2>1. /\ target'[r] = target[r] /\ by'[r] = by[r] /\ target[r] \in Creations
        /\ phase[target[r]] # "absent" /\ by[target[r]] = by[r]
    <3>1. CASE BeginRevise(r)
      BY <3>1 DEF BeginRevise, Move, OpenOf
    <3>2. CASE ~BeginRevise(r)
      <4>1. pc[r] \in UsesWorkspace \cup {"looking"}
        BY <1>2, <3>2, RevisionStep DEF RevisionMoves, StartRevise
      <4>2. target'[r] = target[r] /\ by'[r] = by[r]
        BY <4>1, RevisionStep, MoveStep DEF RevisionMoves, Moves, UsesWorkspace
      <4> QED BY <4>1, <4>2 DEF UseInv
    <3> QED BY <3>1, <3>2
  <2> QED BY <1>1, <2>1
<1>3. ASSUME NEW r \in Revisions, StartRevise(r)
      PROVE  /\ pc[r] = "looking" /\ r \in pending[by[r]] /\ by' = by /\ pending' = pending
             /\ phase' = phase /\ phase[target[r]] = "open" /\ target' = target
             /\ tool' = [tool EXCEPT ![target[r]] = r]
  BY <1>3 DEF StartRevise, ReservationInv, Underway
<1>4. ASSUME NEW r \in Revisions, pc'[r] \in UsesWorkspace
      PROVE  /\ r \in pending'[by'[r]] /\ tool'[target'[r]] = r
             /\ phase'[target'[r]] \in {"open", "closing"}
  <2>1. CASE StartRevise(r)
    <3>1. target[r] \in Creations
      BY <1>2, <1>3, <1>4, <2>1
    <3> QED BY <1>3, <2>1, <3>1 DEF TypeOK
  <2>2. CASE ~StartRevise(r)
    <3>1. pc[r] \in UsesWorkspace
      BY <1>4, <2>2, RevisionStep DEF RevisionMoves
    <3>2. /\ target[r] \in Creations /\ phase[target[r]] \in {"open", "closing"}
          /\ by[target[r]] = by[r] /\ r \in pending[by[r]] /\ tool[target[r]] = r
      BY <3>1 DEF UseInv
    <3>3. target'[r] = target[r] /\ by'[r] = by[r]
      BY <3>1, RevisionStep, MoveStep DEF RevisionMoves, Moves, UsesWorkspace
    <3>4. by[r] \in Owners
      BY <3>1 DEF OwnerInv, UsesWorkspace
    <3>5. r \in pending'[by'[r]]
      <4>1. ASSUME NEW e \in Endings PROVE r \notin Unstarted(e)
        BY <3>1 DEF Unstarted, StartedSteps, UsesWorkspace
      <4>2. pc'[r] # "done"
        BY <1>4 DEF UsesWorkspace
      <4> QED BY <3>2, <3>3, <3>4, <4>1, <4>2, PendingStep DEF PendingMoves
    <3>6. phase'[target[r]] \in {"open", "closing"}
      BY <1>1, <3>2, WorkspacesStep DEF WorkspaceMoves, RemoveFiles
    <3>7. ASSUME NEW q \in Revisions, StartRevise(q), target[q] = target[r] PROVE FALSE
      <4>1. by[q] = by[target[q]]
        BY <1>3, <3>7 DEF UseInv
      <4>2. q \in pending[by[r]] /\ pc[q] = "looking"
        BY <1>3, <3>2, <3>7, <4>1
      <4>3. q = r
        BY <3>2, <3>4, <4>2 DEF ReservationInv
      <4> QED BY <3>1, <4>2, <4>3 DEF UsesWorkspace
    <3>8. tool'[target[r]] = r
      BY <1>1, <3>2, <3>7, WorkspacesStep DEF WorkspaceMoves
    <3> QED BY <3>3, <3>5, <3>6, <3>8
  <2> QED BY <2>1, <2>2
<1> QED BY <1>2, <1>4 DEF UseInv

\* A generation starts reserved and keeps its reservation.
LEMMA GenerationStep ==
    ASSUME TypeOK, OwnerInv, ReservationInv, GenerationInv, [Next]_vars
    PROVE  GenerationInv'
<1> SUFFICES ASSUME NEW r \in Requests, pc'[r] = "generating"
             PROVE  r \in pending'[by'[r]]
  BY DEF GenerationInv
<1>1. pc[r] \in {"authorized", "generating"} /\ by[r] \in Owners /\ r \in pending[by[r]]
  BY MoveStep DEF Moves, OwnerInv, ReservationInv, Underway, GenerationInv
<1>2. by'[r] = by[r]
  BY <1>1, MoveStep DEF Moves
<1>3. ASSUME NEW e \in Endings PROVE r \notin Unstarted(e)
  BY <1>1 DEF Unstarted, StartedSteps
<1> QED BY <1>1, <1>2, <1>3, PendingStep DEF PendingMoves

\* The count of an owner is the number of the endings at its gate.
LEMMA GateStep ==
    ASSUME TypeOK, OwnerInv, GateInv, [Next]_vars
    PROVE  GateInv'
<1> SUFFICES ASSUME NEW o \in Owners
             PROVE  IsFiniteSet(AtGate(o)') /\ ending'[o] = Cardinality(AtGate(o)')
  BY DEF GateInv
<1>1. IsFiniteSet(AtGate(o)) /\ ending[o] = Cardinality(AtGate(o))
  BY DEF GateInv
<1>2. CASE \E e \in Endings : BeginEnding(e)
  <2>1. PICK e \in Endings : BeginEnding(e)
    BY <1>2
  <2>2. /\ epc[e] = "called" /\ epc' = [epc EXCEPT ![e] = "draining"] /\ eby' = eby
        /\ ending' = [ending EXCEPT ![eby[e]] = @ + 1]
    BY <2>1 DEF BeginEnding, GotoEnding
  <2>3. CASE eby[e] = o
    <3>1. AtGate(o)' = AtGate(o) \cup {e} /\ e \notin AtGate(o) /\ ending'[o] = ending[o] + 1
      BY <2>2, <2>3 DEF AtGate, TypeOK
    <3> QED BY <1>1, <3>1, FS_AddElement
  <2>4. CASE eby[e] # o
    <3>1. AtGate(o)' = AtGate(o) /\ ending'[o] = ending[o]
      BY <2>2, <2>4 DEF AtGate, TypeOK
    <3> QED BY <1>1, <3>1
  <2> QED BY <2>3, <2>4
<1>3. CASE \E e \in Endings : LeaveEnding(e)
  <2>1. PICK e \in Endings : LeaveEnding(e)
    BY <1>3
  <2>2. /\ epc[e] = "leaving" /\ epc' = [epc EXCEPT ![e] = "done"] /\ eby' = eby
        /\ ending' = [ending EXCEPT ![eby[e]] = @ - 1]
    BY <2>1 DEF LeaveEnding, GotoEnding
  <2>3. CASE eby[e] = o
    <3>1. AtGate(o)' = AtGate(o) \ {e} /\ e \in AtGate(o) /\ ending'[o] = ending[o] - 1
      BY <2>2, <2>3 DEF AtGate, TypeOK
    <3> QED BY <1>1, <3>1, FS_RemoveElement
  <2>4. CASE eby[e] # o
    <3>1. AtGate(o)' = AtGate(o) /\ ending'[o] = ending[o]
      BY <2>2, <2>4 DEF AtGate, TypeOK
    <3> QED BY <1>1, <3>1
  <2> QED BY <2>3, <2>4
<1>4. CASE ~ \E e \in Endings : BeginEnding(e) \/ LeaveEnding(e)
  <2>1. ending' = ending
    BY <1>4, CountStep DEF Counted
  <2>2. ASSUME NEW e \in Endings PROVE e \in AtGate(o)' <=> e \in AtGate(o)
    BY <1>4, EndingsStep DEF EndingMoves, AtGate, Drained, DisposedOwned, RevokeOwner, MoveEnding,
       GotoEnding, TypeOK
  <2>3. AtGate(o)' = AtGate(o)
    BY <2>2 DEF AtGate
  <2> QED BY <1>1, <2>1, <2>3
<1> QED BY <1>2, <1>3, <1>4

\* While an ending is at its gate, its owner's requests are cancelled, its generations end
\* and its workspaces go, in this order.
LEMMA DrainStep ==
    ASSUME TypeOK, OwnerInv, ReservationInv, GenerationInv, GateInv, DrainInv, [Next]_vars
    PROVE  DrainInv'
<1> DEFINE Gate == {"draining", "disposing", "revoking", "leaving"}
<1>1. ASSUME NEW e \in Endings, epc'[e] \in Gate
      PROVE  /\ eby'[e] = eby[e]
             /\ epc[e] \in Gate \/ BeginEnding(e)
  BY <1>1, EndingsStep DEF EndingMoves, BeginEnding, Drained, DisposedOwned, RevokeOwner, LeaveEnding
<1>2. ASSUME NEW e \in Endings, epc[e] \in Gate, NEW r \in Requests, Reserve(r) PROVE by[r] # eby[e]
  <2>1. by[r] \in Owners /\ ending[by[r]] = 0
    BY <1>2 DEF Reserve, OwnerInv
  <2>2. AtGate(by[r]) = {}
    BY <2>1, FS_EmptySet DEF GateInv
  <2> QED BY <1>2, <2>2 DEF AtGate
<1>3. ASSUME NEW e \in Endings, epc'[e] \in Gate, NEW r \in Requests, by'[r] = eby'[e], Underway(r)'
      PROVE  cancelled'[r]
  <2>1. CASE BeginEnding(e)
    BY <1>3, <2>1 DEF BeginEnding, ReservationInv, OwnerInv, Underway, TypeOK
  <2>2. CASE ~BeginEnding(e)
    <3>1. epc[e] \in Gate /\ eby'[e] = eby[e]
      BY <1>1, <1>3, <2>2
    <3>2. CASE Reserve(r)
      BY <1>2, <1>3, <3>1, <3>2 DEF Reserve
    <3>3. CASE ~Reserve(r)
      BY <1>3, <3>1, <3>3, MoveStep DEF Moves, DrainInv, Underway
    <3> QED BY <3>2, <3>3
  <2> QED BY <2>1, <2>2
<1>4. ASSUME NEW e \in Endings, epc[e] \in Gate, NEW r \in Requests, by'[r] = eby[e], pc'[r] = "generating"
      PROVE  by[r] = eby[e] /\ pc[r] = "generating"
  BY <1>4, MoveStep DEF Moves, DrainInv, Underway
<1>5. ASSUME NEW e \in Endings, epc'[e] = "draining",
             NEW r \in Requests, by'[r] = eby'[e], pc'[r] = "generating"
      PROVE  r \in waits'[e]
  <2>1. CASE BeginEnding(e)
    BY <1>5, <2>1 DEF BeginEnding, GenerationInv, StartedSteps, TypeOK
  <2>2. CASE ~BeginEnding(e)
    <3>1. epc[e] = "draining" /\ eby'[e] = eby[e] /\ waits'[e] = waits[e]
      BY <1>1, <1>5, <2>2, EndingsStep
         DEF EndingMoves, Drained, DisposedOwned, RevokeOwner, LeaveEnding, GotoEnding, MoveEnding, TypeOK
    <3> QED BY <1>4, <1>5, <3>1 DEF DrainInv
  <2> QED BY <2>1, <2>2
<1>6. ASSUME NEW e \in Endings, epc'[e] \in {"disposing", "revoking", "leaving"}
      PROVE  /\ eby'[e] = eby[e]
             /\ epc[e] \in {"disposing", "revoking", "leaving"} \/ Drained(e)
  BY <1>6, EndingsStep DEF EndingMoves, BeginEnding, GotoEnding, DisposedOwned, RevokeOwner, LeaveEnding, TypeOK
<1>7. ASSUME NEW e \in Endings, epc'[e] \in {"disposing", "revoking", "leaving"},
             NEW r \in Requests, by'[r] = eby'[e]
      PROVE  pc'[r] # "generating"
  <2>1. CASE Drained(e)
    <3>1. pc' = pc /\ by' = by /\ waits[e] \cap pending[eby[e]] = {} /\ epc[e] = "draining" /\ eby' = eby
      BY <2>1 DEF Drained
    <3> QED BY <1>7, <3>1 DEF DrainInv, GenerationInv
  <2>2. CASE ~Drained(e)
    BY <1>4, <1>6, <1>7, <2>2 DEF DrainInv
  <2> QED BY <2>1, <2>2
<1>8. ASSUME NEW e \in Endings, epc'[e] \in {"revoking", "leaving"}
      PROVE  /\ eby'[e] = eby[e]
             /\ epc[e] \in {"revoking", "leaving"} \/ DisposedOwned(e)
  BY <1>8, EndingsStep DEF EndingMoves, BeginEnding, GotoEnding, Drained, RevokeOwner, LeaveEnding, TypeOK
<1>9. ASSUME NEW e \in Endings, epc'[e] \in {"revoking", "leaving"},
             NEW c \in Creations, by'[c] = eby'[e]
      PROVE  phase'[c] # "open"
  <2>1. CASE DisposedOwned(e)
    BY <1>9, <2>1 DEF DisposedOwned, MoveEnding, OpenOf, requestVars, workspaceVars
  <2>2. CASE ~DisposedOwned(e)
    <3>1. epc[e] \in {"revoking", "leaving"} /\ eby'[e] = eby[e]
      BY <1>8, <1>9, <2>2
    <3>2. CASE Publish(c)
      BY <1>9, <3>1, <3>2 DEF Publish, DrainInv, Requests
    <3>3. CASE ~Publish(c)
      <4>1. ASSUME phase'[c] = "open" PROVE FALSE
        <5>1. phase[c] = "open"
          BY <3>3, <4>1, WorkspacesStep DEF WorkspaceMoves, RemoveFiles, TypeOK
        <5>2. by'[c] = by[c]
          BY <5>1, MoveStep DEF OwnerInv, Moves, Requests
        <5> QED BY <1>9, <3>1, <5>1, <5>2 DEF DrainInv
      <4> QED BY <4>1
    <3> QED BY <3>2, <3>3
  <2> QED BY <2>1, <2>2
<1> QED BY <1>3, <1>5, <1>7, <1>9 DEF DrainInv

\* Once its session is revoked and its endings have returned, nothing of an owner comes back.
LEMMA RevokedStep ==
    ASSUME TypeOK, OwnerInv, ReservationInv, GenerationInv, GateInv, DrainInv, RevokedInv, [Next]_vars
    PROVE  RevokedInv'
<1> DEFINE Begun == {"draining", "disposing", "revoking", "leaving", "done"}
           Drains == {"disposing", "revoking", "leaving", "done"}
           Cleared == {"revoking", "leaving", "done"}
<1> SUFFICES ASSUME NEW o \in Owners
             PROVE  /\ Revoked(o, Begun)' =>
                         \A r \in Requests : by'[r] = o /\ ~cancelled'[r] =>
                           /\ pc'[r] # "generating"
                           /\ pc'[r] \in {"authorized", "rechecked"} => ~authorized'[r]
                    /\ Revoked(o, Drains)' => \A r \in Requests : by'[r] = o => pc'[r] # "generating"
                    /\ Revoked(o, Cleared)' => \A c \in Creations : by'[c] = o => phase'[c] # "open"
  BY DEF RevokedInv
<1>1. CASE live[o] /\ ~live'[o]
  <2>1. ASSUME NEW e \in Endings, Revoke(e, o)
        PROVE  ~Revoked(o, Begun)' /\ ~Revoked(o, Drains)' /\ ~Revoked(o, Cleared)'
    <3>1. eby'[e] = o /\ epc'[e] = "called"
      BY <2>1 DEF Revoke, GotoEnding, TypeOK
    <3> QED BY <3>1 DEF Revoked
  <2>2. ASSUME NEW e \in Endings, RevokeOwner(e), eby[e] = o
        PROVE  /\ \A r \in Requests : by'[r] = o => pc'[r] # "generating" /\ (Underway(r)' => cancelled'[r])
               /\ \A c \in Creations : by'[c] = o => phase'[c] # "open"
    BY <2>2 DEF RevokeOwner, DrainInv, requestVars, workspaceVars, Underway
  <2>3. \/ \E e \in Endings : Revoke(e, o)
        \/ \E e \in Endings : RevokeOwner(e) /\ eby[e] = o
    BY <1>1, LiveStep DEF LiveMoves
  <2> QED BY <2>1, <2>2, <2>3 DEF Underway
<1>2. CASE ~live[o]
  <2>1. ASSUME NEW e \in Endings PROVE eby'[e] = o <=> eby[e] = o
    BY <1>2, ProcessesAreDistinct, EndingsStep DEF EndingMoves, OwnerInv, TypeOK
  <2>2. ASSUME NEW r \in Requests, by'[r] = o, pc'[r] \notin {"idle", "identified", "done"} PROVE by[r] = o
    BY <2>2, MoveStep DEF Moves
  <2>3. ASSUME NEW c \in Creations, phase'[c] = "open" PROVE by'[c] = by[c] /\ (phase[c] = "open" \/ Publish(c))
    <3>1. CASE Publish(c)
      BY <3>1 DEF Publish
    <3>2. CASE ~Publish(c)
      BY <2>3, <3>2, WorkspacesStep, MoveStep DEF WorkspaceMoves, RemoveFiles, OwnerInv, Moves, TypeOK, Requests
    <3> QED BY <3>1, <3>2
  <2>4. ASSUME Revoked(o, Begun)', NEW r \in Requests, by'[r] = o, ~cancelled'[r]
        PROVE  /\ pc'[r] # "generating"
               /\ pc'[r] \in {"authorized", "rechecked"} => ~authorized'[r]
    <3>1. CASE \E e \in Endings : BeginEnding(e) /\ eby[e] = o
      <4>1. PICK e \in Endings : BeginEnding(e) /\ eby[e] = o
        BY <3>1
      <4>2. pc' = pc /\ by' = by /\ cancelled' = [q \in Requests |-> cancelled[q] \/ q \in pending[o]]
        BY <4>1 DEF BeginEnding
      <4>3. ~cancelled[r] /\ r \notin pending[o]
        BY <2>4, <4>2
      <4> QED BY <2>4, <4>2, <4>3 DEF ReservationInv, Underway
    <3>2. CASE ~ \E e \in Endings : BeginEnding(e) /\ eby[e] = o
      <4>1. ASSUME NEW e \in Endings, eby[e] = o PROVE epc[e] \in Begun
        <5>1. epc'[e] \in Begun
          BY <2>1, <2>4, <4>1 DEF Revoked
        <5> QED
          BY <3>2, <4>1, <5>1, EndingsStep
             DEF EndingMoves, Drained, DisposedOwned, RevokeOwner, LeaveEnding
      <4>2. Revoked(o, Begun)
        BY <1>2, <2>1, <2>4, <4>1 DEF Revoked
      <4>3. \A q \in Requests : by[q] = o /\ ~cancelled[q] =>
              pc[q] # "generating" /\ (pc[q] \in {"authorized", "rechecked"} => ~authorized[q])
        BY <4>2 DEF RevokedInv
      <4>4. ~cancelled[r] /\ live[o] = FALSE
        BY <1>2, <2>4, MoveStep DEF Moves, TypeOK
      <4> QED BY <2>2, <2>4, <4>3, <4>4, MoveStep DEF Moves
    <3> QED BY <3>1, <3>2
  <2>5. ASSUME Revoked(o, Drains)', NEW r \in Requests, by'[r] = o PROVE pc'[r] # "generating"
    <3>1. CASE \E e \in Endings : Drained(e) /\ eby[e] = o
      <4>1. PICK e \in Endings : Drained(e) /\ eby[e] = o
        BY <3>1
      <4>2. epc'[e] = "disposing" /\ eby'[e] = o
        BY <4>1 DEF Drained, GotoEnding, TypeOK
      <4> QED BY <2>5, <4>2, DrainStep DEF DrainInv
    <3>2. CASE ~ \E e \in Endings : Drained(e) /\ eby[e] = o
      <4>1. ASSUME NEW e \in Endings, eby[e] = o PROVE epc[e] \in Drains
        <5>1. epc'[e] \in Drains
          BY <2>1, <2>5, <4>1 DEF Revoked
        <5> QED
          BY <3>2, <4>1, <5>1, EndingsStep
             DEF EndingMoves, BeginEnding, GotoEnding, DisposedOwned, RevokeOwner, LeaveEnding, TypeOK
      <4>2. Revoked(o, Begun) /\ Revoked(o, Drains)
        BY <1>2, <2>1, <2>5, <4>1 DEF Revoked
      <4>3. \A q \in Requests : by[q] = o =>
              pc[q] # "generating" /\ (pc[q] = "authorized" /\ ~cancelled[q] => ~authorized[q])
        BY <4>2 DEF RevokedInv
      <4> QED BY <2>2, <2>5, <4>3, MoveStep DEF Moves
    <3> QED BY <3>1, <3>2
  <2>6. ASSUME Revoked(o, Cleared)', NEW c \in Creations, by'[c] = o PROVE phase'[c] # "open"
    <3>1. CASE \E e \in Endings : DisposedOwned(e) /\ eby[e] = o
      <4>1. PICK e \in Endings : DisposedOwned(e) /\ eby[e] = o
        BY <3>1
      <4>2. epc'[e] \in {"revoking", "leaving"} /\ eby'[e] = o
        BY <4>1 DEF DisposedOwned, MoveEnding, GotoEnding, TypeOK
      <4> QED BY <2>6, <4>2, DrainStep DEF DrainInv
    <3>2. CASE ~ \E e \in Endings : DisposedOwned(e) /\ eby[e] = o
      <4>1. ASSUME NEW e \in Endings, eby[e] = o PROVE epc[e] \in Cleared
        <5>1. epc'[e] \in Cleared
          BY <2>1, <2>6, <4>1 DEF Revoked
        <5> QED
          BY <3>2, <4>1, <5>1, EndingsStep
             DEF EndingMoves, BeginEnding, GotoEnding, Drained, RevokeOwner, LeaveEnding, TypeOK
      <4>2. Revoked(o, Drains) /\ Revoked(o, Cleared)
        BY <1>2, <2>1, <2>6, <4>1 DEF Revoked
      <4>3. /\ \A q \in Requests : by[q] = o => pc[q] # "generating"
            /\ \A d \in Creations : by[d] = o => phase[d] # "open"
        BY <4>2 DEF RevokedInv
      <4> QED BY <2>3, <2>6, <4>3 DEF Publish, Requests
    <3> QED BY <3>1, <3>2
  <2> QED BY <2>4, <2>5, <2>6
<1>3. CASE live'[o]
  BY <1>3 DEF Revoked
<1> QED BY <1>1, <1>2, <1>3

\* A directory comes with a generation and goes with it or with its workspace.
LEMMA FilesStep ==
    ASSUME TypeOK, NoStrayFiles, [Next]_vars
    PROVE  NoStrayFiles'
<1> SUFFICES ASSUME NEW c \in Creations \ Stuck, files'[c]
             PROVE  pc'[c] \in {"generating", "failing"} \/ phase'[c] \in {"open", "closing", "erasing"}
  BY DEF NoStrayFiles
<1>1. CASE OpenWorkspace(c)
  BY <1>1 DEF OpenWorkspace, Goto, TypeOK, Requests
<1>2. CASE Publish(c)
  BY <1>2 DEF Publish, TypeOK
<1>3. CASE ~OpenWorkspace(c) /\ ~Publish(c)
  <2>1. files[c]
    BY <1>3, WorkspacesStep DEF WorkspaceMoves
  <2>2. ~CleanUp(c) /\ ~RemoveFiles(c)
    BY DEF CleanUp, RemoveFiles, TypeOK
  <2>3. CASE pc[c] \in {"generating", "failing"}
    BY <1>3, <2>2, <2>3, CreationStep DEF CreationMoves
  <2>4. CASE phase[c] \in {"open", "closing", "erasing"}
    BY <1>3, <2>2, <2>4, WorkspacesStep DEF WorkspaceMoves
  <2> QED BY <2>1, <2>3, <2>4 DEF NoStrayFiles
<1> QED BY <1>1, <1>2, <1>3

(***************************************************************************)
(* Theorems                                                                *)
(***************************************************************************)

\* All parts of the invariant hold in every state of every behaviour.
LEMMA Invariant == Spec => []IndInv
<1>1. Init => IndInv
  <2> SUFFICES ASSUME Init PROVE IndInv
    OBVIOUS
  <2> USE DEF Init
  <2>1. TypeOK
    BY DEF TypeOK, Steps, EndingSteps, Phases
  <2>2. OwnerInv /\ ReservationInv /\ LoneInv /\ GenerationInv
    BY DEF OwnerInv, ReservationInv, Underway, LoneInv, GenerationInv, Requests
  <2>3. UseInv
    BY DEF UseInv, UsesWorkspace, Requests
  <2>4. GateInv
    <3>1. ASSUME NEW o \in Owners PROVE AtGate(o) = {} /\ ending[o] = 0
      BY DEF AtGate
    <3> QED BY <3>1, FS_EmptySet DEF GateInv
  <2>5. DrainInv /\ RevokedInv /\ NoStrayFiles
    BY DEF DrainInv, RevokedInv, Revoked, NoStrayFiles
  <2> QED BY <2>1, <2>2, <2>3, <2>4, <2>5 DEF IndInv
<1>2. IndInv /\ [Next]_vars => IndInv'
  BY TypeStep, OwnerStep, ReservationStep, LoneStep, UseStep, GenerationStep, GateStep, DrainStep,
     RevokedStep, FilesStep DEF IndInv
<1> QED BY <1>1, <1>2, PTL DEF Spec

\* The state has its types in every state of every behaviour.
THEOREM TypesHold == Spec => []TypeOK
<1>1. IndInv => TypeOK
  BY DEF IndInv
<1> QED BY <1>1, Invariant, PTL

\* An authentication session never has two workspaces, although create() looks for another
\* one long before it publishes its own.
THEOREM OneWorkspaceHolds == Spec => []OneWorkspace
<1>1. IndInv => OneWorkspace
  <2> SUFFICES ASSUME IndInv, NEW o \in Owners PROVE Cardinality(OpenOf(o)) <= 1
    BY DEF OneWorkspace
  <2>1. CASE OpenOf(o) = {}
    BY <2>1, FS_EmptySet
  <2>2. CASE OpenOf(o) # {}
    <3>1. PICK c \in OpenOf(o) : TRUE
      BY <2>2
    <3>2. OpenOf(o) = {c}
      BY <3>1 DEF OpenOf, IndInv, LoneInv
    <3>3. IsFiniteSet({c}) /\ Cardinality({c}) = 1
      BY FS_Singleton
    <3> QED BY <3>2, <3>3
  <2> QED BY <2>1, <2>2
<1> QED BY <1>1, Invariant, PTL

\* A revision never works on a document that dispose() has erased.
THEOREM ErasedUnusedHolds == Spec => []ErasedUnused
<1>1. IndInv => ErasedUnused
  BY DEF IndInv, UseInv, ErasedUnused
<1> QED BY <1>1, Invariant, PTL

\* After a session is revoked and its endings have returned, no workspace of it is open and
\* no generation of it goes on.
THEOREM NothingAfterEndHolds == Spec => []NothingAfterEnd
<1>1. IndInv => NothingAfterEnd
  <2> SUFFICES ASSUME IndInv, NEW o \in Owners, Ended(o)
               PROVE  /\ OpenOf(o) = {}
                      /\ \A r \in Requests : by[r] = o => pc[r] # "generating"
    BY DEF NothingAfterEnd
  <2>1. /\ Revoked(o, {"disposing", "revoking", "leaving", "done"})
        /\ Revoked(o, {"revoking", "leaving", "done"})
    BY DEF Ended, Revoked
  <2> QED BY <2>1 DEF IndInv, RevokedInv, OpenOf
<1> QED BY <1>1, Invariant, PTL

\* No workspace appears and no document is replaced while any ending of the owner runs.
THEOREM NothingWhileEndingHolds == Spec => NothingWhileEnding
<1>1. IndInv /\ [Next]_vars =>
        [/\ \A c \in Creations : Publish(c) => ~BeingEnded(by[c])
         /\ \A r \in Revisions : CommitRevision(r) => ~BeingEnded(by[r])]_vars
  <2> SUFFICES ASSUME IndInv
               PROVE  /\ \A c \in Creations : Publish(c) => ~BeingEnded(by[c])
                      /\ \A r \in Revisions : CommitRevision(r) => ~BeingEnded(by[r])
    OBVIOUS
  <2>1. ASSUME NEW r \in Requests, Underway(r), ~cancelled[r] PROVE ~BeingEnded(by[r])
    BY <2>1 DEF BeingEnded, IndInv, DrainInv
  <2> QED BY <2>1 DEF Publish, CommitRevision, Current, Underway, Requests
<1> QED BY <1>1, Invariant, PTL DEF Spec, NothingWhileEnding

\* Temporary directories exist for generations that go on and workspaces not yet disposed of.
THEOREM NoStrayFilesHolds == Spec => []NoStrayFiles
<1>1. IndInv => NoStrayFiles
  BY DEF IndInv
<1> QED BY <1>1, Invariant, PTL
================================================================================
