--------------------------- MODULE AuthoringSessions ---------------------------
(***************************************************************************)
(* The AI authoring workspaces of one server process.                      *)
(*                                                                         *)
(* AiAuthoringSessions keeps everything in memory: a Map of workspaces, a  *)
(* Set of reserved requests per browser session ("owner") and the owners   *)
(* whose session is being ended.  Nothing else serialises the requests, so *)
(* a step here is the code a request runs between two awaits, and any      *)
(* other request, sign-out or timer runs in between.                       *)
(*                                                                         *)
(* A workspace is named by the request that creates it.  dispose() runs at *)
(* most once for a workspace, because it removes the entry first; it is    *)
(* therefore a phase of the workspace, and its caller waits for the phase. *)
(***************************************************************************)
EXTENDS Integers, FiniteSets

CONSTANTS Owners,      \* browser sessions of administrators
          Creations,   \* requests POST /sessions, and the workspaces they make
          Revisions,   \* requests POST /sessions/:id/revisions
          SignOuts,    \* sign-outs, each ends one owner and then revokes it
          Revocations, \* changes of an account that revoke an owner and then end it
          Stuck,       \* workspaces whose directory rm() may fail to remove
          Crowds,      \* per initial state, the requests, sign-outs and changes made
          None

ASSUME ProcessesAreDistinct ==
  /\ Creations \cap Revisions = {}
  /\ SignOuts \cap Revocations = {}
  /\ None \notin Owners \cup Creations \cup Revisions
  /\ Stuck \subseteq Creations

VARIABLES live,       \* the owner's row in "session" exists and is usable
          pc,         \* where a request stands
          by,         \* the owner a request was authenticated as
          target,     \* the workspace a request works on or waits for
          authorized, \* the last answer of isOwnerSessionCurrent to a request
          cancelled,  \* PendingGeneration.cancelled
          pending,    \* pendingGenerations: the reserved requests of an owner
          phase,      \* where a workspace stands: absent, open, closing, erasing or gone
          tool,       \* toolState.pending of a workspace
          idle,       \* two hours passed since lastActivity
          files,      \* the temporary directory of a workspace exists
          ending,     \* endingOwnerSessionCounts
          epc,        \* where an ending stands
          eby,        \* the owner it ends
          drains,     \* the reserved requests it found
          waits,      \* those of them it waits for
          disposes    \* the workspace it is disposing of

requestVars == <<pc, by, target, authorized, cancelled, pending>>
workspaceVars == <<phase, tool, idle, files>>
endingVars == <<ending, epc, eby, drains, waits, disposes>>
vars == <<live, requestVars, workspaceVars, endingVars>>

Requests == Creations \cup Revisions
Endings == SignOuts \cup Revocations

\* The steps at which a request has set pending.started.
StartedSteps == {"authorizing", "authorized", "generating", "rechecking", "rechecked",
                 "failing"}

Init ==
  /\ live = [o \in Owners |-> TRUE]
  /\ \E crowd \in Crowds :
       /\ pc = [r \in Requests |-> IF r \in crowd THEN "idle" ELSE "done"]
       /\ epc = [e \in Endings |-> IF e \in crowd THEN "idle" ELSE "done"]
  /\ by = [r \in Requests |-> None]
  /\ target = [r \in Requests |-> None]
  /\ authorized = [r \in Requests |-> FALSE]
  /\ cancelled = [r \in Requests |-> FALSE]
  /\ pending = [o \in Owners |-> {}]
  /\ phase = [c \in Creations |-> "absent"]
  /\ tool = [c \in Creations |-> None]
  /\ idle = [c \in Creations |-> FALSE]
  /\ files = [c \in Creations |-> FALSE]
  /\ ending = [o \in Owners |-> 0]
  /\ eby = [e \in Endings |-> None]
  /\ drains = [e \in Endings |-> {}]
  /\ waits = [e \in Endings |-> {}]
  /\ disposes = [e \in Endings |-> None]

-----------------------------------------------------------------------------
(* What several steps share                                                *)

Goto(r, step) == pc' = [pc EXCEPT ![r] = step]
GotoEnding(e, step) == epc' = [epc EXCEPT ![e] = step]

\* finishPending: the request leaves pendingGenerations and its done promise
\* resolves.  A second call finds nothing to remove.
FinishPending(r) == pending' = [pending EXCEPT ![by[r]] = @ \ {r}]

\* The route's finally block after a request that was refused or has failed.
Release(r) == Goto(r, "done") /\ FinishPending(r)

\* Steps that change nothing else.
Move(r, step) ==
  /\ Goto(r, step)
  /\ UNCHANGED <<live, by, target, authorized, cancelled, pending, workspaceVars,
                 endingVars>>

Answer(r) ==
  /\ Release(r)
  /\ UNCHANGED <<live, by, target, authorized, cancelled, workspaceVars, endingVars>>

MoveEnding(e, step) ==
  /\ GotoEnding(e, step)
  /\ UNCHANGED <<live, requestVars, workspaceVars, ending, eby, drains, waits, disposes>>

\* The workspaces of an owner that are still in the sessions map.
OpenOf(o) == {c \in Creations : phase[c] = "open" /\ by[c] = o}

\* pendingFor: the reservation still stands and its owner is not being ended.
Reserved(r) == r \in pending[by[r]] /\ ~cancelled[r] /\ ending[by[r]] = 0

\* The synchronous part of dispose(): the entry leaves the map and the
\* generation that works on the workspace, if there is one, is cancelled.
Dispose(c) ==
  /\ phase' = [phase EXCEPT ![c] = "closing"]
  /\ cancelled' = IF tool[c] \in pending[by[c]]
                  THEN [cancelled EXCEPT ![tool[c]] = TRUE]
                  ELSE cancelled

\* assertRevisionCurrent
Current(r) ==
  /\ ~cancelled[r]
  /\ phase[target[r]] = "open"
  /\ ~idle[target[r]]
  /\ authorized[r]

-----------------------------------------------------------------------------
(* Requests                                                                *)

\* requireIdentity answers; a revision names a workspace the client has seen.
Identify(r, o) ==
  /\ pc[r] = "idle" /\ live[o]
  /\ by' = [by EXCEPT ![r] = o]
  /\ \/ r \in Creations /\ UNCHANGED target
     \/ /\ r \in Revisions
        /\ \E c \in Creations : /\ phase[c] # "absent"
                                /\ target' = [target EXCEPT ![r] = c]
  /\ Goto(r, "identified")
  /\ UNCHANGED <<live, authorized, cancelled, pending, workspaceVars, endingVars>>

\* Mutant of Reserve: a second request of the owner is let in.
ReserveAnyway(r) ==
  /\ pc[r] = "identified" /\ ending[by[r]] = 0
  /\ pending' = [pending EXCEPT ![by[r]] = @ \cup {r}]
  /\ Goto(r, "reserved")
  /\ UNCHANGED <<live, by, target, authorized, cancelled, workspaceVars, endingVars>>

\* reserveRequest: one request at a time for an owner that is not being ended.
Reserve(r) ==
  /\ pc[r] = "identified" /\ ending[by[r]] = 0 /\ pending[by[r]] = {}
  /\ pending' = [pending EXCEPT ![by[r]] = {r}]
  /\ Goto(r, "reserved")
  /\ UNCHANGED <<live, by, target, authorized, cancelled, workspaceVars, endingVars>>

\* reserveRequest throws not_found or conflict.
RefuseReservation(r) ==
  /\ pc[r] = "identified"
  /\ ending[by[r]] > 0 \/ pending[by[r]] # {}
  /\ Move(r, "done")

\* The body has been read.  create() and revise() refuse when the reservation
\* was withdrawn meanwhile, and so does an unusable body.
RefuseRequest(r) ==
  /\ pc[r] = "reserved"
  /\ Answer(r)

\* create() passes pendingFor and the checks of its input.
BeginCreate(c) ==
  /\ pc[c] = "reserved" /\ Reserved(c)
  /\ Move(c, "clearing")

\* ensureNoActiveSession disposes of a workspace that has expired ...
ClearExpired(c) ==
  /\ pc[c] = "clearing"
  /\ \E w \in OpenOf(by[c]) : /\ idle[w]
                              /\ Dispose(w)
                              /\ target' = [target EXCEPT ![c] = w]
  /\ Goto(c, "disposing")
  /\ UNCHANGED <<live, by, authorized, pending, tool, idle, files, endingVars>>

\* ... and looks again when that is done ...
ClearedExpired(c) ==
  /\ pc[c] = "disposing" /\ phase[target[c]] = "gone"
  /\ Move(c, "clearing")

\* ... refuses a second workspace ...
RefuseSecond(c) ==
  /\ pc[c] = "clearing"
  /\ \E w \in OpenOf(by[c]) : ~idle[w]
  /\ Answer(c)

\* ... or lets the generation start.  A cancellation that arrived during the
\* loop is only noticed after the next await.
StartCreate(c) ==
  /\ pc[c] = "clearing" /\ OpenOf(by[c]) = {}
  /\ Move(c, "authorizing")

\* Mutant of QueryOwner: the authentication of the request is trusted.
QueryNothing(r) ==
  /\ pc[r] \in {"authorizing", "rechecking"}
  /\ authorized' = [authorized EXCEPT ![r] = TRUE]
  /\ Goto(r, IF pc[r] = "authorizing" THEN "authorized" ELSE "rechecked")
  /\ UNCHANGED <<live, by, target, cancelled, pending, workspaceVars, endingVars>>

\* isOwnerSessionCurrent reads the session row; the request uses the answer
\* in a later step.
QueryOwner(r) ==
  /\ pc[r] \in {"authorizing", "rechecking"}
  /\ authorized' = [authorized EXCEPT ![r] = live[by[r]]]
  /\ Goto(r, IF pc[r] = "authorizing" THEN "authorized" ELSE "rechecked")
  /\ UNCHANGED <<live, by, target, cancelled, pending, workspaceVars, endingVars>>

\* mkdtemp, and everything of create() that waits for the agent from there on.
OpenWorkspace(c) ==
  /\ pc[c] = "authorized" /\ authorized[c] /\ ~cancelled[c]
  /\ files' = [files EXCEPT ![c] = TRUE]
  /\ Goto(c, "generating")
  /\ UNCHANGED <<live, by, target, authorized, cancelled, pending, phase, tool, idle,
                 endingVars>>

\* The agent made a valid document and create() was not cancelled: from here
\* on the workspace is in the map.
Publish(c) ==
  /\ pc[c] = "generating" /\ ~cancelled[c]
  /\ phase' = [phase EXCEPT ![c] = "open"]
  /\ tool' = [tool EXCEPT ![c] = c]
  /\ idle' = [idle EXCEPT ![c] = FALSE]
  /\ Release(c)
  /\ UNCHANGED <<live, by, target, authorized, cancelled, files, endingVars>>

\* create() throws: cancelled, the owner is gone or the query failed, or mkdtemp
\* or the agent failed.
FailCreate(c) ==
  /\ pc[c] \in {"authorizing", "authorized", "generating"}
  /\ Move(c, "failing")

\* Mutant of CleanUp: a cancelled generation leaves its directory to dispose().
CleanUpUnlessCancelled(c) ==
  /\ pc[c] = "failing"
  /\ files' = [files EXCEPT ![c] = cancelled[c] /\ @]
  /\ Release(c)
  /\ UNCHANGED <<live, by, target, authorized, cancelled, phase, tool, idle, endingVars>>

\* The catch and finally blocks of create().
CleanUp(c) ==
  /\ pc[c] = "failing"
  /\ \/ files' = [files EXCEPT ![c] = FALSE]
     \/ c \in Stuck /\ UNCHANGED files
  /\ Release(c)
  /\ UNCHANGED <<live, by, target, authorized, cancelled, phase, tool, idle, endingVars>>

\* revise() passes pendingFor and sessionFor finds a workspace in use.
BeginRevise(r) ==
  /\ pc[r] = "reserved" /\ Reserved(r)
  /\ target[r] \in OpenOf(by[r]) /\ ~idle[target[r]]
  /\ Move(r, "looking")

\* sessionFor disposes of an expired workspace before it answers not_found.
ReviseExpired(r) ==
  /\ pc[r] = "reserved" /\ Reserved(r)
  /\ target[r] \in OpenOf(by[r]) /\ idle[target[r]]
  /\ Dispose(target[r])
  /\ Goto(r, "disposing")
  /\ UNCHANGED <<live, by, target, authorized, pending, tool, idle, files, endingVars>>

ReviseFoundNothing(r) ==
  /\ pc[r] = "disposing" /\ phase[target[r]] = "gone"
  /\ Answer(r)

\* Back from sessionFor: the workspace may have been disposed of meanwhile.
StartRevise(r) ==
  /\ pc[r] = "looking" /\ ~cancelled[r] /\ phase[target[r]] = "open"
  /\ tool' = [tool EXCEPT ![target[r]] = r]
  /\ Goto(r, "authorizing")
  /\ UNCHANGED <<live, by, target, authorized, cancelled, pending, phase, idle, files,
                 endingVars>>

GenerateRevision(r) ==
  /\ pc[r] = "authorized" /\ Current(r)
  /\ Move(r, "generating")

\* The agent's turn ended well; the owner is asked about once more.
RevisionGenerated(r) ==
  /\ pc[r] = "generating"
  /\ Move(r, "rechecking")

\* The new document replaces the old one, which is erased; touch().
CommitRevision(r) ==
  /\ pc[r] = "rechecked" /\ Current(r)
  /\ idle' = [idle EXCEPT ![target[r]] = FALSE]
  /\ Release(r)
  /\ UNCHANGED <<live, by, target, authorized, cancelled, phase, tool, files, endingVars>>

\* revise() throws: a query or the agent failed, there is no valid document, or
\* the revision is not current.  Its catch and finally blocks wait for nothing.
FailRevise(r) ==
  /\ \/ pc[r] \in {"looking", "authorizing", "generating", "rechecking", "rechecked"}
     \/ pc[r] = "authorized" /\ ~Current(r)
  /\ Answer(r)

-----------------------------------------------------------------------------
(* Workspaces                                                              *)

\* Two hours without touch().
GrowIdle(c) ==
  /\ phase[c] = "open" /\ ~idle[c]
  /\ idle' = [idle EXCEPT ![c] = TRUE]
  /\ UNCHANGED <<live, requestVars, phase, tool, files, endingVars>>

\* The expiry timer, or a request for the document, the current workspace or
\* its end that finds it expired.
Expire(c) ==
  /\ phase[c] = "open" /\ idle[c]
  /\ Dispose(c)
  /\ UNCHANGED <<live, pc, by, target, authorized, pending, tool, idle, files, endingVars>>

\* DELETE /sessions/:id
End(c) ==
  /\ phase[c] = "open"
  /\ Dispose(c)
  /\ UNCHANGED <<live, pc, by, target, authorized, pending, tool, idle, files, endingVars>>

\* Mutant of EraseDocument: dispose() does not wait for pending.done.
EraseAtOnce(c) ==
  /\ phase[c] = "closing"
  /\ phase' = [phase EXCEPT ![c] = "erasing"]
  /\ UNCHANGED <<live, requestVars, tool, idle, files, endingVars>>

\* dispose() goes on once the generation is done: the document, the source PDF
\* and the turns are erased and the agent session is disposed of.
EraseDocument(c) ==
  /\ phase[c] = "closing" /\ tool[c] \notin pending[by[c]]
  /\ phase' = [phase EXCEPT ![c] = "erasing"]
  /\ UNCHANGED <<live, requestVars, tool, idle, files, endingVars>>

\* Mutant of RemoveFiles: only the entry is removed.
KeepFiles(c) ==
  /\ phase[c] = "erasing"
  /\ phase' = [phase EXCEPT ![c] = "gone"]
  /\ UNCHANGED <<live, requestVars, tool, idle, files, endingVars>>

\* The last await of dispose().
RemoveFiles(c) ==
  /\ phase[c] = "erasing"
  /\ phase' = [phase EXCEPT ![c] = "gone"]
  /\ \/ files' = [files EXCEPT ![c] = FALSE]
     \/ c \in Stuck /\ UNCHANGED files
  /\ UNCHANGED <<live, requestVars, tool, idle, endingVars>>

-----------------------------------------------------------------------------
(* Endings                                                                 *)

\* A sign-out, or a sign-in over an older session, ends the owner's work first
\* and revokes its session last.
SignOut(e, o) ==
  /\ epc[e] = "idle" /\ live[o]
  /\ eby' = [eby EXCEPT ![e] = o]
  /\ GotoEnding(e, "called")
  /\ UNCHANGED <<live, requestVars, workspaceVars, ending, drains, waits, disposes>>

\* Disabling, demoting or deleting an administrator, or changing an email
\* address or a password, first deletes the session rows in a transaction.
Revoke(e, o) ==
  /\ epc[e] = "idle" /\ live[o]
  /\ live' = [live EXCEPT ![o] = FALSE]
  /\ eby' = [eby EXCEPT ![e] = o]
  /\ GotoEnding(e, "called")
  /\ UNCHANGED <<requestVars, workspaceVars, ending, drains, waits, disposes>>

\* endForSession closes the gate and cancels every reserved request.
BeginEnding(e) ==
  /\ epc[e] = "called"
  /\ LET o == eby[e] IN
     /\ ending' = [ending EXCEPT ![o] = @ + 1]
     /\ cancelled' = [r \in Requests |-> cancelled[r] \/ r \in pending[o]]
     /\ drains' = [drains EXCEPT ![e] = pending[o]]
     /\ waits' = [waits EXCEPT ![e] = {r \in pending[o] : pc[r] \in StartedSteps}]
  /\ GotoEnding(e, "draining")
  /\ UNCHANGED <<live, pc, by, target, authorized, pending, workspaceVars, eby, disposes>>

\* The reservations of the requests that have not started when the wait ends.
Unstarted(e) == {r \in drains[e] : pc[r] \notin StartedSteps}

\* Mutant of Drained: it waits for the requests that have not started, too.
DrainedByAll(e) ==
  /\ epc[e] = "draining" /\ drains[e] \cap pending[eby[e]] = {}
  /\ MoveEnding(e, "disposing")

\* The generations that had started are done; the reservations that have not
\* started even now are withdrawn.
Drained(e) ==
  /\ epc[e] = "draining" /\ waits[e] \cap pending[eby[e]] = {}
  /\ pending' = [pending EXCEPT ![eby[e]] = @ \ Unstarted(e)]
  /\ GotoEnding(e, "disposing")
  /\ UNCHANGED <<live, pc, by, target, authorized, cancelled, workspaceVars, ending, eby,
                 drains, waits, disposes>>

\* The dispose() this ending waits for has come to its end.
Disposed(e) == disposes[e] # None => phase[disposes[e]] = "gone"

\* The workspaces of the owner are disposed of one after the other.
DisposeOwned(e) ==
  /\ epc[e] = "disposing" /\ Disposed(e)
  /\ \E c \in OpenOf(eby[e]) : /\ Dispose(c)
                              /\ disposes' = [disposes EXCEPT ![e] = c]
  /\ UNCHANGED <<live, pc, by, target, authorized, pending, tool, idle, files, ending,
                 epc, eby, drains, waits>>

DisposedOwned(e) ==
  /\ epc[e] = "disposing" /\ Disposed(e) /\ OpenOf(eby[e]) = {}
  /\ MoveEnding(e, IF e \in SignOuts THEN "revoking" ELSE "leaving")

\* revokeOwnerSession deletes the session row, or the database refuses.
RevokeOwner(e) ==
  /\ epc[e] = "revoking"
  /\ \/ live' = [live EXCEPT ![eby[e]] = FALSE]
     \/ UNCHANGED live
  /\ GotoEnding(e, "leaving")
  /\ UNCHANGED <<requestVars, workspaceVars, ending, eby, drains, waits, disposes>>

\* Mutant of LeaveEnding: the first ending opens the gate for the others.
LeaveAtOnce(e) ==
  /\ epc[e] = "leaving"
  /\ ending' = [ending EXCEPT ![eby[e]] = 0]
  /\ GotoEnding(e, "done")
  /\ UNCHANGED <<live, requestVars, workspaceVars, eby, drains, waits, disposes>>

\* The finally block: the last ending of an owner opens the gate again.
LeaveEnding(e) ==
  /\ epc[e] = "leaving"
  /\ ending' = [ending EXCEPT ![eby[e]] = @ - 1]
  /\ GotoEnding(e, "done")
  /\ UNCHANGED <<live, requestVars, workspaceVars, eby, drains, waits, disposes>>

-----------------------------------------------------------------------------
(* The server                                                              *)

\* What a request does once it has its reservation and its input.
CreateStep(c) ==
  \/ ClearExpired(c) \/ ClearedExpired(c) \/ RefuseSecond(c) \/ StartCreate(c)
  \/ QueryOwner(c) \/ OpenWorkspace(c) \/ Publish(c) \/ FailCreate(c) \/ CleanUp(c)

ReviseStep(r) ==
  \/ ReviseFoundNothing(r) \/ StartRevise(r) \/ QueryOwner(r) \/ GenerateRevision(r)
  \/ RevisionGenerated(r) \/ CommitRevision(r) \/ FailRevise(r)

RequestArrives(r) == \E o \in Owners : Identify(r, o)

WorkspaceStep(c) == Expire(c) \/ EraseDocument(c) \/ RemoveFiles(c)

EndingArrives(e) ==
  \E o \in Owners : \/ e \in SignOuts /\ SignOut(e, o)
                    \/ e \in Revocations /\ Revoke(e, o)

EndingStep(e) == \/ BeginEnding(e) \/ Drained(e) \/ DisposeOwned(e) \/ DisposedOwned(e)
                 \/ RevokeOwner(e) \/ LeaveEnding(e)

\* Every request of the bound has been made and answered.
Rest ==
  /\ \A r \in Requests : pc[r] \in {"idle", "done"}
  /\ \A e \in Endings : epc[e] \in {"idle", "done"}
  /\ \A c \in Creations : phase[c] \in {"absent", "gone"}
  /\ UNCHANGED vars

Next ==
  \/ \E r \in Requests :
       RequestArrives(r) \/ Reserve(r) \/ RefuseReservation(r) \/ RefuseRequest(r)
  \/ \E c \in Creations : BeginCreate(c) \/ CreateStep(c)
  \/ \E r \in Revisions : BeginRevise(r) \/ ReviseExpired(r) \/ ReviseStep(r)
  \/ \E c \in Creations : GrowIdle(c) \/ End(c) \/ WorkspaceStep(c)
  \/ \E e \in Endings : EndingArrives(e) \/ EndingStep(e)
  \/ Rest

Spec == Init /\ [][Next]_vars

\* The agent's turn has no bound of its own; only an abort is sure to end it.
Generating(r) == pc[r] = "generating" /\ ~cancelled[r]

(***************************************************************************)
(* Continuations of awaits run, timers fire, an aborted turn of the agent  *)
(* ends.  Nothing is assumed of the client: a request may never send its   *)
(* body, and nobody has to end a workspace or sign out.                    *)
(***************************************************************************)
Fairness ==
  /\ \A c \in Creations : /\ WF_vars(~Generating(c) /\ CreateStep(c))
                          /\ WF_vars(WorkspaceStep(c))
  /\ \A r \in Revisions : WF_vars(~Generating(r) /\ ReviseStep(r))
  /\ \A e \in Endings : WF_vars(EndingStep(e))

FairSpec == Spec /\ Fairness

-----------------------------------------------------------------------------
(* Properties                                                              *)

\* An authentication session has at most one workspace (README, "Only one
\* authoring session may be active per authentication session"), although
\* create() looks for another long before it publishes its own.
OneWorkspace == \A o \in Owners : Cardinality(OpenOf(o)) <= 1

\* A revision never works on a document that dispose() has overwritten with
\* zeros, whoever disposes of the workspace and whenever.
UsesWorkspace == {"authorizing", "authorized", "generating", "rechecking", "rechecked"}
ErasedUnused ==
  \A r \in Revisions :
    pc[r] \in UsesWorkspace => phase[target[r]] \in {"open", "closing"}

\* The endings of a revoked session have come to their end.
Ended(o) == /\ ~live[o]
            /\ \E e \in Endings : eby[e] = o
            /\ \A e \in Endings : eby[e] = o => epc[e] = "done"

\* Once a session is revoked and its work ended, no workspace of it is open and
\* no generation of it goes on, even of a request authenticated before.
NothingAfterEnd ==
  \A o \in Owners : Ended(o) =>
    /\ OpenOf(o) = {}
    /\ \A r \in Requests : by[r] = o => pc[r] # "generating"

\* Some ending of the owner has closed the gate and has not returned.
BeingEnded(o) ==
  \E e \in Endings : eby[e] = o /\ epc[e] \in {"draining", "disposing", "revoking", "leaving"}

\* While an owner is being ended, no workspace of it appears and none of its
\* documents is replaced, also when several endings overlap.
NothingWhileEnding ==
  [][/\ \A c \in Creations : Publish(c) => ~BeingEnded(by[c])
     /\ \A r \in Revisions : CommitRevision(r) => ~BeingEnded(by[r])]_vars

\* A temporary directory exists only for a generation that goes on or for a
\* workspace not yet disposed of, unless the file system refuses to remove it.
NoStrayFiles ==
  \A c \in Creations \ Stuck : files[c] =>
    pc[c] \in {"generating", "failing"} \/ phase[c] \in {"open", "closing", "erasing"}

\* A sign-out or a revocation returns, whatever the requests it interrupts are
\* waiting for, and whether or not cleaning up succeeds.
EndingsReturn == \A e \in Endings : epc[e] = "called" ~> epc[e] = "done"

\* README: Folio "deletes its copies when the Admin ends the session, when its
\* owning authentication session is revoked, or after two hours of inactivity".
CopiesDeleted ==
  \A c \in Creations \ Stuck :
    (\/ phase[c] = "closing"
     \/ phase[c] = "open" /\ (idle[c] \/ ~live[by[c]])) ~> ~files[c]
=============================================================================
