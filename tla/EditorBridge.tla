----------------------------- MODULE EditorBridge -----------------------------
(***************************************************************************)
(* Filling in a Form: the page, the component that hosts the editor, the   *)
(* plugin inside the editor, and the server.                               *)
(*                                                                         *)
(* The page shows either a native form or the document editor.  The plugin *)
(* runs one action at a time: it freezes the editor, reads the data, has   *)
(* the editor send its changes, asks the host for a fresh capability,      *)
(* posts the action and polls its operation.  Host and plugin talk through *)
(* window messages that arrive in the order they are posted; the editor's  *)
(* own events reach the host through the same queue, as the plugin relies  *)
(* on.  What the operation does is modelled in OperationLifecycle: here it *)
(* stores the data that was posted and the document the editor has sent.   *)
(*                                                                         *)
(* The content of a document, and the values of a native form, are the     *)
(* number of the change that made them.                                    *)
(***************************************************************************)
EXTENDS Naturals, Sequences, FiniteSets

CONSTANTS Crowds,      \* what one behaviour is about, a set of Concerns each
          MaxChanges,  \* of the content, by anybody
          MaxActions,  \* begun from the toolbar or by a native button
          MaxSaves     \* asked of the editor by the page

Concerns == {"correction",  \* the page that corrects a Response, else the one that fills it in
             "native",      \* the form is filled in natively
             "changes",     \* the author changes the document
             "toolbar",     \* the author uses the editor's toolbar
             "exit", "export",
             "failures"}    \* requests are refused or fail, and the editor may not open

ASSUME BridgeBounds == /\ Crowds \subseteq SUBSET Concerns
                       /\ {MaxChanges, MaxActions, MaxSaves} \subseteq Nat

VARIABLES crowd,     \* chosen at the start
          page,      \* the flags of the page
          form,      \* its native form
          options,   \* of the plugin, from the editor's configuration
          host,      \* the component around the editor
          plugin,
          office,    \* the native editor
          toHost, toPlugin,
          server,    \* the draft as it is stored, and its operation
          history,   \* of what excuses a property
          count      \* against the bounds

vars == <<crowd, page, form, options, host, plugin, office, toHost, toPlugin, server, history, count>>

NoForm   == [step |-> "none", key |-> 0, values |-> 0, action |-> "none"]
NoPlugin == [up |-> FALSE, ack |-> FALSE, dirty |-> FALSE, early |-> FALSE, started |-> FALSE,
             timer |-> "none", prefill |-> "none", step |-> "idle", action |-> "none",
             data |-> 0, asked |-> 0]
NoOffice == [ready |-> FALSE, restriction |-> "none", key |-> 0, content |-> 0, sent |-> 0]
Unpinned == [phase |-> "none", pinned |-> FALSE, native |-> "unknown", failed |-> FALSE,
             pending |-> 0, renewing |-> {}, terminal |-> {}, last |-> 0]

Init ==
  /\ crowd \in Crowds
  /\ LET of == IF "correction" \in crowd THEN "correction" ELSE "fill" IN
       page = [of |-> of, stage |-> IF of = "fill" THEN "starting" ELSE "open", dirty |-> FALSE,
               exiting |-> FALSE, exporting |-> FALSE, resolver |-> FALSE, downloading |-> FALSE,
               reopening |-> FALSE, ask |-> "none", operation |-> "none", saves |-> 0]
  /\ \E prefilled \in BOOLEAN : options = [action |-> "correction", prefilled |-> prefilled]
  /\ host = [Unpinned EXCEPT !.phase = IF page.of = "fill" THEN "none" ELSE "loading"]
  /\ form = NoForm /\ plugin = NoPlugin /\ office = NoOffice
  /\ toHost = <<>> /\ toPlugin = <<>>
  /\ server = [op |-> "none", posted |-> 0, document |-> 0, data |-> 0, key |-> 0]
  /\ history = {}
  /\ count = [changes |-> 0, actions |-> 0]

Open        == page.stage = "open"
Mounted     == Open /\ host.phase = "mounted"
Busy        == page.operation = "busy" \/ form.step \notin {"none", "idle"}
isSaveFlowBusy == Busy \/ page.exporting \/ page.exiting
Frozen(step)   == step \in {"read", "flush", "saving", "granting", "post", "polling", "restore"}
shouldApplyRuntimePrefill == options.prefilled /\ options.action \in {"fill", "correction"}

Failing   == "failures" \in crowd
Changed   == count' = [count EXCEPT !.changes = @ + 1]
Say(m)    == toHost' = Append(toHost, m)
Tell(m)   == toPlugin' = Append(toPlugin, m)
Heard     == toHost' = Tail(toHost)
Told      == toPlugin' = Tail(toPlugin)
Said(t)   == Mounted /\ toHost # <<>> /\ Head(toHost).type = t
Asked(t)  == Mounted /\ toPlugin # <<>> /\ Head(toPlugin).type = t

-----------------------------------------------------------------------------
(* The component around the editor, and the editor it mounts *)

Loaded == [NoOffice EXCEPT !.key = server.key, !.content = server.document, !.sent = server.document]

\* Destroying an editor detaches the bridge: what is queued is dropped, and the content the
\* editor showed gives way to the stored draft.  A request of the page can be lost with it.
Reload ==
  /\ host' = [Unpinned EXCEPT !.phase = "loading", !.last = host.last]
  /\ plugin' = NoPlugin /\ toHost' = <<>> /\ toPlugin' = <<>>
  /\ office' = Loaded

\* A request to run an action, or its outcome, that the editor takes with it when it is
\* destroyed.
LostRequests == IF \/ plugin.step \notin {"idle", "restore"}
                   \/ \E i \in DOMAIN toPlugin : toPlugin[i].type = "run"
                   \/ \E i \in DOMAIN toHost : toHost[i].type = "operation"
                THEN {"ignored"} ELSE {}

LoadConfig ==
  /\ Open /\ host.phase = "loading"
  /\ \E outcome \in {"mounted"} \cup (IF Failing THEN {"failed"} ELSE {}) : host' = [host EXCEPT !.phase = outcome]
  /\ UNCHANGED <<crowd, page, form, options, plugin, office, toHost, toPlugin, server, history, count>>

Retry ==
  /\ Open /\ host.phase = "failed"
  /\ Reload
  /\ UNCHANGED <<crowd, page, form, options, server, history, count>>

\* The editor has its document; it tells the host, and then the plugin it has started.
onDocumentReady ==
  /\ Mounted /\ ~office.ready
  /\ office' = [office EXCEPT !.ready = TRUE]
  /\ Say([type |-> "document-ready"])
  /\ UNCHANGED <<crowd, page, form, options, host, plugin, toPlugin, server, history, count>>

\* The editor sends its changes to the editing service, by itself or asked to save.
SendChanges ==
  /\ Mounted /\ office.content # office.sent
  /\ office' = [office EXCEPT !.sent = office.content]
  /\ Say([type |-> "state", dirty |-> FALSE])
  /\ UNCHANGED <<crowd, page, form, options, host, plugin, toPlugin, server, history, count>>

SendFails ==
  /\ Failing /\ Mounted /\ office.content # office.sent /\ ~host.failed
  /\ ~\E i \in DOMAIN toHost : toHost[i].type = "error"
  /\ Say([type |-> "error"])
  /\ UNCHANGED <<crowd, page, form, options, host, plugin, office, toPlugin, server, history, count>>

StateEvent == IF office.content = office.sent THEN <<[type |-> "state", dirty |-> TRUE]>> ELSE <<>>

\* The plugin's handlers of a change report it once; before the bridge exists it is noted.
setDirtyState(p, dirty) == IF p.dirty = dirty THEN <<>> ELSE <<[type |-> "dirty", dirty |-> dirty]>>

\* From the reading of the data to the end of the operation, what the editor holds is to be saved.
Saving == \/ plugin.step \in {"flush", "saving", "granting", "post", "polling"}
          \/ server.op = "pending"

\* A change that only controls opened too early let happen.
Slips == history' = history \cup (IF Saving /\ "thawed" \in history THEN {"changed"} ELSE {})

Edit ==
  /\ "changes" \in crowd /\ count.changes < MaxChanges
  /\ Mounted /\ office.ready /\ office.restriction # "readOnly"
  /\ Changed /\ Slips
  /\ office' = [office EXCEPT !.content = count.changes + 1]
  /\ plugin' = IF plugin.up THEN [plugin EXCEPT !.dirty = TRUE] ELSE [plugin EXCEPT !.early = TRUE]
  /\ toHost' = toHost \o StateEvent \o (IF plugin.up THEN setDirtyState(plugin, TRUE) ELSE <<>>)
  /\ UNCHANGED <<crowd, page, form, options, host, toPlugin, server>>

-----------------------------------------------------------------------------
(* What the host does with a message *)

SaveResponse(id, saved) == [type |-> "editor-save-response", id |-> id, saved |-> saved]

\* Answers the save request that waits, if one does.
respondToEditorSave(saved) ==
  IF host.pending # 0 /\ host.pinned
    THEN toPlugin' = Append(toPlugin, SaveResponse(host.pending, saved))
    ELSE UNCHANGED toPlugin

HostDocumentReady ==
  /\ Said("document-ready") /\ Heard
  /\ host' = [host EXCEPT !.native = IF @ = "unknown" THEN "clean" ELSE @]
  /\ UNCHANGED <<crowd, page, form, options, plugin, office, toPlugin, server, history, count>>

\* Mutant of onDocumentStateChange: only notes that the changes are sent.
StateChangeNoted ==
  /\ Said("state") /\ Heard
  /\ host' = [host EXCEPT !.native = IF Head(toHost).dirty THEN "dirty" ELSE "clean"]
  /\ UNCHANGED <<crowd, page, form, options, plugin, office, toPlugin, server, history, count>>

onDocumentStateChange ==
  /\ Said("state") /\ Heard
  /\ IF Head(toHost).dirty
       THEN host' = [host EXCEPT !.native = "dirty"] /\ UNCHANGED toPlugin
       ELSE /\ respondToEditorSave(TRUE)
            /\ host' = [host EXCEPT !.native = "clean", !.failed = FALSE,
                                    !.pending = IF host.pinned THEN 0 ELSE @]
  /\ UNCHANGED <<crowd, page, form, options, plugin, office, server, history, count>>

onError ==
  /\ Said("error") /\ Heard
  /\ respondToEditorSave(FALSE)
  /\ host' = [host EXCEPT !.failed = TRUE, !.pending = IF host.pinned THEN 0 ELSE @]
  /\ UNCHANGED <<crowd, page, form, options, plugin, office, server, history, count>>

\* The first plugin that says it is ready is pinned, and acknowledged.
BridgeReady ==
  /\ Said("bridge-ready") /\ Heard
  /\ host' = [host EXCEPT !.pinned = TRUE]
  /\ Tell([type |-> "bridge-ack"])
  /\ UNCHANGED <<crowd, page, form, options, plugin, office, server, history, count>>

\* Whatever else a plugin says before it is pinned is dropped.
Unheard ==
  /\ Mounted /\ toHost # <<>> /\ ~host.pinned
  /\ Head(toHost).type \in {"dirty", "operation", "editor-save-request", "capability-request"}
  /\ Heard
  /\ history' = history \cup {"unheard"}
  /\ UNCHANGED <<crowd, page, form, options, host, plugin, office, toPlugin, server, count>>

\* Mutant of EditorSaveRequest: takes the request to save for the save.
EditorSaveUnawaited ==
  /\ Said("editor-save-request") /\ host.pinned /\ Heard
  /\ Tell(SaveResponse(Head(toHost).id, host.native # "unknown" /\ ~host.failed))
  /\ UNCHANGED <<crowd, page, form, options, host, plugin, office, server, history, count>>

EditorSaveRequest ==
  /\ Said("editor-save-request") /\ host.pinned /\ Heard
  /\ LET id == Head(toHost).id IN
     \/ /\ \/ host.native = "unknown"
           \/ host.failed
        /\ Tell(SaveResponse(id, FALSE)) /\ host' = [host EXCEPT !.pending = 0]
     \/ /\ host.native = "clean" /\ ~host.failed
        /\ Tell(SaveResponse(id, TRUE)) /\ host' = [host EXCEPT !.pending = 0]
     \/ /\ host.native = "dirty" /\ ~host.failed
        /\ host' = [host EXCEPT !.pending = id] /\ UNCHANGED toPlugin
  /\ UNCHANGED <<crowd, page, form, options, plugin, office, server, history, count>>

CapabilityRequest ==
  /\ Said("capability-request") /\ host.pinned /\ Heard
  /\ host' = [host EXCEPT !.renewing = @ \cup {Head(toHost).id}]
  /\ UNCHANGED <<crowd, page, form, options, plugin, office, toPlugin, server, history, count>>

\* The configuration is fetched again for its capability, which also renews the lease.
renewCapability(id) ==
  /\ Mounted /\ id \in host.renewing
  /\ host' = [host EXCEPT !.renewing = @ \ {id}]
  /\ \E granted \in {TRUE, ~Failing} : Tell([type |-> "capability-response", id |-> id, granted |-> granted])
  /\ UNCHANGED <<crowd, page, form, options, plugin, office, toHost, server, history, count>>

DirtyMessage ==
  /\ Said("dirty") /\ host.pinned /\ Heard
  /\ page' = IF page.of = "fill" THEN [page EXCEPT !.dirty = Head(toHost).dirty] ELSE page
  /\ UNCHANGED <<crowd, form, options, host, plugin, office, toPlugin, server, history, count>>

\* A request of the page goes out once, as soon as there is a plugin to send it to.
PostRunAction ==
  /\ Mounted /\ host.pinned /\ page.saves > host.last
  /\ host' = [host EXCEPT !.last = page.saves]
  /\ Tell([type |-> "run"])
  /\ UNCHANGED <<crowd, page, form, options, plugin, office, toHost, server, history, count>>

Host ==
  \/ HostDocumentReady \/ onDocumentStateChange \/ onError \/ BridgeReady \/ Unheard
  \/ EditorSaveRequest \/ CapabilityRequest \/ DirtyMessage \/ PostRunAction
  \/ \E id \in host.renewing : renewCapability(id)

-----------------------------------------------------------------------------
(* What the page does with an operation's message *)

Operation(status) ==
  /\ Said("operation") /\ host.pinned
  /\ Head(toHost).status = status
  \* A terminal status of an operation is passed on once.
  /\ status # "pending" => Head(toHost).op \notin host.terminal

PassedOn == host' = [host EXCEPT !.terminal = @ \cup ({Head(toHost).op} \ {0})]

OperationPending ==
  /\ Operation("pending") /\ Heard
  /\ page' = [page EXCEPT !.operation = "busy"]
  /\ UNCHANGED <<crowd, form, options, host, plugin, office, toPlugin, server, history, count>>

\* Mutant of OperationFailed: the end of an operation leaves the page clean, whatever it was.
OperationEnded ==
  /\ Operation("failed") /\ Heard /\ PassedOn
  /\ LET saving == Head(toHost).action = "save-draft" IN
     page' = [page EXCEPT !.operation = "none", !.exiting = FALSE, !.exporting = FALSE,
                          !.dirty = FALSE, !.resolver = @ /\ ~saving,
                          !.ask = IF saving /\ @ = "reauth" THEN "none" ELSE @]
  /\ UNCHANGED <<crowd, form, options, plugin, office, toPlugin, server, history, count>>

\* Only the failure of a save rejects the export that waits for one.
OperationFailed ==
  /\ Operation("failed") /\ Heard /\ PassedOn
  /\ LET saving == Head(toHost).action = "save-draft" IN
     page' = [page EXCEPT !.operation = "none", !.exiting = FALSE, !.exporting = FALSE,
                          !.resolver = @ /\ ~saving,
                          !.ask = IF saving /\ @ = "reauth" THEN "none" ELSE @]
  /\ UNCHANGED <<crowd, form, options, plugin, office, toPlugin, server, history, count>>

\* A saved draft has the editor reloaded; the first that waits for it goes on: an export
\* before an exit, so that an export nobody settled would keep an exit waiting.
DraftSaved ==
  /\ Operation("completed") /\ Head(toHost).action = "save-draft"
  /\ LET saved == [page EXCEPT !.dirty = FALSE, !.operation = "none"] IN
     page' = IF page.resolver
               THEN [saved EXCEPT !.resolver = FALSE, !.downloading = page.exporting]
               ELSE IF page.exiting
               THEN [saved EXCEPT !.exiting = FALSE, !.ask = "none", !.stage = "away"]
               ELSE saved
  /\ Reload
  /\ UNCHANGED <<crowd, form, options, server, history, count>>

Submitted ==
  /\ Operation("completed") /\ Head(toHost).action = "submit" /\ Heard /\ PassedOn
  /\ page' = [page EXCEPT !.dirty = FALSE, !.operation = "none", !.reopening = TRUE]
  /\ UNCHANGED <<crowd, form, options, plugin, office, toPlugin, server, history, count>>

\* The Form is started again for a next Response.  When that fails the submitted document
\* stays in the editor.
reopenOnlyOfficeResponseForNewEntry ==
  /\ Open /\ page.reopening
  /\ \/ /\ page' = [page EXCEPT !.reopening = FALSE, !.dirty = FALSE]
        /\ \E prefilled \in BOOLEAN : options' = [action |-> "fill", prefilled |-> prefilled]
        /\ Reload
        /\ history' = history \cup LostRequests
     \/ /\ Failing /\ page' = [page EXCEPT !.reopening = FALSE]
        /\ UNCHANGED <<options, host, plugin, office, toHost, toPlugin, history>>
  /\ UNCHANGED <<crowd, form, server, count>>

CorrectionSaved ==
  /\ Operation("completed") /\ Head(toHost).action = "save-correction" /\ Heard /\ PassedOn
  /\ page' = [page EXCEPT !.operation = "none", !.exiting = FALSE, !.stage = "away"]
  /\ UNCHANGED <<crowd, form, options, plugin, office, toPlugin, server, history, count>>

\* The download that follows the save of an export.
saveThenDownload ==
  /\ Open /\ page.downloading
  /\ page' = [page EXCEPT !.downloading = FALSE, !.exporting = FALSE]
  /\ UNCHANGED <<crowd, form, options, host, plugin, office, toHost, toPlugin, server, history, count>>

PageHandlers ==
  \/ OperationPending \/ OperationFailed \/ DraftSaved \/ Submitted \/ CorrectionSaved
  \/ reopenOnlyOfficeResponseForNewEntry \/ saveThenDownload

-----------------------------------------------------------------------------
(* The plugin *)

Restrict == /\ office' = [office EXCEPT !.restriction = "forms"]
            /\ history' = history \cup (IF office.restriction = "readOnly" THEN {"thawed"} ELSE {})

Running == plugin.up /\ Mounted

\* The plugin starts once its options are there; a change it noted before is reported
\* ahead of the message that it is ready.
initializePlugin ==
  /\ Mounted /\ ~plugin.up
  /\ plugin' = [plugin EXCEPT !.up = TRUE, !.dirty = plugin.early, !.early = FALSE]
  /\ toHost' = toHost \o (IF plugin.early THEN setDirtyState(plugin, TRUE) ELSE <<>>)
                      \o <<[type |-> "bridge-ready"]>>
  /\ office' = [office EXCEPT !.restriction = IF options.action = "correction" THEN "forms" ELSE @]
  /\ UNCHANGED <<crowd, page, form, options, host, toPlugin, server, history, count>>

\* The tasks of the start, when the content is ready or three seconds later.
startInitializationTasks ==
  /\ Running /\ ~plugin.started
  /\ plugin' = [plugin EXCEPT !.started = TRUE,
                  !.timer = IF shouldApplyRuntimePrefill THEN "prefill"
                            ELSE IF options.prefilled THEN "none" ELSE "restrict"]
  /\ \/ office.ready /\ options.action = "correction" /\ Restrict
     \/ UNCHANGED <<office, history>>
  /\ UNCHANGED <<crowd, page, form, options, host, toHost, toPlugin, server, count>>

RestrictTimer ==
  /\ Running /\ plugin.timer = "restrict"
  /\ plugin' = [plugin EXCEPT !.timer = "none"]
  /\ Restrict
  /\ UNCHANGED <<crowd, page, form, options, host, toHost, toPlugin, server, count>>

PrefillTimer ==
  /\ Running /\ plugin.timer = "prefill"
  /\ plugin' = [plugin EXCEPT !.timer = "none", !.prefill = IF @ = "none" THEN "applying" ELSE @]
  /\ UNCHANGED <<crowd, page, form, options, host, office, toHost, toPlugin, server, history, count>>

\* The values are applied once for everybody who asks, and again after every reload; a
\* failure is remembered as well.
ensurePrefill ==
  /\ Running /\ plugin.prefill = "applying"
  /\ \/ /\ Failing /\ plugin' = [plugin EXCEPT !.prefill = "failed"]
        /\ UNCHANGED <<office, toHost, history, count>>
     \/ /\ plugin' = [plugin EXCEPT !.prefill = "done"]
        /\ Restrict
        /\ UNCHANGED <<toHost, count>>
     \/ /\ count.changes < MaxChanges /\ Changed /\ Slips
        /\ plugin' = [plugin EXCEPT !.prefill = "done", !.dirty = TRUE]
        /\ office' = [office EXCEPT !.restriction = "forms", !.content = count.changes + 1]
        /\ toHost' = toHost \o StateEvent \o setDirtyState(plugin, TRUE)
  /\ UNCHANGED <<crowd, page, form, options, host, toPlugin, server>>

toolbarActionsForMode == IF options.action = "correction" THEN {} ELSE {"save-draft", "submit"}

isActionAllowedInMode(action) ==
  IF options.action = "correction" THEN action = "save-correction" ELSE action \in {"save-draft", "submit"}

\* A second action is refused without a word to the page.
toolbarAction ==
  /\ Running /\ plugin.step = "idle" /\ count.actions < MaxActions
  /\ "toolbar" \in crowd
  /\ \E action \in toolbarActionsForMode :
       plugin' = [plugin EXCEPT !.step = "prepare", !.action = action]
  /\ count' = [count EXCEPT !.actions = @ + 1]
  /\ UNCHANGED <<crowd, page, form, options, host, office, toHost, toPlugin, server, history>>

RunRequested ==
  /\ Running /\ Asked("run") /\ Told
  /\ IF plugin.step = "idle"
       THEN /\ plugin' = [plugin EXCEPT !.step = "prepare",
                  !.action = IF page.of = "fill" THEN "save-draft" ELSE "save-correction"]
            /\ UNCHANGED history
       ELSE history' = history \cup {"ignored"} /\ UNCHANGED plugin
  /\ UNCHANGED <<crowd, page, form, options, host, office, toHost, server, count>>

\* The host is told of a failure once it has acknowledged the bridge.
notifyParent(status, op) ==
  IF plugin.ack
    THEN <<[type |-> "operation", action |-> plugin.action, status |-> status, op |-> op]>>
    ELSE <<>>

Advance(step) == plugin' = [plugin EXCEPT !.step = step]

ActionFails(op) ==
  /\ plugin' = IF Frozen(plugin.step) THEN [plugin EXCEPT !.step = "restore"]
               ELSE [plugin EXCEPT !.step = "idle", !.action = "none"]
  /\ toHost' = toHost \o notifyParent("failed", op)

PrepareAction ==
  /\ Running /\ plugin.step = "prepare"
  /\ \/ /\ shouldApplyRuntimePrefill /\ plugin.prefill = "none"
        /\ plugin' = [plugin EXCEPT !.prefill = "applying"]
        /\ UNCHANGED <<office, toHost, history>>
     \/ /\ shouldApplyRuntimePrefill /\ plugin.prefill = "failed"
        /\ ActionFails(0) /\ UNCHANGED <<office, history>>
     \/ /\ shouldApplyRuntimePrefill => plugin.prefill = "done"
        /\ Advance("freeze")
        /\ IF ~shouldApplyRuntimePrefill /\ options.action \in {"draft", "correction"}
             THEN Restrict ELSE UNCHANGED <<office, history>>
        /\ UNCHANGED toHost
  /\ UNCHANGED <<crowd, page, form, options, host, toPlugin, server, count>>

freezeEditor ==
  /\ Running /\ plugin.step = "freeze"
  /\ Advance("read")
  /\ office' = [office EXCEPT !.restriction = "readOnly"]
  /\ UNCHANGED <<crowd, page, form, options, host, toHost, toPlugin, server, history, count>>

extractFormData ==
  /\ Running /\ plugin.step = "read"
  /\ plugin' = [plugin EXCEPT !.step = "flush", !.data = office.content]
  /\ UNCHANGED <<crowd, page, form, options, host, office, toHost, toPlugin, server, history, count>>

\* The editor is asked to save, and the host to answer when it has.
flushEditorChanges ==
  /\ Running /\ plugin.step = "flush"
  /\ IF plugin.ack
       THEN /\ plugin' = [plugin EXCEPT !.step = "saving", !.asked = @ + 1]
            /\ Say([type |-> "editor-save-request", id |-> plugin.asked + 1])
       ELSE ActionFails(0)
  /\ UNCHANGED <<crowd, page, form, options, host, office, toPlugin, server, history, count>>

EditorSaveAnswered ==
  /\ Running /\ Asked("editor-save-response") /\ Told
  /\ LET answer == Head(toPlugin) IN
     IF plugin.step # "saving" \/ answer.id # plugin.asked
       THEN UNCHANGED <<plugin, toHost>>
       ELSE IF answer.saved /\ isActionAllowedInMode(plugin.action)
       THEN Advance("granting") /\ Say([type |-> "capability-request", id |-> answer.id])
       ELSE ActionFails(0)
  /\ UNCHANGED <<crowd, page, form, options, host, office, server, history, count>>

\* An answer after the five seconds finds no request.
CapabilityTimeout ==
  /\ Running /\ Failing /\ plugin.step = "granting" /\ ActionFails(0)
  /\ UNCHANGED <<crowd, page, form, options, host, office, toPlugin, server, history, count>>

handleCapabilityResponse ==
  /\ Running /\ Asked("capability-response") /\ Told
  /\ LET answer == Head(toPlugin) IN
     IF plugin.step # "granting" \/ answer.id # plugin.asked
       THEN UNCHANGED <<plugin, toHost>>
       ELSE IF answer.granted THEN Advance("post") /\ UNCHANGED toHost ELSE ActionFails(0)
  /\ UNCHANGED <<crowd, page, form, options, host, office, server, history, count>>

\* The server refuses what names a former document of the draft, what comes while an
\* operation is pending, and more for reasons of its own.
postAction ==
  /\ Running /\ plugin.step = "post"
  /\ \/ /\ office.key = server.key /\ server.op # "pending"
        /\ server' = [server EXCEPT !.op = "pending", !.posted = plugin.data]
        /\ Advance("polling")
        /\ toHost' = toHost \o notifyParent("pending", plugin.asked)
     \/ /\ Failing \/ office.key # server.key \/ server.op = "pending"
        /\ ActionFails(0) /\ UNCHANGED server
  /\ UNCHANGED <<crowd, page, form, options, host, office, toPlugin, history, count>>

\* One failed request is enough to give up on an operation, which goes on.
pollOperation ==
  /\ Running /\ plugin.step = "polling"
  /\ \/ /\ server.op = "completed"
        /\ plugin' = [plugin EXCEPT !.step = "restore", !.dirty = FALSE]
        /\ toHost' = toHost \o notifyParent("completed", plugin.asked) \o setDirtyState(plugin, FALSE)
     \/ server.op = "failed" /\ ActionFails(plugin.asked)
     \/ Failing /\ server.op = "pending" /\ ActionFails(plugin.asked)
  /\ UNCHANGED <<crowd, page, form, options, host, office, toPlugin, server, history, count>>

\* Whatever became of the action, the controls are opened again.
RestoreEditor ==
  /\ Running /\ plugin.step = "restore"
  /\ plugin' = [plugin EXCEPT !.step = "idle", !.action = "none"]
  /\ office' = [office EXCEPT !.restriction = "forms"]
  /\ history' = history \cup (IF server.op = "pending" THEN {"thawed"} ELSE {})
  /\ UNCHANGED <<crowd, page, form, options, host, toHost, toPlugin, server, count>>

BridgeAck ==
  /\ Running /\ Asked("bridge-ack") /\ Told
  /\ plugin' = [plugin EXCEPT !.ack = TRUE]
  /\ UNCHANGED <<crowd, page, form, options, host, office, toHost, server, history, count>>

Plugin ==
  \/ startInitializationTasks \/ RestrictTimer \/ PrefillTimer \/ ensurePrefill \/ RunRequested
  \/ PrepareAction \/ freezeEditor \/ extractFormData \/ flushEditorChanges
  \/ EditorSaveAnswered \/ handleCapabilityResponse \/ postAction
  \/ pollOperation \/ RestoreEditor \/ BridgeAck

\* An operation takes the document as the editor has last sent it.
Settle ==
  /\ server.op = "pending"
  /\ server' \in {[server EXCEPT !.op = "failed"],
                  [server EXCEPT !.op = "completed", !.data = server.posted, !.key = @ + 1,
                     !.document = IF form.step = "none" THEN office.sent ELSE server.posted]}
  /\ UNCHANGED <<crowd, page, form, options, host, plugin, office, toHost, toPlugin, history, count>>

-----------------------------------------------------------------------------
(* The author and the page *)

\* The start of a Response says how its Form is filled in.
startResponse ==
  /\ page.stage = "starting"
  /\ page' = [page EXCEPT !.stage = "open"]
  /\ \/ /\ "native" \notin crowd
        /\ \E action \in {"fill", "draft"}, prefilled \in BOOLEAN :
             options' = [action |-> action, prefilled |-> prefilled]
        /\ host' = [host EXCEPT !.phase = "loading"]
        /\ UNCHANGED form
     \/ /\ "native" \in crowd
        /\ form' = [form EXCEPT !.step = "idle"]
        /\ UNCHANGED <<options, host>>
  /\ UNCHANGED <<crowd, plugin, office, toHost, toPlugin, server, history, count>>

\* What would leave the page is held back while there are changes; asking calls off the exit
\* that waits for a save.
Leave ==
  /\ Open /\ "exit" \in crowd
  /\ page' \in IF page.dirty
               THEN {[page EXCEPT !.ask = intent, !.exiting = FALSE] : intent \in {"leave", "reauth"}}
               ELSE {[page EXCEPT !.stage = "away"]}
  /\ UNCHANGED <<crowd, form, options, host, plugin, office, toHost, toPlugin, server, history, count>>

cancelExit ==
  /\ Open /\ page.ask # "none"
  /\ page' = [page EXCEPT !.ask = "none", !.exiting = FALSE]
  /\ UNCHANGED <<crowd, form, options, host, plugin, office, toHost, toPlugin, server, history, count>>

RequestSave(p) == [p EXCEPT !.saves = @ + 1]

saveAndExit ==
  /\ Open /\ form.step = "none" /\ page.ask # "none" /\ ~isSaveFlowBusy
  /\ page.saves < MaxSaves
  /\ page' = [RequestSave(page) EXCEPT !.exiting = TRUE]
  /\ UNCHANGED <<crowd, form, options, host, plugin, office, toHost, toPlugin, server, history, count>>

\* An export whose save was never settled keeps later ones from starting.
saveAndExport ==
  /\ Open /\ "export" \in crowd /\ form.step = "none" /\ ~isSaveFlowBusy /\ ~page.resolver
  /\ page.saves < MaxSaves
  /\ page' = [RequestSave(page) EXCEPT !.exporting = TRUE, !.resolver = TRUE]
  /\ UNCHANGED <<crowd, form, options, host, plugin, office, toHost, toPlugin, server, history, count>>

\* The correction page takes no note of changes; its button is off while it saves.
submitCorrection ==
  /\ Open /\ page.of = "correction" /\ page.operation = "none" /\ page.saves < MaxSaves
  /\ page' = [RequestSave(page) EXCEPT !.exiting = TRUE]
  /\ UNCHANGED <<crowd, form, options, host, plugin, office, toHost, toPlugin, server, history, count>>

\* Deleting the draft lets the author go.
discardDraft ==
  /\ Open /\ page.ask # "none" /\ ~isSaveFlowBusy
  /\ page' = [page EXCEPT !.dirty = FALSE, !.ask = "none", !.stage = "away"]
  /\ UNCHANGED <<crowd, form, options, host, plugin, office, toHost, toPlugin, server, history, count>>

Author == \/ Leave \/ cancelExit \/ saveAndExit \/ saveAndExport \/ submitCorrection \/ discardDraft
          \/ Retry \/ Edit \/ toolbarAction

-----------------------------------------------------------------------------
(* The native form of the page *)

NativeStep(step) == Open /\ form.step = step
NativeVars == <<options, plugin, office, toHost, toPlugin>>

\* The controls are off while a save runs; each change of a value is seen at once.
ChangeValue ==
  /\ NativeStep("idle") /\ ~isSaveFlowBusy /\ count.changes < MaxChanges
  /\ form' = [form EXCEPT !.values = count.changes + 1]
  /\ page' = [page EXCEPT !.dirty = TRUE]
  /\ Changed
  /\ UNCHANGED <<crowd, host, server, history>> /\ UNCHANGED NativeVars

\* The same draft is saved from another session of the author.
OtherSession ==
  /\ form.step # "none" /\ server.op # "pending" /\ count.changes < MaxChanges
  /\ server' = [server EXCEPT !.document = count.changes + 1, !.data = count.changes + 1, !.key = @ + 1]
  /\ Changed
  /\ UNCHANGED <<crowd, page, form, host, history>> /\ UNCHANGED NativeVars

nativeResponseSaveBlocked == form.step # "idle" \/ isSaveFlowBusy

\* Save, save and leave, save and export, or submit.
saveNativeResponse ==
  /\ Open /\ ~nativeResponseSaveBlocked /\ form.step # "none" /\ count.actions < MaxActions
  /\ count' = [count EXCEPT !.actions = @ + 1]
  /\ \/ /\ \E action \in {"save-draft", "submit"} :
             form' = [form EXCEPT !.step = "latest", !.action = action]
        /\ UNCHANGED page
     \/ /\ form' = [form EXCEPT !.step = "latest", !.action = "save-draft"]
        /\ page' \in {[page EXCEPT !.exporting = TRUE]}
                     \cup (IF page.ask = "none" THEN {} ELSE {[page EXCEPT !.exiting = TRUE]})
  /\ UNCHANGED <<crowd, host, server, history>> /\ UNCHANGED NativeVars

NativeFails(p) ==
  page' = [p EXCEPT !.exiting = FALSE, !.exporting = FALSE,
                    !.ask = IF page.exiting /\ @ = "reauth" THEN "none" ELSE @]

\* A save goes on only from the version of the draft that it has shown.  A newer one is
\* taken over, and with unsaved changes only its key: a second attempt replaces it.
loadLatestNativeConfig ==
  /\ NativeStep("latest")
  /\ \/ /\ form.key = server.key
        /\ form' = [form EXCEPT !.step = "posting"] /\ UNCHANGED <<crowd, page, host, options>>
     \/ /\ form.key # server.key
        /\ form' = [form EXCEPT !.step = "idle", !.key = server.key,
                                !.values = IF page.dirty THEN @ ELSE server.data]
        /\ NativeFails(page) /\ UNCHANGED <<host, options>>
     \/ /\ form' = [form EXCEPT !.step = "idle"] /\ NativeFails(page) /\ UNCHANGED <<host, options>>
     \* The Form is filled in with the document editor by now.
     \/ /\ form' = NoForm /\ NativeFails(page)
        /\ host' = [host EXCEPT !.phase = "loading"] /\ options' = [options EXCEPT !.action = "draft"]
  /\ office' = IF form'.step = "none" THEN Loaded ELSE office
  /\ UNCHANGED <<crowd, plugin, toHost, toPlugin, server, history, count>>

submitNativeResponse ==
  /\ NativeStep("posting")
  /\ \/ /\ form.key = server.key /\ server.op # "pending"
        /\ server' = [server EXCEPT !.op = "pending", !.posted = form.values]
        /\ form' = [form EXCEPT !.step = "waiting"]
        /\ page' = [page EXCEPT !.operation = "busy"]
     \/ /\ form' = [form EXCEPT !.step = "idle"] /\ NativeFails(page) /\ UNCHANGED server
  /\ UNCHANGED <<crowd, host, history, count>> /\ UNCHANGED NativeVars

\* A request that fails ends the wait, and leaves the operation on the page as it was.
waitForOperation ==
  /\ NativeStep("waiting")
  /\ \/ /\ server.op = "completed"
        /\ form' = [form EXCEPT !.step = "refresh"]
        /\ page' = [page EXCEPT !.operation = "none", !.dirty = @ /\ form.action = "save-draft"]
     \/ /\ server.op = "failed"
        /\ form' = [form EXCEPT !.step = "idle"]
        /\ NativeFails([page EXCEPT !.operation = "none"])
     \/ form' = [form EXCEPT !.step = "idle"] /\ NativeFails(page)
  /\ UNCHANGED <<crowd, host, server, history, count>> /\ UNCHANGED NativeVars

\* After a save the form shows what is stored; after a submission, the next Response.
refreshNativeResponse ==
  /\ NativeStep("refresh")
  /\ \/ /\ form' = [form EXCEPT !.step = IF page.exporting THEN "download" ELSE "finish",
                                !.key = server.key, !.values = server.data]
        /\ page' = [page EXCEPT !.dirty = FALSE]
     \/ form' = [form EXCEPT !.step = "idle"] /\ NativeFails(page)
  /\ UNCHANGED <<crowd, host, server, history, count>> /\ UNCHANGED NativeVars

finishNativeResponse ==
  /\ \/ /\ NativeStep("download") /\ page' = [page EXCEPT !.exporting = FALSE]
     \/ /\ NativeStep("finish")
        /\ page' = IF page.exiting
                     THEN [page EXCEPT !.exiting = FALSE, !.ask = "none", !.stage = "away"] ELSE page
  /\ form' = [form EXCEPT !.step = "idle"]
  /\ UNCHANGED <<crowd, host, server, history, count>> /\ UNCHANGED NativeVars

Native == \/ loadLatestNativeConfig \/ submitNativeResponse \/ waitForOperation
          \/ refreshNativeResponse \/ finishNativeResponse

-----------------------------------------------------------------------------
Next == \/ LoadConfig \/ onDocumentReady \/ SendChanges \/ SendFails \/ initializePlugin
        \/ CapabilityTimeout \/ Settle \/ startResponse \/ ChangeValue \/ OtherSession
        \/ saveNativeResponse \/ Host \/ PageHandlers \/ Plugin \/ Author \/ Native

Spec == Init /\ [][Next]_vars

\* The browser runs what is queued, requests are answered one way or another, an operation
\* reaches an end, and the editor sends its changes or says that it cannot.
FairSpec == /\ Spec
            /\ WF_vars(LoadConfig) /\ WF_vars(onDocumentReady) /\ WF_vars(SendChanges)
            /\ WF_vars(initializePlugin) /\ WF_vars(Settle)
            /\ WF_vars(Host) /\ WF_vars(PageHandlers) /\ WF_vars(Plugin) /\ WF_vars(Native)

-----------------------------------------------------------------------------
\* The data and the document of a draft are of the same moment: what a save reads is what
\* the editing service holds when the operation takes it.  Controls that a timer, the ready
\* content or a failed poll opens too early do no harm of themselves: the two can only differ
\* when something is changed through them before the operation is over.
DataOfDocument == server.data = server.document \/ "changed" \in history

Quiet == /\ Open /\ ~Busy /\ toHost = <<>> /\ toPlugin = <<>> /\ plugin.step = "idle"
         /\ ~page.reopening

\* A page that shows no changes shows the stored draft, once the messages have arrived:
\* except for changes of before the bridge or through controls opened too early, and
\* for what another session has stored since.
CleanMeansSaved ==
  Quiet /\ page.of = "fill" /\ ~page.dirty =>
    /\ (plugin.ack /\ history \cap {"changed", "unheard"} = {}) => office.content = server.document
    /\ (form.step = "idle" /\ form.key = server.key) => form.values = server.data

Excused == ~Open \/ host.phase = "failed" \/ "ignored" \in history

\* An exit or an export that waits for a save comes to an end, and an editor that is frozen
\* is opened again: nobody waits for an answer that does not come, unless the plugin ignored
\* the request or the editor did not open.
WaitsEnd == /\ (page.exiting \/ page.exporting) ~> (~(page.exiting \/ page.exporting) \/ Excused)
            /\ (office.restriction = "readOnly") ~> (office.restriction # "readOnly" \/ Excused)
=============================================================================
