----------------------------- MODULE EditorProofs -----------------------------
(***************************************************************************)
(* Proofs about the two sides of an editor, for any number of changes,     *)
(* actions, saves, sessions, openings and corrections: EditorBridge, the   *)
(* page with its frames and its plugin, and CorrectionWorkspaces, the      *)
(* lease under which an administrator edits and the documents it keeps.    *)
(***************************************************************************)
EXTENDS EditorBridge, CorrectionWorkspaces, TLAPS

-----------------------------------------------------------------------------
(* The page, its frames and its plugin                                     *)

(***************************************************************************)
(* A save stores the document that its data were read from, and a page     *)
(* that shows no changes shows what is stored, with the exceptions that    *)
(* the properties name.  The first of them is that something is changed    *)
(* through controls that were opened while an action was to keep them      *)
(* closed; that they are opened is no exception.                           *)
(*                                                                         *)
(* The argument is about the order of messages.  The host knows whether    *)
(* the editor has sent its changes from the last message that says so, and *)
(* the request to save comes behind the messages about the changes that    *)
(* were read: so a save that is answered well finds them sent.  In the     *)
(* same way the page knows of the plugin's changes from the last message   *)
(* that says something about them.                                         *)
(***************************************************************************)
Actions    == {"none", "save-draft", "submit", "save-correction"}
PluginStep == {"idle", "prepare", "freeze", "read", "flush", "saving", "granting", "post", "polling", "restore"}

Pages ==
  [of : {"fill", "correction"}, stage : {"starting", "open", "away"}, dirty : BOOLEAN, exiting : BOOLEAN,
   exporting : BOOLEAN, resolver : BOOLEAN, downloading : BOOLEAN, reopening : BOOLEAN,
   ask : {"none", "leave", "reauth"}, operation : {"none", "busy"}, saves : Nat]
Forms ==
  [step : {"none", "idle", "latest", "posting", "waiting", "refresh", "download", "finish"},
   key : Nat, values : Nat, action : Actions]
Options == [action : {"fill", "draft", "correction"}, prefilled : BOOLEAN]
Hosts ==
  [phase : {"none", "loading", "failed", "mounted"}, pinned : BOOLEAN, native : {"unknown", "clean", "dirty"},
   failed : BOOLEAN, pending : Nat, renewing : SUBSET Nat, terminal : SUBSET Nat, last : Nat]
Plugins ==
  [up : BOOLEAN, ack : BOOLEAN, dirty : BOOLEAN, early : BOOLEAN, started : BOOLEAN,
   timer : {"none", "prefill", "restrict"}, prefill : {"none", "applying", "failed", "done"},
   step : PluginStep, action : Actions, data : Nat, asked : Nat]
Offices == [ready : BOOLEAN, restriction : {"none", "forms", "readOnly"}, key : Nat, content : Nat, sent : Nat]
Servers == [op : {"none", "pending", "completed", "failed"}, posted : Nat, document : Nat, data : Nat, key : Nat]

HostMessages ==
  [type : {"document-ready", "error", "bridge-ready"}]
  \cup [type : {"state", "dirty"}, dirty : BOOLEAN]
  \cup [type : {"editor-save-request", "capability-request"}, id : Nat]
  \cup [type : {"operation"}, action : Actions, status : {"pending", "completed", "failed"}, op : Nat]
PluginMessages ==
  [type : {"bridge-ack", "run"}]
  \cup [type : {"editor-save-response"}, id : Nat, saved : BOOLEAN]
  \cup [type : {"capability-response"}, id : Nat, granted : BOOLEAN]

\* What every variable holds.
Types ==
  /\ page \in Pages /\ form \in Forms /\ options \in Options /\ host \in Hosts /\ plugin \in Plugins
  /\ office \in Offices /\ server \in Servers /\ count \in [changes : Nat, actions : Nat]
  /\ toHost \in Seq(HostMessages) /\ toPlugin \in Seq(PluginMessages)
  /\ history \subseteq {"changed", "ignored", "thawed", "unheard"}

Thawed  == "thawed" \in history
Slipped == "changed" \in history

\* Before the start of the Response there is nothing, and beside a native form no editor.
Beginning ==
  /\ page.stage = "starting" =>
       /\ form = NoForm /\ host.phase = "none" /\ office = NoOffice
       /\ server = [op |-> "none", posted |-> 0, document |-> 0, data |-> 0, key |-> 0]
  /\ form.step # "none" => host.phase = "none"

\* An editor that is not there has no plugin and no messages, and one that comes shows the
\* stored draft; an operation runs from an editor, or from a native form.
Unmounted ==
  /\ host.phase # "mounted" =>
       /\ plugin = NoPlugin /\ toHost = <<>> /\ toPlugin = <<>> /\ ~page.reopening
       /\ office.content = office.sent
       /\ host.native = "unknown" /\ host.pending = 0
  /\ host.phase # "mounted" /\ form.step = "none" =>
       office.key = server.key /\ office.content = server.document /\ server.op # "pending"

\* A native form: an operation that it does not wait for keeps the page busy; it shows what
\* is stored under its key, unless the page says that there are changes.
NativeForm ==
  form.step # "none" =>
    /\ form.key <= server.key
    /\ server.op = "pending" => page.operation = "busy" /\ form.step \in {"waiting", "idle"}
    /\ form.step = "waiting" /\ server.op = "completed" => form.key < server.key
    /\ Open /\ ~page.dirty /\ form.key = server.key => form.values = server.data
    /\ server.data = server.document

\* The plugin before it has started.
Down ==
  /\ plugin.up => ~plugin.early
  /\ ~plugin.up => /\ plugin.step = "idle" /\ ~plugin.dirty /\ plugin.prefill = "none" /\ plugin.timer = "none"
                   /\ plugin.asked = 0 /\ ~plugin.ack

\* The Prefill is applied before the editor is frozen, if at all.
Prefilling ==
  /\ plugin.timer = "prefill" \/ plugin.prefill # "none" => shouldApplyRuntimePrefill
  /\ shouldApplyRuntimePrefill /\ plugin.step \notin {"idle", "prepare"} => plugin.prefill = "done"

Ends(m) == m.type = "operation" /\ m.status = "completed"

\* The plugin sees one operation at most to its good end: an editor whose document has been
\* saved names a former one.
OneEnd ==
  form.step = "none" =>
    /\ office.key <= server.key
    /\ server.op = "pending" => office.key = server.key
    /\ page.reopening => office.key < server.key
    /\ plugin.step = "polling" => \/ server.op \in {"pending", "failed"} /\ office.key = server.key
                                  \/ server.op = "completed" /\ office.key < server.key /\ ~page.reopening
    /\ \A i \in DOMAIN toHost : Ends(toHost[i]) =>
         /\ office.key < server.key /\ ~page.reopening
         /\ plugin.step # "polling"
         /\ \A j \in DOMAIN toHost : Ends(toHost[j]) => i = j

\* While an action runs the editor is frozen, unless it was thawed; and from the reading of the
\* data on it holds what was read, unless a change slipped in.  An operation takes the document
\* with these data.
Freeze ==
  /\ Thawed \/ /\ Frozen(plugin.step) => office.restriction = "readOnly"
               /\ form.step = "none" /\ server.op = "pending" => plugin.step \in {"polling", "restore"}
  /\ Slipped \/ /\ plugin.step \in {"flush", "saving", "granting", "post", "polling"} => plugin.data = office.content
                /\ plugin.step \in {"granting", "post", "polling"} => office.sent = office.content
                /\ form.step = "none" /\ server.op = "pending" =>
                     office.sent = office.content /\ server.posted = office.content
                /\ plugin.step = "polling" /\ server.op = "completed" => server.document = office.content
                /\ form.step = "none" => server.data = server.document

\* The last message of M in s, or what held before all of them where there is none, says so:
\* it is one of T.
Latest(s, M, T, before) ==
  \/ before /\ \A i \in DOMAIN s : s[i] \notin M
  \/ \E i \in DOMAIN s : s[i] \in T /\ \A j \in DOMAIN s : j > i => s[j] \notin M

States == {m \in HostMessages : m.type = "state"}
Unsent == {m \in States : m.dirty}

\* The host hears of changes that are not sent.
StateKnown == office.content # office.sent => Latest(toHost, States, Unsent, host.native = "dirty")

\* A request to save comes behind the messages of the changes it is about: a save is answered
\* when they are sent.
SaveAnswered ==
  /\ \A i \in DOMAIN toHost : toHost[i].type = "editor-save-request" => toHost[i].id <= plugin.asked
  /\ \A i \in DOMAIN toPlugin : toPlugin[i].type = "editor-save-response" => toPlugin[i].id <= plugin.asked
  /\ host.pending <= plugin.asked
  /\ plugin.step = "saving" /\ ~Slipped =>
       /\ \A i, j \in DOMAIN toHost :
            /\ toHost[i].type = "editor-save-request" /\ toHost[i].id = plugin.asked
            /\ j > i
            => toHost[j] \notin Unsent
       /\ host.pending = plugin.asked /\ host.pending # 0 => \A j \in DOMAIN toHost : toHost[j] \notin Unsent
       /\ \A i \in DOMAIN toPlugin :
            toPlugin[i].type = "editor-save-response" /\ toPlugin[i].id = plugin.asked /\ toPlugin[i].saved
            => office.sent = office.content

\* The plugin knows of every change that is not stored.
Noted == form.step = "none" /\ ~plugin.dirty /\ ~plugin.early /\ ~Slipped => office.content = server.document

Reports == {m \in HostMessages : m.type = "dirty" \/ Ends(m)}
Changes == {m \in HostMessages : m.type = "dirty" /\ m.dirty}

\* The page hears of what the plugin knows.
DirtyKnown ==
  plugin.dirty /\ Open /\ page.of = "fill" /\ "unheard" \notin history => Latest(toHost, Reports, Changes, page.dirty)

IndInv ==
  /\ Types /\ Beginning /\ Unmounted /\ NativeForm /\ Down /\ Prefilling /\ OneEnd /\ Freeze
  /\ StateKnown /\ SaveAnswered /\ Noted /\ DirtyKnown

-----------------------------------------------------------------------------
(* Sequences, and the last message that says something *)

\* Joining an empty sequence, or one of one message.
LEMMA Joining ==
  ASSUME NEW S, NEW s \in Seq(S), NEW m \in S
  PROVE  s \o <<>> = s /\ s \o <<m>> = Append(s, m)
  OBVIOUS

\* A message that is not one of M changes nothing about the last one of M.
LEMMA LatestKept ==
  ASSUME NEW S, NEW s \in Seq(S), NEW m \in S, NEW M, NEW T, NEW b, Latest(s, M, T, b), m \notin M
  PROVE  Latest(Append(s, m), M, T, b)
<1>1. /\ DOMAIN Append(s, m) = DOMAIN s \cup {Len(s) + 1}
      /\ \A i \in DOMAIN s : Append(s, m)[i] = s[i]
      /\ Append(s, m)[Len(s) + 1] = m
      /\ DOMAIN s = 1..Len(s) /\ Len(s) \in Nat
  OBVIOUS
<1>2. CASE b /\ \A i \in DOMAIN s : s[i] \notin M
  BY <1>1, <1>2 DEF Latest
<1>3. CASE \E i \in DOMAIN s : s[i] \in T /\ \A j \in DOMAIN s : j > i => s[j] \notin M
  <2>1. PICK i \in DOMAIN s : s[i] \in T /\ \A j \in DOMAIN s : j > i => s[j] \notin M
    BY <1>3
  <2>2. i \in DOMAIN Append(s, m) /\ Append(s, m)[i] \in T
    BY <1>1, <2>1
  <2>3. \A j \in DOMAIN Append(s, m) : j > i => Append(s, m)[j] \notin M
    BY <1>1, <2>1
  <2> QED BY <2>2, <2>3 DEF Latest
<1> QED BY <1>2, <1>3 DEF Latest

\* A message of T that is said last.
LEMMA LatestSaid ==
  ASSUME NEW S, NEW s \in Seq(S), NEW m \in S, NEW M, NEW T, NEW b, m \in T
  PROVE  Latest(Append(s, m), M, T, b)
<1>1. /\ DOMAIN Append(s, m) = 1..Len(s) + 1
      /\ Append(s, m)[Len(s) + 1] = m
      /\ Len(s) \in Nat
  OBVIOUS
<1>2. /\ Len(s) + 1 \in DOMAIN Append(s, m)
      /\ \A j \in DOMAIN Append(s, m) : ~(j > Len(s) + 1)
  BY <1>1
<1> QED BY <1>1, <1>2 DEF Latest

\* The first message is taken: what held before all messages is now what it says, if it says
\* anything.
LEMMA LatestHeard ==
  ASSUME NEW S, NEW s \in Seq(S), s # <<>>, NEW M, NEW T, NEW b, NEW c, Latest(s, M, T, b),
         Head(s) \in T => c, b /\ Head(s) \notin M => c
  PROVE  Latest(Tail(s), M, T, c)
<1>1. /\ Len(s) \in Nat /\ Len(s) > 0 /\ DOMAIN s = 1..Len(s)
      /\ Head(s) = s[1]
      /\ DOMAIN Tail(s) = 1..Len(s) - 1
      /\ \A i \in 1..Len(s) - 1 : Tail(s)[i] = s[i + 1]
  OBVIOUS
<1>2. CASE b /\ \A i \in DOMAIN s : s[i] \notin M
  BY <1>1, <1>2 DEF Latest
<1>3. CASE \E i \in DOMAIN s : s[i] \in T /\ \A j \in DOMAIN s : j > i => s[j] \notin M
  <2>1. PICK i \in DOMAIN s : s[i] \in T /\ \A j \in DOMAIN s : j > i => s[j] \notin M
    BY <1>3
  <2>2. CASE i = 1
    BY <1>1, <2>1, <2>2 DEF Latest
  <2>3. CASE i > 1
    <3>1. i - 1 \in DOMAIN Tail(s) /\ Tail(s)[i - 1] \in T
      BY <1>1, <2>1, <2>3
    <3>2. \A j \in DOMAIN Tail(s) : j > i - 1 => Tail(s)[j] \notin M
      BY <1>1, <2>1, <2>3
    <3> QED BY <3>1, <3>2 DEF Latest
  <2> QED BY <1>1, <2>1, <2>2, <2>3
<1> QED BY <1>2, <1>3 DEF Latest

\* What held before may be strengthened.
LEMMA LatestBefore ==
  ASSUME NEW s, NEW M, NEW T, NEW b, NEW c, Latest(s, M, T, b), b => c
  PROVE  Latest(s, M, T, c)
  BY DEF Latest

\* The messages of a sequence after one more.
LEMMA Appending ==
  ASSUME NEW S, NEW s \in Seq(S), NEW m \in S
  PROVE  /\ Append(s, m) \in Seq(S)
         /\ DOMAIN s = 1..Len(s) /\ Len(s) \in Nat
         /\ DOMAIN Append(s, m) = 1..Len(s) + 1
         /\ \A i \in DOMAIN s : Append(s, m)[i] = s[i]
         /\ Append(s, m)[Len(s) + 1] = m
  OBVIOUS

\* The messages of a sequence without its first.
LEMMA Taking ==
  ASSUME NEW S, NEW s \in Seq(S), s # <<>>
  PROVE  /\ Head(s) \in S /\ Tail(s) \in Seq(S)
         /\ Len(s) \in Nat /\ DOMAIN s = 1..Len(s) /\ 1 \in DOMAIN s /\ Head(s) = s[1]
         /\ DOMAIN Tail(s) = 1..Len(s) - 1
         /\ \A i \in DOMAIN Tail(s) : Tail(s)[i] = s[i + 1] /\ i + 1 \in DOMAIN s
  OBVIOUS

-----------------------------------------------------------------------------
(* Messages, and what the helpers of the actions do *)

\* Messages to the host that say nothing of changes, ask for no save and end no operation well.
Plain == {m \in HostMessages : m.type \notin {"state", "dirty", "editor-save-request"} /\ ~Ends(m)}

\* What is sent to the host.
LEMMA HostMessage ==
  /\ [type |-> "document-ready"] \in Plain /\ [type |-> "error"] \in Plain /\ [type |-> "bridge-ready"] \in Plain
  /\ \A id \in Nat : /\ [type |-> "capability-request", id |-> id] \in Plain
                     /\ [type |-> "editor-save-request", id |-> id] \in HostMessages
                     /\ [type |-> "editor-save-request", id |-> id] \notin States \cup Reports
  /\ \A b \in BOOLEAN : /\ [type |-> "state", dirty |-> b] \in States \ Reports
                        /\ [type |-> "state", dirty |-> b] \in Unsent <=> b
                        /\ [type |-> "dirty", dirty |-> b] \in Reports \ States
                        /\ [type |-> "dirty", dirty |-> b] \in Changes <=> b
  /\ \A action \in Actions, op \in Nat :
       /\ \A result \in {"pending", "failed"} :
            [type |-> "operation", action |-> action, status |-> result, op |-> op] \in Plain
       /\ [type |-> "operation", action |-> action, status |-> "completed", op |-> op] \in Reports \ States
<1>1. /\ [type |-> "document-ready"] \in Plain /\ [type |-> "error"] \in Plain /\ [type |-> "bridge-ready"] \in Plain
  BY DEF HostMessages, Plain, Ends
<1>2. \A id \in Nat : /\ [type |-> "capability-request", id |-> id] \in Plain
                      /\ [type |-> "editor-save-request", id |-> id] \in HostMessages
                      /\ [type |-> "editor-save-request", id |-> id] \notin States \cup Reports
  BY DEF HostMessages, Plain, Ends, States, Reports
<1>3. \A b \in BOOLEAN : /\ [type |-> "state", dirty |-> b] \in States \ Reports
                         /\ [type |-> "state", dirty |-> b] \in Unsent <=> b
                         /\ [type |-> "dirty", dirty |-> b] \in Reports \ States
                         /\ [type |-> "dirty", dirty |-> b] \in Changes <=> b
  BY DEF HostMessages, Ends, States, Reports, Unsent, Changes
<1>4. ASSUME NEW action \in Actions, NEW op \in Nat
      PROVE  /\ \A result \in {"pending", "failed"} :
                  [type |-> "operation", action |-> action, status |-> result, op |-> op] \in Plain
             /\ [type |-> "operation", action |-> action, status |-> "completed", op |-> op] \in Reports \ States
  BY DEF HostMessages, Plain, Ends, States, Reports
<1> QED BY <1>1, <1>2, <1>3, <1>4

\* The sets of messages.
LEMMA Kinds ==
  /\ Plain \subseteq HostMessages /\ States \subseteq HostMessages /\ Reports \subseteq HostMessages
  /\ Unsent \subseteq States /\ Changes \subseteq Reports
  /\ \A m \in Plain : m \notin States /\ m \notin Reports /\ m.type # "editor-save-request" /\ ~Ends(m)
  BY DEF Plain, States, Reports, Unsent, Changes, Ends

\* What a message to the host holds.
LEMMA Fields ==
  ASSUME NEW m \in HostMessages
  PROVE  /\ m.type \in {"document-ready", "error", "bridge-ready", "state", "dirty", "editor-save-request",
                        "capability-request", "operation"}
         /\ m.type \in {"state", "dirty"} => m.dirty \in BOOLEAN
         /\ m.type \in {"editor-save-request", "capability-request"} => m.id \in Nat
         /\ m.type = "operation" => /\ m.op \in Nat /\ m.action \in Actions
                                    /\ m.status \in {"pending", "completed", "failed"}
         /\ m \in States <=> m.type = "state"
         /\ m \in Unsent <=> m.type = "state" /\ m.dirty
         /\ m \in Reports <=> m.type = "dirty" \/ Ends(m)
         /\ m \in Changes <=> m.type = "dirty" /\ m.dirty
  BY DEF HostMessages, States, Unsent, Reports, Changes

\* What is sent to the plugin.
LEMMA PluginMessage ==
  /\ [type |-> "bridge-ack"] \in PluginMessages /\ [type |-> "run"] \in PluginMessages
  /\ \A id \in Nat, b \in BOOLEAN : /\ SaveResponse(id, b) \in PluginMessages
                                    /\ [type |-> "capability-response", id |-> id, granted |-> b] \in PluginMessages
  BY DEF PluginMessages, SaveResponse

\* What a message to the plugin holds.
LEMMA PluginFields ==
  ASSUME NEW m \in PluginMessages
  PROVE  m.type = "editor-save-response" => m.id \in Nat /\ m.saved \in BOOLEAN
  BY DEF PluginMessages

\* An editor that is loaded again.
LEMMA Reloading ==
  ASSUME Types, Reload
  PROVE  /\ host' \in Hosts /\ plugin' = NoPlugin /\ plugin' \in Plugins /\ office' \in Offices
         /\ toHost' = <<>> /\ toPlugin' = <<>>
         /\ toHost' \in Seq(HostMessages) /\ toPlugin' \in Seq(PluginMessages)
         /\ host'.phase = "loading" /\ ~host'.pinned /\ host'.native = "unknown" /\ host'.pending = 0
         /\ office'.key = server.key /\ office'.content = server.document /\ office'.sent = server.document
<1>1. host' \in Hosts
  BY DEF Types, Reload, Hosts, Unpinned
<1>2. plugin' \in Plugins
  BY DEF Types, Reload, Plugins, NoPlugin, Actions, PluginStep
<1>3. office' \in Offices
  BY DEF Types, Reload, Loaded, NoOffice, Offices, Servers
<1> QED BY <1>1, <1>2, <1>3 DEF Reload, Unpinned, Loaded, NoOffice

\* The controls are opened, which is noted of an editor that is frozen.
LEMMA Restricting ==
  ASSUME Types, Restrict
  PROVE  /\ office' \in Offices /\ history' \subseteq {"changed", "ignored", "thawed", "unheard"}
         /\ office'.key = office.key /\ office'.content = office.content /\ office'.sent = office.sent
         /\ history \subseteq history'
         /\ "unheard" \in history' <=> "unheard" \in history
         /\ "changed" \in history' <=> "changed" \in history
         /\ office.restriction = "readOnly" => "thawed" \in history'
  BY DEF Types, Restrict, Offices

\* What an action that fails leaves, and tells the host.
LEMMA Ending ==
  ASSUME Types, NEW op \in Nat, ActionFails(op)
  PROVE  /\ plugin' \in Plugins
         /\ plugin'.up = plugin.up /\ plugin'.ack = plugin.ack /\ plugin'.dirty = plugin.dirty
         /\ plugin'.early = plugin.early /\ plugin'.timer = plugin.timer /\ plugin'.prefill = plugin.prefill
         /\ plugin'.data = plugin.data /\ plugin'.asked = plugin.asked
         /\ plugin'.step = IF Frozen(plugin.step) THEN "restore" ELSE "idle"
         /\ \/ toHost' = toHost
            \/ \E m \in Plain : toHost' = Append(toHost, m)
<1>1. plugin' \in Plugins /\ plugin'.step = IF Frozen(plugin.step) THEN "restore" ELSE "idle"
  BY DEF Types, ActionFails, Plugins, PluginStep, Actions
<1>2. /\ plugin'.up = plugin.up /\ plugin'.ack = plugin.ack /\ plugin'.dirty = plugin.dirty
      /\ plugin'.early = plugin.early /\ plugin'.timer = plugin.timer /\ plugin'.prefill = plugin.prefill
      /\ plugin'.data = plugin.data /\ plugin'.asked = plugin.asked
  BY DEF Types, ActionFails, Plugins, PluginStep, Actions
<1>3. ASSUME plugin.ack PROVE \E m \in Plain : toHost' = Append(toHost, m)
  <2>1. PICK m : m = [type |-> "operation", action |-> plugin.action, status |-> "failed", op |-> op]
    OBVIOUS
  <2>2. m \in Plain /\ m \in HostMessages
    BY <2>1, HostMessage, Kinds DEF Types, Plugins
  <2>3. toHost' = toHost \o <<m>>
    BY <1>3, <2>1 DEF ActionFails, notifyParent
  <2>4. toHost' = Append(toHost, m)
    BY <2>2, <2>3, Joining DEF Types
  <2> QED BY <2>2, <2>4
<1>4. ASSUME ~plugin.ack PROVE toHost' = toHost
  <2>1. toHost' = toHost \o <<>>
    BY <1>4 DEF ActionFails, notifyParent
  <2> QED BY <2>1 DEF Types
<1> QED BY <1>1, <1>2, <1>3, <1>4

\* What a change of the content tells the host: that there are changes to be sent, and that the
\* plugin knows of them, each once.
LEMMA Changing ==
  ASSUME Types
  PROVE  LET state == [type |-> "state", dirty |-> TRUE]
             dirty == [type |-> "dirty", dirty |-> TRUE]
             sent  == IF office.content = office.sent THEN Append(toHost, state) ELSE toHost
         IN  /\ toHost \o StateEvent \o <<>> = sent
             /\ toHost \o StateEvent \o setDirtyState(plugin, TRUE)
                  = IF plugin.dirty THEN sent ELSE Append(sent, dirty)
<1> DEFINE state == [type |-> "state", dirty |-> TRUE]
           dirty == [type |-> "dirty", dirty |-> TRUE]
           sent  == IF office.content = office.sent THEN Append(toHost, state) ELSE toHost
<1>1. state \in HostMessages /\ dirty \in HostMessages
  BY HostMessage, Kinds
<1>2. toHost \o StateEvent = sent
  <2>1. ASSUME office.content = office.sent PROVE StateEvent = <<state>>
    BY <2>1 DEF StateEvent
  <2>2. ASSUME office.content # office.sent PROVE StateEvent = <<>>
    BY <2>2 DEF StateEvent
  <2>3. toHost \o <<>> = toHost /\ toHost \o <<state>> = Append(toHost, state)
    BY <1>1, Joining DEF Types
  <2> QED BY <2>1, <2>2, <2>3
<1>3. sent \in Seq(HostMessages)
  BY <1>1, Appending DEF Types
<1>4. sent \o <<>> = sent /\ sent \o <<dirty>> = Append(sent, dirty)
  BY <1>1, <1>3, Joining
<1>5. setDirtyState(plugin, TRUE) = IF plugin.dirty THEN <<>> ELSE <<dirty>>
  BY DEF setDirtyState, Types, Plugins
<1> HIDE DEF state, dirty, sent
<1>6. toHost \o StateEvent \o setDirtyState(plugin, TRUE) = IF plugin.dirty THEN sent ELSE Append(sent, dirty)
  BY <1>2, <1>4, <1>5
<1> QED BY <1>2, <1>4, <1>6 DEF state, dirty, sent

\* The first message to the host is taken.
LEMMA Hearing ==
  ASSUME Types, NEW t, Said(t)
  PROVE  /\ host.phase = "mounted" /\ Open
         /\ Head(toHost) \in HostMessages /\ Head(toHost).type = t
         /\ Tail(toHost) \in Seq(HostMessages) /\ toHost # <<>>
  BY Taking DEF Types, Said, Mounted, Open

\* The first message to the plugin is taken.
LEMMA Asking ==
  ASSUME Types, NEW t, Asked(t)
  PROVE  /\ host.phase = "mounted" /\ Open
         /\ Head(toPlugin) \in PluginMessages /\ Head(toPlugin).type = t
         /\ Tail(toPlugin) \in Seq(PluginMessages) /\ toPlugin # <<>>
  BY Taking DEF Types, Asked, Mounted, Open

\* The save request that waits is answered, if one does.
LEMMA Answering ==
  ASSUME Types, NEW saved \in BOOLEAN, respondToEditorSave(saved)
  PROVE  /\ toPlugin' \in Seq(PluginMessages)
         /\ \/ toPlugin' = toPlugin
            \/ host.pending # 0 /\ toPlugin' = Append(toPlugin, SaveResponse(host.pending, saved))
<1>1. SaveResponse(host.pending, saved) \in PluginMessages
  BY PluginMessage DEF Types, Hosts
<1>2. Append(toPlugin, SaveResponse(host.pending, saved)) \in Seq(PluginMessages)
  BY <1>1, Appending DEF Types
<1> QED BY <1>2 DEF Types, respondToEditorSave

\* An action that fails keeps the types.
LEMMA EndingTyped ==
  ASSUME Types, NEW op \in Nat, ActionFails(op)
  PROVE  plugin' \in Plugins /\ toHost' \in Seq(HostMessages)
<1>1. ASSUME NEW m \in Plain PROVE Append(toHost, m) \in Seq(HostMessages)
  BY Kinds, Appending DEF Types
<1> QED BY <1>1, Ending DEF Types

\* A change of the content keeps the types.
LEMMA ChangingTyped ==
  ASSUME Types
  PROVE  /\ toHost \o StateEvent \o <<>> \in Seq(HostMessages)
         /\ toHost \o StateEvent \o setDirtyState(plugin, TRUE) \in Seq(HostMessages)
<1>1. /\ [type |-> "state", dirty |-> TRUE] \in HostMessages
      /\ [type |-> "dirty", dirty |-> TRUE] \in HostMessages
  BY HostMessage, Kinds
<1> DEFINE sent == IF office.content = office.sent THEN Append(toHost, [type |-> "state", dirty |-> TRUE]) ELSE toHost
<1>2. sent \in Seq(HostMessages)
  BY <1>1, Appending DEF Types
<1>3. Append(sent, [type |-> "dirty", dirty |-> TRUE]) \in Seq(HostMessages)
  BY <1>1, <1>2, Appending
<1> QED BY <1>2, <1>3, Changing

\* The messages of a plugin that starts.
LEMMA Starting ==
  ASSUME Types, Down, ~plugin.up
  PROVE  LET ready == [type |-> "bridge-ready"]
             dirty == [type |-> "dirty", dirty |-> TRUE]
         IN  /\ toHost \o (IF plugin.early THEN setDirtyState(plugin, TRUE) ELSE <<>>) \o <<ready>>
                  = IF plugin.early THEN Append(Append(toHost, dirty), ready) ELSE Append(toHost, ready)
             /\ Append(toHost, dirty) \in Seq(HostMessages)
             /\ Append(Append(toHost, dirty), ready) \in Seq(HostMessages)
             /\ Append(toHost, ready) \in Seq(HostMessages)
<1> DEFINE ready == [type |-> "bridge-ready"]
           dirty == [type |-> "dirty", dirty |-> TRUE]
<1>1. ready \in HostMessages /\ dirty \in HostMessages
  BY HostMessage, Kinds
<1>2. setDirtyState(plugin, TRUE) = <<dirty>>
  BY DEF setDirtyState, Down, Types, Plugins
<1> HIDE DEF ready, dirty
<1>3. toHost \o <<dirty>> = Append(toHost, dirty) /\ toHost \o <<>> = toHost
  BY <1>1, Joining DEF Types
<1>4. Append(toHost, dirty) \in Seq(HostMessages) /\ Append(toHost, ready) \in Seq(HostMessages)
  BY <1>1, Appending DEF Types
<1>5. /\ toHost \o <<ready>> = Append(toHost, ready)
      /\ Append(toHost, dirty) \o <<ready>> = Append(Append(toHost, dirty), ready)
      /\ Append(Append(toHost, dirty), ready) \in Seq(HostMessages)
  BY <1>1, <1>4, Joining, Appending DEF Types
<1>6. CASE plugin.early
  BY <1>2, <1>3, <1>4, <1>5, <1>6 DEF ready, dirty
<1>7. CASE ~plugin.early
  BY <1>3, <1>4, <1>5, <1>7 DEF ready, dirty
<1> QED BY <1>6, <1>7

\* The messages of an operation that is posted.
LEMMA Posting ==
  ASSUME Types, NEW op \in Nat
  PROVE  /\ \/ toHost \o notifyParent("pending", op) = toHost
            \/ \E m \in Plain : toHost \o notifyParent("pending", op) = Append(toHost, m)
         /\ toHost \o notifyParent("pending", op) \in Seq(HostMessages)
<1>1. PICK m : m = [type |-> "operation", action |-> plugin.action, status |-> "pending", op |-> op]
  OBVIOUS
<1>2. m \in Plain /\ m \in HostMessages
  BY <1>1, HostMessage, Kinds DEF Types, Plugins
<1>3. notifyParent("pending", op) = IF plugin.ack THEN <<m>> ELSE <<>>
  BY <1>1 DEF notifyParent
<1>4. toHost \o <<>> = toHost /\ toHost \o <<m>> = Append(toHost, m)
  BY <1>2, Joining DEF Types
<1>5. Append(toHost, m) \in Seq(HostMessages) /\ toHost \in Seq(HostMessages)
  BY <1>2, Appending DEF Types
<1> QED BY <1>2, <1>3, <1>4, <1>5

\* The messages of an operation that is found completed: that it ended well, and then that
\* there are no changes any more.
LEMMA Completing ==
  ASSUME Types, NEW op \in Nat
  PROVE  \E ended \in Reports \ States :
           LET clean == [type |-> "dirty", dirty |-> FALSE]
               first == IF plugin.ack THEN Append(toHost, ended) ELSE toHost
           IN  /\ Ends(ended) /\ ended.type # "editor-save-request"
               /\ first \in Seq(HostMessages) /\ Append(first, clean) \in Seq(HostMessages)
               /\ toHost \o notifyParent("completed", op) \o setDirtyState(plugin, FALSE)
                    = IF plugin.dirty THEN Append(first, clean) ELSE first
<1> DEFINE clean == [type |-> "dirty", dirty |-> FALSE]
<1>1. PICK ended : ended = [type |-> "operation", action |-> plugin.action, status |-> "completed", op |-> op]
  OBVIOUS
<1>2. ended \in Reports \ States /\ ended \in HostMessages /\ clean \in HostMessages
  BY <1>1, HostMessage, Kinds DEF Types, Plugins
<1>3. Ends(ended) /\ ended.type # "editor-save-request"
  BY <1>1 DEF Ends
<1>4. notifyParent("completed", op) = IF plugin.ack THEN <<ended>> ELSE <<>>
  BY <1>1 DEF notifyParent
<1>5. setDirtyState(plugin, FALSE) = IF plugin.dirty THEN <<clean>> ELSE <<>>
  BY DEF setDirtyState, Types, Plugins
<1> DEFINE first == IF plugin.ack THEN Append(toHost, ended) ELSE toHost
<1> HIDE DEF clean
<1>6. toHost \o <<>> = toHost /\ toHost \o <<ended>> = Append(toHost, ended)
  BY <1>2, Joining DEF Types
<1>7. first \in Seq(HostMessages) /\ toHost \o notifyParent("completed", op) = first
  BY <1>2, <1>4, <1>6, Appending DEF Types
<1> HIDE DEF first
<1>8. first \o <<>> = first /\ first \o <<clean>> = Append(first, clean) /\ Append(first, clean) \in Seq(HostMessages)
  BY <1>2, <1>7, Joining, Appending
<1>9. toHost \o notifyParent("completed", op) \o setDirtyState(plugin, FALSE)
        = IF plugin.dirty THEN Append(first, clean) ELSE first
  BY <1>5, <1>7, <1>8
<1> QED BY <1>2, <1>3, <1>7, <1>8, <1>9 DEF first, clean

-----------------------------------------------------------------------------
(* The parts of the invariant, step by step *)

\* Every step keeps the types.
LEMMA TypesKept ==
  ASSUME Types, Down, Next
  PROVE  Types'
<1>1. CASE LoadConfig
  BY <1>1 DEF LoadConfig, Types, Hosts
<1>2. CASE onDocumentReady
  <2>1. toHost' \in Seq(HostMessages)
    BY <1>2, HostMessage, Kinds, Appending DEF onDocumentReady, Say, Types
  <2> QED BY <1>2, <2>1 DEF onDocumentReady, Types, Offices
<1>3. CASE SendChanges
  <2>1. toHost' \in Seq(HostMessages)
    BY <1>3, HostMessage, Kinds, Appending DEF SendChanges, Say, Types
  <2> QED BY <1>3, <2>1 DEF SendChanges, Types, Offices
<1>4. CASE SendFails
  <2>1. toHost' \in Seq(HostMessages)
    BY <1>4, HostMessage, Kinds, Appending DEF SendFails, Say, Types
  <2> QED BY <1>4, <2>1 DEF SendFails, Types
<1>5. CASE initializePlugin
  <2>1. toHost' \in Seq(HostMessages)
    BY <1>5, Starting DEF initializePlugin
  <2> QED BY <1>5, <2>1 DEF initializePlugin, Types, Plugins, Offices
<1>6. CASE CapabilityTimeout
  <2>1. plugin' \in Plugins /\ toHost' \in Seq(HostMessages)
    BY <1>6, EndingTyped DEF CapabilityTimeout
  <2> QED BY <1>6, <2>1 DEF CapabilityTimeout, Types
<1>7. CASE Settle
  <2>1. /\ office.sent \in Nat /\ server.posted \in Nat /\ server.key + 1 \in Nat
        /\ server.document \in Nat /\ server.data \in Nat
    BY DEF Types, Offices, Servers
  <2>2. CASE server' = [server EXCEPT !.op = "failed"]
    BY <1>7, <2>2 DEF Settle, Types, Servers
  <2>3. CASE server' = [server EXCEPT !.op = "completed", !.data = server.posted, !.key = @ + 1,
                          !.document = IF form.step = "none" THEN office.sent ELSE server.posted]
    BY <1>7, <2>1, <2>3 DEF Settle, Types, Servers
  <2> QED BY <1>7, <2>2, <2>3 DEF Settle
<1>8. CASE startResponse
  <2>1. page' \in Pages
    BY <1>8 DEF startResponse, Types, Pages
  <2>2. options' \in Options
    BY <1>8 DEF startResponse, Types, Options
  <2>3. host' \in Hosts
    BY <1>8 DEF startResponse, Types, Hosts
  <2>4. form' \in Forms
    BY <1>8 DEF startResponse, Types, Forms
  <2> QED BY <1>8, <2>1, <2>2, <2>3, <2>4 DEF startResponse, Types
<1>9. CASE ChangeValue
  <2>1. form' \in Forms
    BY <1>9 DEF ChangeValue, Types, Forms, NativeFails, NativeStep, NativeVars, Open, Changed
  <2>2. page' \in Pages
    BY <1>9 DEF ChangeValue, Types, Pages, NativeFails, NativeStep, NativeVars, Open, Changed
  <2>3. count' \in [changes : Nat, actions : Nat]
    BY <1>9 DEF ChangeValue, Types, NativeFails, NativeStep, NativeVars, Open, Changed
  <2> QED BY <1>9, <2>1, <2>2, <2>3 DEF ChangeValue, Types, NativeVars
<1>10. CASE OtherSession
  <2>1. count.changes + 1 \in Nat /\ server.key + 1 \in Nat
    BY DEF Types, Servers
  <2>2. PICK n \in Nat, key \in Nat : server' = [server EXCEPT !.document = n, !.data = n, !.key = key]
    BY <1>10, <2>1 DEF OtherSession
  <2>3. server' \in Servers
    BY <2>2 DEF Types, Servers
  <2>4. count' \in [changes : Nat, actions : Nat]
    BY <1>10 DEF OtherSession, Changed, Types
  <2> QED BY <1>10, <2>3, <2>4 DEF OtherSession, Types, NativeVars
<1>11. CASE saveNativeResponse
  <2>1. form' \in Forms
    <3>1. PICK action \in {"save-draft", "submit"} : form' = [form EXCEPT !.step = "latest", !.action = action]
      BY <1>11 DEF saveNativeResponse
    <3> QED BY <3>1 DEF Types, Forms, Actions
  <2>2. page' \in Pages
    <3>1. \/ page' = page
          \/ page' = [page EXCEPT !.exporting = TRUE]
          \/ page' = [page EXCEPT !.exiting = TRUE]
      BY <1>11 DEF saveNativeResponse
    <3> QED BY <3>1 DEF Types, Pages
  <2>3. count' \in [changes : Nat, actions : Nat]
    BY <1>11 DEF saveNativeResponse, Types
  <2> QED BY <1>11, <2>1, <2>2, <2>3 DEF saveNativeResponse, Types, NativeVars
<1>12. CASE HostDocumentReady
  BY <1>12, Hearing DEF HostDocumentReady, Heard, Types, Hosts
<1>13. CASE onDocumentStateChange
  <2>1. toHost' \in Seq(HostMessages)
    BY <1>13, Hearing DEF onDocumentStateChange, Heard
  <2>2. CASE host' = [host EXCEPT !.native = "dirty"] /\ UNCHANGED toPlugin
    BY <1>13, <2>1, <2>2 DEF onDocumentStateChange, Types, Hosts
  <2>3. CASE /\ respondToEditorSave(TRUE)
             /\ host' = [host EXCEPT !.native = "clean", !.failed = FALSE,
                                      !.pending = IF host.pinned THEN 0 ELSE @]
    <3>1. toPlugin' \in Seq(PluginMessages)
      BY <2>3, Answering
    <3>2. host' \in Hosts
      BY <2>3 DEF Types, Hosts
    <3> QED BY <1>13, <2>1, <3>1, <3>2 DEF onDocumentStateChange, Types
  <2> QED BY <1>13, <2>2, <2>3 DEF onDocumentStateChange
<1>14. CASE onError
  <2>1. toHost' \in Seq(HostMessages)
    BY <1>14, Hearing DEF onError, Heard
  <2>2. toPlugin' \in Seq(PluginMessages)
    BY <1>14, Answering DEF onError
  <2>3. host' \in Hosts
    BY <1>14 DEF onError, Types, Hosts
  <2> QED BY <1>14, <2>1, <2>2, <2>3 DEF onError, Types
<1>15. CASE BridgeReady
  <2>1. toHost' \in Seq(HostMessages) /\ toPlugin' \in Seq(PluginMessages)
    BY <1>15, Hearing, PluginMessage, Appending DEF BridgeReady, Heard, Tell, Types
  <2> QED BY <1>15, <2>1 DEF BridgeReady, Types, Hosts
<1>16. CASE Unheard
  BY <1>16, Taking DEF Unheard, Heard, Types
<1>17. CASE EditorSaveRequest
  <2>1. toHost' \in Seq(HostMessages) /\ Head(toHost).id \in Nat
    BY <1>17, Hearing, Fields DEF EditorSaveRequest, Heard
  <2>2. \A saved \in BOOLEAN : Append(toPlugin, SaveResponse(Head(toHost).id, saved)) \in Seq(PluginMessages)
    BY <2>1, PluginMessage, Appending DEF Types
  <2>3. toPlugin' \in Seq(PluginMessages)
    BY <1>17, <2>2 DEF EditorSaveRequest, Tell, Types
  <2>4. \E pending \in Nat : host' = [host EXCEPT !.pending = pending]
    BY <1>17, <2>1 DEF EditorSaveRequest
  <2>5. host' \in Hosts
    BY <2>4 DEF Types, Hosts
  <2> QED BY <1>17, <2>1, <2>3, <2>5 DEF EditorSaveRequest, Types
<1>18. CASE CapabilityRequest
  <2>1. toHost' \in Seq(HostMessages) /\ Head(toHost).id \in Nat
    BY <1>18, Hearing, Fields DEF CapabilityRequest, Heard
  <2> QED BY <1>18, <2>1 DEF CapabilityRequest, Types, Hosts
<1>19. CASE DirtyMessage
  <2>1. toHost' \in Seq(HostMessages) /\ Head(toHost).dirty \in BOOLEAN
    BY <1>19, Hearing, Fields DEF DirtyMessage, Heard
  <2> QED BY <1>19, <2>1 DEF DirtyMessage, Types, Pages
<1>20. CASE PostRunAction
  <2>1. toPlugin' \in Seq(PluginMessages)
    BY <1>20, PluginMessage, Appending DEF PostRunAction, Tell, Types
  <2>2. host' \in Hosts
    BY <1>20 DEF PostRunAction, Types, Hosts, Pages
  <2> QED BY <1>20, <2>1, <2>2 DEF PostRunAction, Types
<1>21. CASE \E id \in host.renewing : renewCapability(id)
  <2>1. PICK id \in host.renewing : renewCapability(id)
    BY <1>21
  <2>2. id \in Nat
    BY <2>1 DEF Types, Hosts
  <2>3. \A granted \in BOOLEAN :
          Append(toPlugin, [type |-> "capability-response", id |-> id, granted |-> granted]) \in Seq(PluginMessages)
    BY <2>2, PluginMessage, Appending DEF Types
  <2>4. toPlugin' \in Seq(PluginMessages)
    BY <2>1, <2>3 DEF renewCapability, Tell, Failing
  <2> QED BY <2>1, <2>4 DEF renewCapability, Types, Hosts
<1>22. CASE OperationPending
  BY <1>22, Hearing DEF OperationPending, Operation, Heard, Types, Pages
<1>23. CASE OperationFailed
  <2>1. toHost' \in Seq(HostMessages) /\ Head(toHost).op \in Nat
    BY <1>23, Hearing, Fields DEF OperationFailed, Operation, Heard
  <2>2. page' \in Pages
    BY <1>23 DEF OperationFailed, Types, Pages
  <2>3. host' \in Hosts
    BY <1>23, <2>1 DEF OperationFailed, PassedOn, Types, Hosts
  <2> QED BY <1>23, <2>1, <2>2, <2>3 DEF OperationFailed, Types
<1>24. CASE DraftSaved
  <2>1. page' \in Pages
    BY <1>24 DEF DraftSaved, Types, Pages
  <2> QED BY <1>24, <2>1, Reloading DEF DraftSaved, Types
<1>25. CASE Submitted
  <2>1. toHost' \in Seq(HostMessages) /\ Head(toHost).op \in Nat
    BY <1>25, Hearing, Fields DEF Submitted, Operation, Heard
  <2> QED BY <1>25, <2>1 DEF Submitted, PassedOn, Types, Pages, Hosts
<1>26. CASE reopenOnlyOfficeResponseForNewEntry
  <2>1. CASE /\ page' = [page EXCEPT !.reopening = FALSE, !.dirty = FALSE]
             /\ \E prefilled \in BOOLEAN : options' = [action |-> "fill", prefilled |-> prefilled]
             /\ Reload
             /\ history' = history \cup LostRequests
    <3>1. page' \in Pages
      BY <2>1 DEF Types, Pages
    <3>3. options' \in Options
      BY <2>1 DEF Options
    <3>2. history' \subseteq {"changed", "ignored", "thawed", "unheard"}
      BY <2>1 DEF Types, LostRequests
    <3> QED BY <1>26, <2>1, <3>1, <3>2, <3>3, Reloading DEF reopenOnlyOfficeResponseForNewEntry, Types
  <2>2. CASE /\ page' = [page EXCEPT !.reopening = FALSE]
             /\ UNCHANGED <<options, host, plugin, office, toHost, toPlugin, history>>
    <3>1. page' \in Pages
      BY <2>2 DEF Types, Pages
    <3> QED BY <1>26, <2>2, <3>1 DEF reopenOnlyOfficeResponseForNewEntry, Types
  <2> QED BY <1>26, <2>1, <2>2 DEF reopenOnlyOfficeResponseForNewEntry
<1>27. CASE CorrectionSaved
  <2>1. toHost' \in Seq(HostMessages) /\ Head(toHost).op \in Nat
    BY <1>27, Hearing, Fields DEF CorrectionSaved, Operation, Heard
  <2> QED BY <1>27, <2>1 DEF CorrectionSaved, PassedOn, Types, Pages, Hosts
<1>28. CASE saveThenDownload
  BY <1>28 DEF saveThenDownload, Types, Pages
<1>29. CASE startInitializationTasks
  <2>1. plugin' \in Plugins
    BY <1>29 DEF startInitializationTasks, Types, Plugins
  <2>2. office' \in Offices /\ history' \subseteq {"changed", "ignored", "thawed", "unheard"}
    BY <1>29, Restricting DEF startInitializationTasks, Types
  <2> QED BY <1>29, <2>1, <2>2 DEF startInitializationTasks, Types
<1>30. CASE RestrictTimer
  <2>1. plugin' \in Plugins
    BY <1>30 DEF RestrictTimer, Types, Plugins
  <2> QED BY <1>30, <2>1, Restricting DEF RestrictTimer, Types
<1>31. CASE PrefillTimer
  BY <1>31 DEF PrefillTimer, Types, Plugins
<1>32. CASE ensurePrefill
  <2>1. plugin' \in Plugins
    <3>1. \/ plugin' = [plugin EXCEPT !.prefill = "failed"]
          \/ plugin' = [plugin EXCEPT !.prefill = "done"]
          \/ plugin' = [plugin EXCEPT !.prefill = "done", !.dirty = TRUE]
      BY <1>32 DEF ensurePrefill
    <3> QED BY <3>1 DEF Types, Plugins
  <2>2. CASE UNCHANGED <<office, toHost, history, count>>
    BY <1>32, <2>1, <2>2 DEF ensurePrefill, Types
  <2>3. CASE Restrict /\ UNCHANGED <<toHost, count>>
    BY <1>32, <2>1, <2>3, Restricting DEF ensurePrefill, Types
  <2>4. CASE /\ Changed
             /\ office' = [office EXCEPT !.restriction = "forms", !.content = count.changes + 1]
             /\ toHost' = toHost \o StateEvent \o setDirtyState(plugin, TRUE)
             /\ Slips
    <3>1. toHost' \in Seq(HostMessages)
      BY <2>4, ChangingTyped
    <3>5. count.changes + 1 \in Nat
      BY DEF Types
    <3>2. PICK n \in Nat : office' = [office EXCEPT !.restriction = "forms", !.content = n]
      BY <2>4, <3>5
    <3>4. office' \in Offices
      BY <3>2 DEF Types, Offices
    <3>3. count' \in [changes : Nat, actions : Nat]
      BY <2>4 DEF Changed, Types
    <3>6. history' \subseteq {"changed", "ignored", "thawed", "unheard"}
      BY <2>4 DEF Slips, Types
    <3> QED BY <1>32, <2>1, <2>4, <3>1, <3>3, <3>4, <3>6 DEF ensurePrefill, Types
  <2> QED BY <1>32, <2>2, <2>3, <2>4 DEF ensurePrefill
<1>33. CASE RunRequested
  <2>1. toPlugin' \in Seq(PluginMessages)
    BY <1>33, Asking DEF RunRequested, Told
  <2>2. plugin' \in Plugins
    <3>1. \/ plugin' = plugin
          \/ \E action \in {"save-draft", "save-correction"} :
               plugin' = [plugin EXCEPT !.step = "prepare", !.action = action]
      BY <1>33 DEF RunRequested
    <3> QED BY <3>1 DEF Types, Plugins, PluginStep, Actions
  <2>3. history' \subseteq {"changed", "ignored", "thawed", "unheard"}
    BY <1>33 DEF RunRequested, Types
  <2> QED BY <1>33, <2>1, <2>2, <2>3 DEF RunRequested, Types
<1>34. CASE PrepareAction
  <2>1. CASE UNCHANGED <<office, toHost, history>> /\ plugin' = [plugin EXCEPT !.prefill = "applying"]
    BY <1>34, <2>1 DEF PrepareAction, Types, Plugins
  <2>2. CASE ActionFails(0) /\ UNCHANGED <<office, history>>
    <3>1. plugin' \in Plugins /\ toHost' \in Seq(HostMessages)
      BY <2>2, EndingTyped
    <3> QED BY <1>34, <2>2, <3>1 DEF PrepareAction, Types
  <2>3. CASE /\ Advance("freeze") /\ UNCHANGED toHost
             /\ Restrict \/ UNCHANGED <<office, history>>
    <3>1. plugin' \in Plugins
      BY <2>3 DEF Advance, Types, Plugins, PluginStep
    <3>2. office' \in Offices /\ history' \subseteq {"changed", "ignored", "thawed", "unheard"}
      BY <2>3, Restricting DEF Types
    <3> QED BY <1>34, <2>3, <3>1, <3>2 DEF PrepareAction, Types
  <2> QED BY <1>34, <2>1, <2>2, <2>3 DEF PrepareAction
<1>35. CASE freezeEditor
  BY <1>35 DEF freezeEditor, Advance, Types, Plugins, PluginStep, Offices
<1>36. CASE extractFormData
  BY <1>36 DEF extractFormData, Types, Plugins, PluginStep, Offices
<1>37. CASE flushEditorChanges
  <2>1. CASE ActionFails(0)
    <3>1. plugin' \in Plugins /\ toHost' \in Seq(HostMessages)
      BY <2>1, EndingTyped
    <3> QED BY <1>37, <2>1, <3>1 DEF flushEditorChanges, Types
  <2>2. CASE /\ plugin' = [plugin EXCEPT !.step = "saving", !.asked = @ + 1]
             /\ Say([type |-> "editor-save-request", id |-> plugin.asked + 1])
    <3>1. plugin.asked + 1 \in Nat
      BY DEF Types, Plugins
    <3>3. PICK n \in Nat : plugin' = [plugin EXCEPT !.step = "saving", !.asked = n]
      BY <2>2, <3>1
    <3>4. plugin' \in Plugins
      BY <3>3 DEF Types, Plugins, PluginStep
    <3>2. toHost' \in Seq(HostMessages)
      BY <2>2, <3>1, HostMessage, Appending DEF Say, Types
    <3> QED BY <1>37, <2>2, <3>2, <3>4 DEF flushEditorChanges, Types
  <2> QED BY <1>37, <2>1, <2>2 DEF flushEditorChanges
<1>38. CASE EditorSaveAnswered
  <2>1. toPlugin' \in Seq(PluginMessages) /\ Head(toPlugin).id \in Nat
    BY <1>38, Asking, PluginFields DEF EditorSaveAnswered, Told
  <2>2. CASE UNCHANGED <<plugin, toHost>>
    BY <1>38, <2>1, <2>2 DEF EditorSaveAnswered, Types
  <2>3. CASE ActionFails(0)
    <3>1. plugin' \in Plugins /\ toHost' \in Seq(HostMessages)
      BY <2>3, EndingTyped
    <3> QED BY <1>38, <2>1, <2>3, <3>1 DEF EditorSaveAnswered, Types
  <2>4. CASE Advance("granting") /\ Say([type |-> "capability-request", id |-> Head(toPlugin).id])
    <3>1. plugin' \in Plugins
      BY <2>4 DEF Advance, Types, Plugins, PluginStep
    <3>2. toHost' \in Seq(HostMessages)
      BY <2>1, <2>4, HostMessage, Kinds, Appending DEF Say, Types
    <3> QED BY <1>38, <2>1, <2>4, <3>1, <3>2 DEF EditorSaveAnswered, Types
  <2> QED BY <1>38, <2>2, <2>3, <2>4 DEF EditorSaveAnswered
<1>39. CASE handleCapabilityResponse
  <2>1. toPlugin' \in Seq(PluginMessages)
    BY <1>39, Asking DEF handleCapabilityResponse, Told
  <2>2. CASE UNCHANGED <<plugin, toHost>>
    BY <1>39, <2>1, <2>2 DEF handleCapabilityResponse, Types
  <2>3. CASE ActionFails(0)
    <3>1. plugin' \in Plugins /\ toHost' \in Seq(HostMessages)
      BY <2>3, EndingTyped
    <3> QED BY <1>39, <2>1, <2>3, <3>1 DEF handleCapabilityResponse, Types
  <2>4. CASE Advance("post") /\ UNCHANGED toHost
    BY <1>39, <2>1, <2>4 DEF handleCapabilityResponse, Advance, Types, Plugins, PluginStep
  <2> QED BY <1>39, <2>2, <2>3, <2>4 DEF handleCapabilityResponse
<1>40. CASE postAction
  <2>1. CASE ActionFails(0) /\ UNCHANGED server
    <3>1. plugin' \in Plugins /\ toHost' \in Seq(HostMessages)
      BY <2>1, EndingTyped
    <3> QED BY <1>40, <2>1, <3>1 DEF postAction, Types
  <2>2. CASE /\ server' = [server EXCEPT !.op = "pending", !.posted = plugin.data]
             /\ Advance("polling")
             /\ toHost' = toHost \o notifyParent("pending", plugin.asked)
    <3>1. plugin' \in Plugins /\ server' \in Servers /\ plugin.asked \in Nat
      BY <2>2 DEF Advance, Types, Plugins, PluginStep, Servers
    <3>2. toHost' \in Seq(HostMessages)
      BY <2>2, <3>1, Posting
    <3> QED BY <1>40, <2>2, <3>1, <3>2 DEF postAction, Types
  <2> QED BY <1>40, <2>1, <2>2 DEF postAction
<1>41. CASE pollOperation
  <2>1. plugin.asked \in Nat
    BY DEF Types, Plugins
  <2>2. CASE ActionFails(plugin.asked)
    <3>1. plugin' \in Plugins /\ toHost' \in Seq(HostMessages)
      BY <2>1, <2>2, EndingTyped
    <3> QED BY <1>41, <2>2, <3>1 DEF pollOperation, Types
  <2>3. CASE /\ plugin' = [plugin EXCEPT !.step = "restore", !.dirty = FALSE]
             /\ toHost' = toHost \o notifyParent("completed", plugin.asked) \o setDirtyState(plugin, FALSE)
    <3>1. plugin' \in Plugins
      BY <2>3 DEF Types, Plugins, PluginStep
    <3>2. toHost' \in Seq(HostMessages)
      BY <2>1, <2>3, Completing
    <3> QED BY <1>41, <2>3, <3>1, <3>2 DEF pollOperation, Types
  <2> QED BY <1>41, <2>2, <2>3 DEF pollOperation
<1>42. CASE RestoreEditor
  BY <1>42 DEF RestoreEditor, Types, Plugins, PluginStep, Actions, Offices
<1>43. CASE BridgeAck
  BY <1>43, Asking DEF BridgeAck, Told, Types, Plugins
<1>44. CASE Leave
  <2>1. \/ \E intent \in {"leave", "reauth"} : page' = [page EXCEPT !.ask = intent, !.exiting = FALSE]
        \/ page' = [page EXCEPT !.stage = "away"]
    BY <1>44 DEF Leave
  <2>2. page' \in Pages
    BY <2>1 DEF Types, Pages
  <2> QED BY <1>44, <2>2 DEF Leave, Types
<1>45. CASE cancelExit
  BY <1>45 DEF cancelExit, Types, Pages
<1>46. CASE saveAndExit
  <2>1. page.saves + 1 \in Nat
    BY DEF Types, Pages
  <2>2. PICK n \in Nat : page' = [[page EXCEPT !.saves = n] EXCEPT !.exiting = TRUE]
    BY <1>46, <2>1 DEF saveAndExit, RequestSave
  <2>3. page' \in Pages
    BY <2>2 DEF Types, Pages
  <2> QED BY <1>46, <2>3 DEF saveAndExit, Types
<1>47. CASE saveAndExport
  <2>1. page.saves + 1 \in Nat
    BY DEF Types, Pages
  <2>2. PICK n \in Nat : page' = [[page EXCEPT !.saves = n] EXCEPT !.exporting = TRUE, !.resolver = TRUE]
    BY <1>47, <2>1 DEF saveAndExport, RequestSave
  <2>3. page' \in Pages
    BY <2>2 DEF Types, Pages
  <2> QED BY <1>47, <2>3 DEF saveAndExport, Types
<1>48. CASE submitCorrection
  <2>1. page.saves + 1 \in Nat
    BY DEF Types, Pages
  <2>2. PICK n \in Nat : page' = [[page EXCEPT !.saves = n] EXCEPT !.exiting = TRUE]
    BY <1>48, <2>1 DEF submitCorrection, RequestSave
  <2>3. page' \in Pages
    BY <2>2 DEF Types, Pages
  <2> QED BY <1>48, <2>3 DEF submitCorrection, Types
<1>49. CASE discardDraft
  BY <1>49 DEF discardDraft, Types, Pages
<1>50. CASE Retry
  BY <1>50, Reloading DEF Retry, Types
<1>51. CASE Edit
  <2>1. plugin' \in Plugins
    BY <1>51 DEF Edit, Types, Plugins
  <2>2. toHost' \in Seq(HostMessages)
    BY <1>51, ChangingTyped DEF Edit
  <2>3. office' \in Offices
    BY <1>51 DEF Edit, Types, Offices
  <2>4. count' \in [changes : Nat, actions : Nat]
    BY <1>51 DEF Edit, Changed, Types
  <2>5. history' \subseteq {"changed", "ignored", "thawed", "unheard"}
    BY <1>51 DEF Edit, Slips, Types
  <2> QED BY <1>51, <2>1, <2>2, <2>3, <2>4, <2>5 DEF Edit, Types
<1>52. CASE toolbarAction
  <2>1. PICK action \in {"save-draft", "submit"} : plugin' = [plugin EXCEPT !.step = "prepare", !.action = action]
    BY <1>52 DEF toolbarAction, toolbarActionsForMode
  <2>2. plugin' \in Plugins
    BY <2>1 DEF Types, Plugins, PluginStep, Actions
  <2>3. count' \in [changes : Nat, actions : Nat]
    BY <1>52 DEF toolbarAction, Types
  <2> QED BY <1>52, <2>2, <2>3 DEF toolbarAction, Types
<1>53. CASE loadLatestNativeConfig
  <2>1. page' \in Pages
    <3>1. page' = page \/ NativeFails(page)
      BY <1>53 DEF loadLatestNativeConfig
    <3> QED BY <3>1 DEF NativeFails, Types, Pages
  <2>2. form' \in Forms
    <3>1. server.key \in Nat /\ server.data \in Nat /\ form.values \in Nat
      BY DEF Types, Servers, Forms
    <3>2. \/ form' = [form EXCEPT !.step = "posting"]
          \/ \E key, values \in Nat : form' = [form EXCEPT !.step = "idle", !.key = key, !.values = values]
          \/ form' = [form EXCEPT !.step = "idle"]
          \/ form' = NoForm
      BY <1>53, <3>1 DEF loadLatestNativeConfig
    <3>3. CASE form' = [form EXCEPT !.step = "posting"]
      BY <3>3 DEF Types, Forms
    <3>4. CASE \E key, values \in Nat : form' = [form EXCEPT !.step = "idle", !.key = key, !.values = values]
      <4>1. PICK key \in Nat, values \in Nat : form' = [form EXCEPT !.step = "idle", !.key = key, !.values = values]
        BY <3>4
      <4> QED BY <4>1 DEF Types, Forms
    <3>5. CASE form' = [form EXCEPT !.step = "idle"]
      BY <3>5 DEF Types, Forms
    <3>6. CASE form' = NoForm
      BY <3>6 DEF NoForm, Actions, Forms
    <3> QED BY <3>2, <3>3, <3>4, <3>5, <3>6
  <2>3. host' \in Hosts /\ options' \in Options
    BY <1>53 DEF loadLatestNativeConfig, Types, Hosts, Options
  <2>4. office' \in Offices
    BY <1>53 DEF loadLatestNativeConfig, Types, Offices, Servers, Loaded, NoOffice
  <2> QED BY <1>53, <2>1, <2>2, <2>3, <2>4 DEF loadLatestNativeConfig, Types
<1>54. CASE submitNativeResponse
  <2>1. form' \in Forms
    BY <1>54 DEF submitNativeResponse, Types, Forms, NativeFails, NativeStep, NativeVars, Open
  <2>2. page' \in Pages
    BY <1>54 DEF submitNativeResponse, Types, Pages, Forms, NativeFails, NativeStep, NativeVars, Open
  <2>3. server' \in Servers
    BY <1>54 DEF submitNativeResponse, Types, Servers, Forms, NativeFails, NativeStep, NativeVars, Open
  <2> QED BY <1>54, <2>1, <2>2, <2>3 DEF submitNativeResponse, Types, NativeVars
<1>55. CASE waitForOperation
  <2>1. form' \in Forms
    BY <1>55 DEF waitForOperation, Types, Forms, NativeFails, NativeStep, NativeVars, Open
  <2>2. page' \in Pages
    BY <1>55 DEF waitForOperation, Types, Pages, NativeFails, NativeStep, NativeVars, Open
  <2> QED BY <1>55, <2>1, <2>2 DEF waitForOperation, Types, NativeVars
<1>56. CASE refreshNativeResponse
  BY <1>56 DEF refreshNativeResponse, Types, Pages, Forms, Servers, NativeFails, NativeStep, NativeVars, Open
<1>57. CASE finishNativeResponse
  <2>1. \/ page' = [page EXCEPT !.exporting = FALSE]
        \/ page' = [page EXCEPT !.exiting = FALSE, !.ask = "none", !.stage = "away"]
        \/ page' = page
    BY <1>57 DEF finishNativeResponse
  <2>2. page' \in Pages
    BY <2>1 DEF Types, Pages
  <2>3. form' \in Forms
    BY <1>57 DEF finishNativeResponse, Types, Forms
  <2> QED BY <1>57, <2>2, <2>3 DEF finishNativeResponse, Types, NativeVars
<1> QED BY <1>1, <1>2, <1>3, <1>4, <1>5, <1>6, <1>7, <1>8, <1>9, <1>10, <1>11, <1>12, <1>13, <1>14, <1>15,
         <1>16, <1>17, <1>18, <1>19, <1>20, <1>21, <1>22, <1>23, <1>24, <1>25, <1>26, <1>27, <1>28, <1>29,
         <1>30, <1>31, <1>32, <1>33, <1>34, <1>35, <1>36, <1>37, <1>38, <1>39, <1>40, <1>41, <1>42, <1>43,
         <1>44, <1>45, <1>46, <1>47, <1>48, <1>49, <1>50, <1>51, <1>52, <1>53, <1>54, <1>55, <1>56, <1>57
         DEF Next, Host, PageHandlers, Plugin, Author, Native

-----------------------------------------------------------------------------
(* Kinds of steps *)

\* The host hears a message; the editor and the server do not take part.
Handling == \/ HostDocumentReady \/ onDocumentStateChange \/ onError \/ BridgeReady \/ Unheard
            \/ EditorSaveRequest \/ CapabilityRequest \/ DirtyMessage
            \/ OperationPending \/ OperationFailed \/ Submitted \/ CorrectionSaved

\* The host tells the plugin something of its own.
Relaying == PostRunAction \/ \E id \in host.renewing : renewCapability(id)

\* The editor says something.
Editing == onDocumentReady \/ SendChanges \/ SendFails \/ Edit

\* The start of a next Response succeeds, or fails.
Reopening    == reopenOnlyOfficeResponseForNewEntry /\ Reload
NotReopening == /\ reopenOnlyOfficeResponseForNewEntry /\ page' = [page EXCEPT !.reopening = FALSE]
                /\ UNCHANGED <<options, host, plugin, office, toHost, toPlugin, history>>

\* The editor is loaded again.
Loading == Retry \/ DraftSaved \/ Reopening

\* Steps of the page only.
Paging == \/ Leave \/ cancelExit \/ saveAndExit \/ saveAndExport \/ submitCorrection \/ discardDraft
          \/ saveThenDownload
          \/ NotReopening

\* Steps of a native form.
Filling == \/ ChangeValue \/ OtherSession \/ saveNativeResponse \/ submitNativeResponse \/ waitForOperation
           \/ refreshNativeResponse \/ finishNativeResponse
           \/ loadLatestNativeConfig /\ form'.step # "none"

\* A native form that gives way to the editor.
Switching == loadLatestNativeConfig /\ form'.step = "none"

\* Steps of the plugin.
Working == initializePlugin \/ CapabilityTimeout \/ Plugin \/ toolbarAction

\* Every step is of one of these kinds.
LEMMA NextKinds ==
  ASSUME Next
  PROVE  \/ Handling \/ Relaying \/ Editing \/ Loading \/ Paging \/ Filling \/ Switching \/ Working
         \/ LoadConfig \/ Settle \/ startResponse
<1>1. ASSUME reopenOnlyOfficeResponseForNewEntry PROVE Loading \/ Paging
  BY <1>1 DEF reopenOnlyOfficeResponseForNewEntry, Loading, Paging, Reopening, NotReopening
<1>2. ASSUME Host PROVE Handling \/ Relaying
  BY <1>2 DEF Host, Handling, Relaying
<1>3. ASSUME PageHandlers PROVE Handling \/ Loading \/ Paging
  BY <1>1, <1>3 DEF PageHandlers, Handling, Loading, Paging
<1>4. ASSUME Author PROVE Paging \/ Loading \/ Editing \/ Working
  BY <1>4 DEF Author, Paging, Loading, Editing, Working
<1>5. ASSUME Native PROVE Filling \/ Switching
  BY <1>5 DEF Native, Filling, Switching
<1> QED BY <1>1, <1>2, <1>3, <1>4, <1>5 DEF Next, Editing, Filling, Working

\* A message that is heard leaves the editor and the server alone.
LEMMA HandlingFrame ==
  ASSUME Types, Handling
  PROVE  /\ Mounted /\ host'.phase = "mounted" /\ page.stage = "open" /\ page'.stage # "starting"
         /\ toHost # <<>> /\ toHost' = Tail(toHost)
         /\ UNCHANGED <<form, options, plugin, office, server>>
         /\ (Thawed' <=> Thawed) /\ (Slipped' <=> Slipped)
         /\ page'.of = page.of
         /\ Submitted \/ page'.reopening = page.reopening
<1>1. CASE HostDocumentReady
  BY <1>1 DEF HostDocumentReady, Said, Heard, Mounted, Open, Thawed, Slipped, Types, Hosts
<1>2. CASE onDocumentStateChange
  BY <1>2 DEF onDocumentStateChange, Said, Heard, Mounted, Open, Thawed, Slipped, Types, Hosts
<1>3. CASE onError
  BY <1>3 DEF onError, Said, Heard, Mounted, Open, Thawed, Slipped, Types, Hosts
<1>4. CASE BridgeReady
  BY <1>4 DEF BridgeReady, Said, Heard, Mounted, Open, Thawed, Slipped, Types, Hosts
<1>5. CASE Unheard
  BY <1>5 DEF Unheard, Heard, Mounted, Open, Thawed, Slipped, Types, Hosts
<1>6. CASE EditorSaveRequest
  BY <1>6 DEF EditorSaveRequest, Said, Heard, Mounted, Open, Thawed, Slipped, Types, Hosts
<1>7. CASE CapabilityRequest
  BY <1>7 DEF CapabilityRequest, Said, Heard, Mounted, Open, Thawed, Slipped, Types, Hosts
<1>8. CASE DirtyMessage
  BY <1>8 DEF DirtyMessage, Said, Heard, Mounted, Open, Thawed, Slipped, Types, Hosts, Pages
<1>9. CASE OperationPending
  BY <1>9 DEF OperationPending, Operation, Said, Heard, Mounted, Open, Thawed, Slipped, Types, Hosts, Pages
<1>10. CASE OperationFailed
  BY <1>10 DEF OperationFailed, PassedOn, Operation, Said, Heard, Mounted, Open, Thawed, Slipped, Types, Hosts, Pages
<1>11. CASE Submitted
  BY <1>11 DEF Submitted, PassedOn, Operation, Said, Heard, Mounted, Open, Thawed, Slipped, Types, Hosts, Pages
<1>12. CASE CorrectionSaved
  BY <1>12 DEF CorrectionSaved, PassedOn, Operation, Said, Heard, Mounted, Open, Thawed, Slipped, Types, Hosts, Pages
<1> QED BY <1>1, <1>2, <1>3, <1>4, <1>5, <1>6, <1>7, <1>8, <1>9, <1>10, <1>11, <1>12 DEF Handling

\* A message to the plugin leaves everything else alone that matters.
LEMMA RelayingFrame ==
  ASSUME Types, Relaying
  PROVE  /\ Mounted
         /\ host'.phase = host.phase /\ host'.native = host.native /\ host'.pending = host.pending
         /\ UNCHANGED <<page, form, options, plugin, office, toHost, server, history>>
         /\ \E m \in PluginMessages : m.type # "editor-save-response" /\ toPlugin' = Append(toPlugin, m)
<1>1. CASE PostRunAction
  BY <1>1, PluginMessage DEF PostRunAction, Tell, Types, Hosts
<1>2. CASE \E id \in host.renewing : renewCapability(id)
  <2>1. PICK id \in host.renewing : renewCapability(id)
    BY <1>2
  <2>2. id \in Nat
    BY DEF Types, Hosts
  <2>3. \E m \in PluginMessages : m.type # "editor-save-response" /\ toPlugin' = Append(toPlugin, m)
    BY <2>1, <2>2, PluginMessage DEF renewCapability, Tell, Failing
  <2> QED BY <2>1, <2>3 DEF renewCapability, Types, Hosts
<1> QED BY <1>1, <1>2 DEF Relaying

\* What the editor does.
LEMMA EditingFrame ==
  ASSUME Editing
  PROVE  /\ Mounted
         /\ UNCHANGED <<page, form, options, host, toPlugin, server>>
         /\ history \subseteq history'
  BY DEF Editing, onDocumentReady, SendChanges, SendFails, Edit, Slips

\* An editor that is loaded again.
LEMMA LoadingFrame ==
  ASSUME Types, Loading
  PROVE  /\ Reload /\ Open /\ page'.stage # "starting" /\ UNCHANGED <<form, server>>
         /\ (Thawed' <=> Thawed) /\ (Slipped' <=> Slipped)
         /\ page'.of = page.of
         /\ \/ host.phase = "failed" /\ page' = page
            \/ host.phase = "mounted" /\ page'.reopening = page.reopening /\ toHost # <<>> /\ Ends(Head(toHost))
            \/ page.reopening /\ ~page'.reopening
<1>1. CASE Retry
  BY <1>1 DEF Retry, Thawed, Slipped, Open
<1>2. CASE DraftSaved
  BY <1>2 DEF DraftSaved, Operation, Said, Mounted, Open, Ends, Thawed, Slipped, Types, Pages
<1>3. CASE Reopening
  BY <1>3 DEF Reopening, reopenOnlyOfficeResponseForNewEntry, LostRequests, Thawed, Slipped, Open, Types, Pages
<1> QED BY <1>1, <1>2, <1>3 DEF Loading

\* Steps of the page change only the page.
LEMMA PagingFrame ==
  ASSUME Types, Paging
  PROVE  /\ Open /\ page'.stage \in {"open", "away"}
         /\ page'.of = page.of /\ page'.operation = page.operation
         /\ page'.reopening => page.reopening
         /\ page'.stage = "open" => page'.dirty = page.dirty
         /\ UNCHANGED <<form, options, host, plugin, office, toHost, toPlugin, server, history>>
<1>1. CASE Leave
  <2>1. \/ \E intent \in {"leave", "reauth"} : page' = [page EXCEPT !.ask = intent, !.exiting = FALSE]
        \/ page' = [page EXCEPT !.stage = "away"]
    BY <1>1 DEF Leave
  <2>2. Open /\ UNCHANGED <<form, options, host, plugin, office, toHost, toPlugin, server, history>>
    BY <1>1 DEF Leave
  <2> QED BY <2>1, <2>2 DEF Open, Types, Pages
<1>2. CASE cancelExit
  BY <1>2 DEF cancelExit, Open, Types, Pages
<1>3. CASE saveAndExit
  BY <1>3 DEF saveAndExit, RequestSave, Open, Types, Pages
<1>4. CASE saveAndExport
  BY <1>4 DEF saveAndExport, RequestSave, Open, Types, Pages
<1>5. CASE submitCorrection
  BY <1>5 DEF submitCorrection, RequestSave, Open, Types, Pages
<1>6. CASE discardDraft
  BY <1>6 DEF discardDraft, Open, Types, Pages
<1>7. CASE saveThenDownload
  BY <1>7 DEF saveThenDownload, Open, Types, Pages
<1>8. CASE NotReopening
  BY <1>8 DEF NotReopening, reopenOnlyOfficeResponseForNewEntry, Open, Types, Pages
<1> QED BY <1>1, <1>2, <1>3, <1>4, <1>5, <1>6, <1>7, <1>8 DEF Paging

\* Steps of a native form do not touch an editor.
LEMMA FillingFrame ==
  ASSUME Types, Filling
  PROVE  /\ form.step # "none" /\ form'.step # "none"
         /\ page'.of = page.of /\ page'.reopening = page.reopening
         /\ page'.stage = "starting" => page.stage = "starting"
         /\ UNCHANGED <<host, plugin, office, toHost, toPlugin, history>>
<1>1. CASE ChangeValue
  BY <1>1 DEF ChangeValue, NativeStep, NativeVars, Open, Types, Pages, Forms
<1>2. CASE OtherSession
  BY <1>2 DEF OtherSession, NativeVars
<1>3. CASE saveNativeResponse
  <2>1. /\ form.step # "none" /\ form'.step = "latest"
        /\ \/ page' = page
           \/ page' = [page EXCEPT !.exporting = TRUE]
           \/ page' = [page EXCEPT !.exiting = TRUE]
    BY <1>3 DEF saveNativeResponse, Types, Forms
  <2> QED BY <1>3, <2>1 DEF saveNativeResponse, NativeVars, Types, Pages
<1>4. CASE submitNativeResponse
  BY <1>4 DEF submitNativeResponse, NativeStep, NativeVars, NativeFails, Open, Types, Pages, Forms
<1>5. CASE waitForOperation
  BY <1>5 DEF waitForOperation, NativeStep, NativeVars, NativeFails, Open, Types, Pages, Forms
<1>6. CASE refreshNativeResponse
  BY <1>6 DEF refreshNativeResponse, NativeStep, NativeVars, NativeFails, Open, Types, Pages, Forms
<1>7. CASE finishNativeResponse
  BY <1>7 DEF finishNativeResponse, NativeStep, NativeVars, Open, Types, Pages, Forms
<1>8. CASE loadLatestNativeConfig /\ form'.step # "none"
  <2>1. UNCHANGED host /\ UNCHANGED office
    BY <1>8 DEF loadLatestNativeConfig, NoForm
  <2>2. page' = page \/ NativeFails(page)
    BY <1>8 DEF loadLatestNativeConfig
  <2>3. page'.of = page.of /\ page'.reopening = page.reopening /\ page'.stage = page.stage
    BY <2>2 DEF NativeFails, Types, Pages
  <2> QED BY <1>8, <2>1, <2>3 DEF loadLatestNativeConfig, NativeStep
<1> QED BY <1>1, <1>2, <1>3, <1>4, <1>5, <1>6, <1>7, <1>8 DEF Filling

\* The editor that takes the place of a native form.
LEMMA SwitchingFrame ==
  ASSUME Types, Switching
  PROVE  /\ form.step = "latest" /\ Open /\ host' = [host EXCEPT !.phase = "loading"]
         /\ office' = Loaded
         /\ page'.of = page.of /\ page'.reopening = page.reopening /\ page'.stage = page.stage
         /\ page'.dirty = page.dirty
         /\ UNCHANGED <<plugin, toHost, toPlugin, server, history>>
<1>1. /\ form.step = "latest" /\ form' = NoForm
      /\ NativeFails(page) /\ host' = [host EXCEPT !.phase = "loading"]
  BY DEF Switching, loadLatestNativeConfig, NativeStep, Types, Forms
<1> QED BY <1>1 DEF Switching, loadLatestNativeConfig, NativeStep, NativeFails, NoForm, Types, Pages

\* Steps of the plugin.
LEMMA WorkingFrame ==
  ASSUME Working
  PROVE  /\ Mounted
         /\ UNCHANGED <<page, form, options, host>>
         /\ postAction \/ UNCHANGED server
<1>1. ASSUME Plugin
      PROVE  Mounted /\ UNCHANGED <<page, form, options, host>> /\ (postAction \/ UNCHANGED server)
  BY <1>1 DEF Plugin, Running, startInitializationTasks, RestrictTimer, PrefillTimer, ensurePrefill, RunRequested,
              PrepareAction, freezeEditor, extractFormData, flushEditorChanges, EditorSaveAnswered,
              handleCapabilityResponse, postAction, pollOperation, RestoreEditor, BridgeAck
<1> QED BY <1>1 DEF Working, Running, initializePlugin, CapabilityTimeout, toolbarAction

-----------------------------------------------------------------------------
(* The parts of the invariant that are about who is there *)

\* Nothing happens before the start, and a native form has no editor.
LEMMA BeginningKept ==
  ASSUME Types, Beginning, Unmounted, Next
  PROVE  Beginning'
<1>1. CASE Handling
  BY <1>1, HandlingFrame DEF Beginning, Mounted
<1>2. CASE Relaying
  BY <1>2, RelayingFrame DEF Beginning, Mounted, Open
<1>3. CASE Editing
  BY <1>3, EditingFrame DEF Beginning, Mounted, Open
<1>4. CASE Loading
  <2>1. page'.stage # "starting" /\ form' = form /\ form.step = "none"
    BY <1>4, LoadingFrame DEF Beginning, Unmounted
  <2> QED BY <2>1 DEF Beginning
<1>5. CASE Paging
  BY <1>5, PagingFrame DEF Beginning
<1>6. CASE Filling
  <2>1. page'.stage # "starting"
    BY <1>6, FillingFrame DEF Beginning, NoForm
  <2> QED BY <1>6, <2>1, FillingFrame DEF Beginning
<1>7. CASE Switching
  BY <1>7, SwitchingFrame DEF Beginning, Switching, Open
<1>8. CASE Working
  BY <1>8, WorkingFrame DEF Beginning, Mounted, Open
<1>9. CASE LoadConfig
  BY <1>9 DEF LoadConfig, Beginning, Open, Types, Hosts
<1>10. CASE Settle
  BY <1>10 DEF Settle, Beginning
<1>11. CASE startResponse
  <2>1. page'.stage = "open" /\ (form' = form \/ host' = host)
    BY <1>11 DEF startResponse, Types, Pages
  <2> QED BY <1>11, <2>1 DEF startResponse, Beginning, NoForm
<1> QED BY <1>1, <1>2, <1>3, <1>4, <1>5, <1>6, <1>7, <1>8, <1>9, <1>10, <1>11, NextKinds

\* An operation that ended well is of an editor with a former document.
LEMMA EndsFormer ==
  ASSUME Types, Beginning, OneEnd, host.phase = "mounted", NEW i \in DOMAIN toHost, Ends(toHost[i])
  PROVE  /\ office.key < server.key /\ ~page.reopening /\ server.op # "pending"
         /\ plugin.step # "polling"
         /\ \A j \in DOMAIN toHost : Ends(toHost[j]) => j = i
  BY DEF Beginning, OneEnd, Types, Servers, Offices

\* An editor that is loaded has no operation behind it, and the page does not start again.
LEMMA LoadingQuiet ==
  ASSUME Types, Beginning, Unmounted, OneEnd, Loading
  PROVE  form.step = "none" /\ ~page'.reopening /\ server.op # "pending"
<1>1. CASE host.phase = "failed" /\ page' = page
  BY <1>1 DEF Beginning, Unmounted
<1>2. CASE host.phase = "mounted" /\ page'.reopening = page.reopening /\ toHost # <<>> /\ Ends(Head(toHost))
  <2>1. 1 \in DOMAIN toHost /\ Ends(toHost[1])
    BY <1>2, Taking DEF Types
  <2> QED BY <1>2, <2>1, EndsFormer DEF Beginning
<1>3. CASE page.reopening /\ ~page'.reopening
  BY <1>3 DEF Beginning, Unmounted, OneEnd, Types, Servers, Offices
<1> QED BY <1>1, <1>2, <1>3, LoadingFrame

\* An editor that is not there stays without plugin and messages.
LEMMA UnmountedKept ==
  ASSUME Types, Beginning, Unmounted, NativeForm, OneEnd, Next
  PROVE  Unmounted'
<1>1. CASE Handling
  BY <1>1, HandlingFrame DEF Unmounted
<1>2. CASE Relaying
  BY <1>2, RelayingFrame DEF Unmounted, Mounted
<1>3. CASE Editing
  BY <1>3, EditingFrame DEF Unmounted, Mounted
<1>4. CASE Loading
  BY <1>4, LoadingFrame, Reloading, LoadingQuiet DEF Unmounted
<1>5. CASE Paging
  BY <1>5, PagingFrame DEF Unmounted
<1>6. CASE Filling
  BY <1>6, FillingFrame DEF Unmounted
<1>7. CASE Switching
  <2>1. host.phase = "none" /\ server.op # "pending"
    BY <1>7, SwitchingFrame DEF Beginning, NativeForm
  <2>2. /\ host'.native = host.native /\ host'.pending = host.pending
        /\ office'.key = server.key /\ office'.content = server.document /\ office'.sent = server.document
    BY <1>7, SwitchingFrame DEF Types, Hosts, Loaded, NoOffice
  <2> QED BY <1>7, <2>1, <2>2, SwitchingFrame DEF Unmounted
<1>8. CASE Working
  BY <1>8, WorkingFrame DEF Unmounted, Mounted
<1>9. CASE LoadConfig
  BY <1>9 DEF LoadConfig, Unmounted, Types, Hosts
<1>10. CASE Settle
  <2>1. host.phase # "mounted" => form.step # "none"
    BY <1>10 DEF Settle, Unmounted
  <2> QED BY <1>10, <2>1 DEF Settle, Unmounted
<1>11. CASE startResponse
  <2>1. /\ form = NoForm /\ host.phase = "none" /\ office = NoOffice
        /\ server = [op |-> "none", posted |-> 0, document |-> 0, data |-> 0, key |-> 0]
    BY <1>11 DEF startResponse, Beginning
  <2>2. /\ host'.phase # "mounted" /\ host'.native = host.native /\ host'.pending = host.pending
        /\ page'.reopening = page.reopening
        /\ UNCHANGED <<plugin, office, toHost, toPlugin, server>>
    BY <1>11, <2>1 DEF startResponse, Types, Pages, Hosts
  <2> QED BY <2>1, <2>2 DEF Unmounted, NoOffice
<1> QED BY <1>1, <1>2, <1>3, <1>4, <1>5, <1>6, <1>7, <1>8, <1>9, <1>10, <1>11, NextKinds

\* What a native form shows, and the operation it waits for.
LEMMA NativeFormKept ==
  ASSUME Types, Beginning, Unmounted, NativeForm, Next
  PROVE  NativeForm'
<1>0. Mounted /\ form' = form => form'.step = "none"
  BY DEF Mounted, Beginning
<1>1. CASE Handling
  BY <1>1, <1>0, HandlingFrame DEF NativeForm
<1>2. CASE Relaying
  BY <1>2, <1>0, RelayingFrame DEF NativeForm
<1>3. CASE Editing
  BY <1>3, <1>0, EditingFrame DEF NativeForm
<1>4. CASE Loading
  <2>1. form' = form /\ form.step = "none"
    BY <1>4, LoadingFrame DEF Beginning, Unmounted
  <2> QED BY <2>1 DEF NativeForm
<1>5. CASE Paging
  BY <1>5, PagingFrame DEF NativeForm, Open
<1>6. CASE Filling
  <2>0. form.step # "none" /\ server.key \in Nat /\ form.key \in Nat
    BY <1>6, FillingFrame DEF Types, Servers, Forms
  <2>1. CASE ChangeValue
    <3>1. page'.dirty /\ form'.step = "idle" /\ form'.key = form.key /\ server.op # "pending" /\ server' = server
      BY <2>0, <2>1 DEF ChangeValue, NativeForm, NativeStep, isSaveFlowBusy, Busy, Types, Pages, Forms
    <3> QED BY <2>0, <3>1 DEF NativeForm
  <2>2. CASE OtherSession
    <3>1. /\ server'.key = server.key + 1 /\ server'.op = server.op /\ server'.data = server'.document
          /\ UNCHANGED <<page, form>> /\ server.op # "pending"
      BY <2>2 DEF OtherSession, Types, Servers
    <3> QED BY <2>0, <3>1 DEF NativeForm, Open
  <2>3. CASE saveNativeResponse
    <3>1. /\ form'.step = "latest" /\ form'.key = form.key /\ form'.values = form.values /\ server' = server
          /\ form.step = "idle" /\ page.operation # "busy"
      BY <2>3 DEF saveNativeResponse, nativeResponseSaveBlocked, isSaveFlowBusy, Busy, Types, Forms
    <3>2. \/ page' = page
          \/ page' = [page EXCEPT !.exporting = TRUE]
          \/ page' = [page EXCEPT !.exiting = TRUE]
      BY <2>3 DEF saveNativeResponse
    <3>3. page'.dirty = page.dirty /\ page'.stage = page.stage
      BY <3>2 DEF Types, Pages
    <3> QED BY <2>0, <3>1, <3>3 DEF NativeForm, Open
  <2>4. CASE submitNativeResponse
    <3>1. CASE /\ form.key = server.key
               /\ server' = [server EXCEPT !.op = "pending", !.posted = form.values]
               /\ form' = [form EXCEPT !.step = "waiting"]
               /\ page' = [page EXCEPT !.operation = "busy"]
      BY <2>0, <3>1 DEF NativeForm, Open, Types, Pages, Forms, Servers
    <3>2. CASE form' = [form EXCEPT !.step = "idle"] /\ NativeFails(page) /\ UNCHANGED server
      <4>1. form.step = "posting"
        BY <2>4 DEF submitNativeResponse, NativeStep
      <4> QED BY <2>0, <3>2, <4>1 DEF NativeForm, NativeFails, Open, Types, Pages, Forms
    <3> QED BY <2>4, <3>1, <3>2 DEF submitNativeResponse
  <2>5. CASE waitForOperation
    <3>0. form.step = "waiting" /\ UNCHANGED server
      BY <2>5 DEF waitForOperation, NativeStep
    <3>1. CASE /\ server.op = "completed"
               /\ form' = [form EXCEPT !.step = "refresh"]
               /\ page' = [page EXCEPT !.operation = "none", !.dirty = @ /\ form.action = "save-draft"]
      BY <2>0, <3>0, <3>1 DEF NativeForm, Open, Types, Pages, Forms
    <3>2. CASE /\ server.op = "failed"
               /\ form' = [form EXCEPT !.step = "idle"]
               /\ NativeFails([page EXCEPT !.operation = "none"])
      BY <2>0, <3>0, <3>2 DEF NativeForm, NativeFails, Open, Types, Pages, Forms
    <3>3. CASE form' = [form EXCEPT !.step = "idle"] /\ NativeFails(page)
      BY <2>0, <3>0, <3>3 DEF NativeForm, NativeFails, Open, Types, Pages, Forms
    <3> QED BY <2>5, <3>1, <3>2, <3>3 DEF waitForOperation
  <2>6. CASE refreshNativeResponse
    <3>0. form.step = "refresh" /\ UNCHANGED server
      BY <2>6 DEF refreshNativeResponse, NativeStep
    <3>1. CASE /\ form' = [form EXCEPT !.step = IF page.exporting THEN "download" ELSE "finish",
                                       !.key = server.key, !.values = server.data]
      <4>1. form'.key = server.key /\ form'.values = server.data /\ form'.step \in {"download", "finish"}
        BY <3>1 DEF Types, Forms
      <4> QED BY <2>0, <3>0, <4>1 DEF NativeForm, Open
    <3>2. CASE form' = [form EXCEPT !.step = "idle"] /\ NativeFails(page)
      BY <2>0, <3>0, <3>2 DEF NativeForm, NativeFails, Open, Types, Pages, Forms
    <3> QED BY <2>6, <3>1, <3>2 DEF refreshNativeResponse
  <2>7. CASE finishNativeResponse
    <3>1. /\ form.step \in {"download", "finish"} /\ UNCHANGED server
          /\ form'.step = "idle" /\ form'.key = form.key /\ form'.values = form.values
          /\ page.stage = "open" /\ page'.dirty = page.dirty
      BY <2>7 DEF finishNativeResponse, NativeStep, Open, Types, Pages, Forms
    <3> QED BY <2>0, <3>1 DEF NativeForm, Open
  <2>8. CASE loadLatestNativeConfig /\ form'.step # "none"
    <3>0. form.step = "latest" /\ UNCHANGED server
      BY <2>8 DEF loadLatestNativeConfig, NativeStep
    <3>1. page' = page \/ NativeFails(page)
      BY <2>8 DEF loadLatestNativeConfig
    <3>2. page'.dirty = page.dirty /\ page'.stage = page.stage
      BY <3>1 DEF NativeFails, Types, Pages
    <3>3. \/ form' = [form EXCEPT !.step = "posting"]
          \/ form' = [form EXCEPT !.step = "idle", !.key = server.key,
                                  !.values = IF page.dirty THEN @ ELSE server.data]
          \/ form' = [form EXCEPT !.step = "idle"]
      BY <2>8 DEF loadLatestNativeConfig, NoForm
    <3>4. /\ form'.step \in {"posting", "idle"}
          /\ \/ form'.key = form.key /\ form'.values = form.values
             \/ form'.key = server.key /\ (page.dirty \/ form'.values = server.data)
      BY <3>3 DEF Types, Forms
    <3> QED BY <2>0, <3>0, <3>2, <3>4 DEF NativeForm, Open
  <2> QED BY <1>6, <2>1, <2>2, <2>3, <2>4, <2>5, <2>6, <2>7, <2>8 DEF Filling
<1>7. CASE Switching
  BY <1>7 DEF Switching, NativeForm
<1>8. CASE Working
  BY <1>8, <1>0, WorkingFrame DEF NativeForm
<1>9. CASE LoadConfig
  BY <1>9 DEF LoadConfig, NativeForm, Open
<1>10. CASE Settle
  <2>1. UNCHANGED <<page, form>> /\ server.op = "pending"
    BY <1>10 DEF Settle
  <2>2. server.key \in Nat /\ form.key \in Nat
    BY DEF Types, Servers, Forms
  <2>3. CASE server' = [server EXCEPT !.op = "failed"]
    BY <2>1, <2>2, <2>3 DEF NativeForm, Open, Types, Servers
  <2>4. CASE server' = [server EXCEPT !.op = "completed", !.data = server.posted, !.key = @ + 1,
                          !.document = IF form.step = "none" THEN office.sent ELSE server.posted]
    <3>1. /\ server'.op = "completed" /\ server'.key = server.key + 1
          /\ form.step # "none" => server'.data = server'.document
      BY <2>4 DEF Types, Servers
    <3> QED BY <2>1, <2>2, <3>1 DEF NativeForm, Open
  <2> QED BY <1>10, <2>3, <2>4 DEF Settle
<1>11. CASE startResponse
  <2>1. /\ form = NoForm
        /\ server = [op |-> "none", posted |-> 0, document |-> 0, data |-> 0, key |-> 0] /\ server' = server
        /\ form' = form \/ form' = [form EXCEPT !.step = "idle"]
    BY <1>11 DEF startResponse, Beginning
  <2> QED BY <2>1 DEF NativeForm, NoForm
<1> QED BY <1>1, <1>2, <1>3, <1>4, <1>5, <1>6, <1>7, <1>8, <1>9, <1>10, <1>11, NextKinds

-----------------------------------------------------------------------------
(* The parts of the invariant that are about the plugin *)

\* A plugin that has not started has nothing, and the Prefill comes before the freeze.
LEMMA DownKept ==
  ASSUME Types, Beginning, Unmounted, Down, Prefilling, Next
  PROVE  Down' /\ Prefilling'
<1>0. UNCHANGED options => shouldApplyRuntimePrefill' = shouldApplyRuntimePrefill
  BY DEF shouldApplyRuntimePrefill
<1> DEFINE Alike == /\ plugin'.up = plugin.up /\ plugin'.ack = plugin.ack /\ plugin'.dirty = plugin.dirty
                    /\ plugin'.early = plugin.early /\ plugin'.timer = plugin.timer
                    /\ plugin'.prefill = plugin.prefill /\ plugin'.asked = plugin.asked
<1>a. ASSUME UNCHANGED <<plugin, options>> PROVE Down' /\ Prefilling'
  BY <1>a, <1>0 DEF Down, Prefilling
<1>b. ASSUME plugin' = NoPlugin PROVE Down' /\ Prefilling'
  BY <1>b DEF NoPlugin, Down, Prefilling
<1>c. ASSUME plugin.up, Alike, UNCHANGED options, plugin'.step \in {"idle", "prepare"}
      PROVE  Down' /\ Prefilling'
  BY <1>c, <1>0 DEF Down, Prefilling
<1>d. ASSUME plugin.up, Alike, UNCHANGED options, plugin.step \notin {"idle", "prepare"}
      PROVE  Down' /\ Prefilling'
  BY <1>d, <1>0 DEF Down, Prefilling
<1>e. ASSUME plugin.up, NEW op \in Nat, ActionFails(op), UNCHANGED options
      PROVE  Down' /\ Prefilling'
  <2>1. Alike /\ (plugin'.step = "idle" \/ plugin.step \notin {"idle", "prepare"})
    BY <1>e, Ending DEF Frozen
  <2> HIDE DEF Alike
  <2> QED BY <1>e, <2>1, <1>c, <1>d
<1> HIDE DEF Alike
<1>1. CASE Handling
  BY <1>1, <1>a, HandlingFrame
<1>2. CASE Relaying
  BY <1>2, <1>a, RelayingFrame
<1>3. CASE Editing
  <2>1. UNCHANGED options /\ (Edit \/ UNCHANGED plugin)
    BY <1>3 DEF Editing, onDocumentReady, SendChanges, SendFails, Edit
  <2>2. ASSUME Edit PROVE Down' /\ Prefilling'
    BY <2>1, <2>2, <1>0 DEF Edit, Down, Prefilling, Types, Plugins
  <2> QED BY <2>1, <2>2, <1>a
<1>4. CASE Loading
  BY <1>4, <1>b, LoadingFrame, Reloading
<1>5. CASE Paging
  BY <1>5, <1>a, PagingFrame
<1>6. CASE Filling
  BY <1>6, <1>b, FillingFrame DEF Beginning, Unmounted
<1>7. CASE Switching
  BY <1>7, <1>b, SwitchingFrame DEF Beginning, Unmounted
<1>8. CASE Working
  <2>0. UNCHANGED options
    BY <1>8, WorkingFrame
  <2>1. CASE initializePlugin
    BY <2>0, <2>1, <1>0 DEF initializePlugin, Down, Prefilling, Types, Plugins
  <2>2. CASE CapabilityTimeout
    BY <2>0, <2>2, <1>e DEF CapabilityTimeout, Running
  <2>3. CASE toolbarAction
    <3>1. PICK action \in {"save-draft", "submit"} : plugin' = [plugin EXCEPT !.step = "prepare", !.action = action]
      BY <2>3 DEF toolbarAction, toolbarActionsForMode
    <3>2. plugin.up /\ Alike /\ plugin'.step = "prepare"
      BY <2>3, <3>1 DEF toolbarAction, Running, Types, Plugins, Alike
    <3> QED BY <2>0, <3>2, <1>c
  <2>4. CASE startInitializationTasks
    BY <2>0, <2>4, <1>0 DEF startInitializationTasks, Running, Down, Prefilling, Types, Plugins
  <2>5. CASE RestrictTimer
    BY <2>0, <2>5, <1>0 DEF RestrictTimer, Running, Down, Prefilling, Types, Plugins
  <2>6. CASE PrefillTimer
    BY <2>0, <2>6, <1>0 DEF PrefillTimer, Running, Down, Prefilling, Types, Plugins
  <2>7. CASE ensurePrefill
    <3>1. /\ plugin.up /\ plugin.prefill = "applying"
          /\ \/ plugin' = [plugin EXCEPT !.prefill = "failed"]
             \/ plugin' = [plugin EXCEPT !.prefill = "done"]
             \/ plugin' = [plugin EXCEPT !.prefill = "done", !.dirty = TRUE]
      BY <2>7 DEF ensurePrefill, Running
    <3> QED BY <2>0, <3>1, <1>0 DEF Down, Prefilling, Types, Plugins
  <2>8. CASE RunRequested
    <3>1. /\ plugin.up
          /\ \/ plugin' = plugin
             \/ \E action \in {"save-draft", "save-correction"} :
                  plugin' = [plugin EXCEPT !.step = "prepare", !.action = action]
      BY <2>8 DEF RunRequested, Running
    <3>2. \/ plugin' = plugin
          \/ Alike /\ plugin'.step = "prepare"
      BY <3>1 DEF Types, Plugins, Alike
    <3> QED BY <2>0, <3>1, <3>2, <1>a, <1>c
  <2>9. CASE PrepareAction
    <3>0. plugin.up /\ plugin.step = "prepare"
      BY <2>9 DEF PrepareAction, Running
    <3>1. CASE shouldApplyRuntimePrefill /\ plugin.prefill = "none" /\ plugin' = [plugin EXCEPT !.prefill = "applying"]
      BY <2>0, <3>0, <3>1, <1>0 DEF Down, Prefilling, Types, Plugins
    <3>2. CASE ActionFails(0)
      BY <2>0, <3>0, <3>2, <1>e
    <3>3. CASE (shouldApplyRuntimePrefill => plugin.prefill = "done") /\ Advance("freeze")
      BY <2>0, <3>0, <3>3, <1>0 DEF Advance, Down, Prefilling, Types, Plugins
    <3> QED BY <2>9, <3>1, <3>2, <3>3 DEF PrepareAction
  <2>10. CASE freezeEditor
    BY <2>0, <2>10, <1>d DEF freezeEditor, Running, Advance, Types, Plugins, Alike
  <2>11. CASE extractFormData
    BY <2>0, <2>11, <1>d DEF extractFormData, Running, Types, Plugins, Alike
  <2>12. CASE flushEditorChanges
    <3>1. plugin.up /\ plugin.step = "flush"
      BY <2>12 DEF flushEditorChanges, Running
    <3>2. CASE ActionFails(0)
      BY <2>0, <3>1, <3>2, <1>e
    <3>3. CASE plugin' = [plugin EXCEPT !.step = "saving", !.asked = @ + 1]
      BY <2>0, <3>1, <3>3, <1>0 DEF Down, Prefilling, Types, Plugins
    <3> QED BY <2>12, <3>2, <3>3 DEF flushEditorChanges
  <2>13. CASE EditorSaveAnswered
    <3>1. plugin.up
      BY <2>13 DEF EditorSaveAnswered, Running
    <3>2. CASE UNCHANGED plugin
      BY <2>0, <3>2, <1>a
    <3>3. CASE ActionFails(0)
      BY <2>0, <3>1, <3>3, <1>e
    <3>4. CASE plugin.step = "saving" /\ Advance("granting")
      BY <2>0, <3>1, <3>4, <1>d DEF Advance, Types, Plugins, Alike
    <3> QED BY <2>13, <3>2, <3>3, <3>4 DEF EditorSaveAnswered
  <2>14. CASE handleCapabilityResponse
    <3>1. plugin.up
      BY <2>14 DEF handleCapabilityResponse, Running
    <3>2. CASE UNCHANGED plugin
      BY <2>0, <3>2, <1>a
    <3>3. CASE ActionFails(0)
      BY <2>0, <3>1, <3>3, <1>e
    <3>4. CASE plugin.step = "granting" /\ Advance("post")
      BY <2>0, <3>1, <3>4, <1>d DEF Advance, Types, Plugins, Alike
    <3> QED BY <2>14, <3>2, <3>3, <3>4 DEF handleCapabilityResponse
  <2>15. CASE postAction
    <3>1. plugin.up /\ plugin.step = "post" /\ (ActionFails(0) \/ Advance("polling"))
      BY <2>15 DEF postAction, Running
    <3>2. ASSUME Advance("polling") PROVE Alike
      BY <3>2 DEF Advance, Types, Plugins, Alike
    <3> QED BY <2>0, <3>1, <3>2, <1>d, <1>e
  <2>16. CASE pollOperation
    <3>1. plugin.up /\ plugin.step = "polling" /\ plugin.asked \in Nat
      BY <2>16 DEF pollOperation, Running, Types, Plugins
    <3>2. CASE ActionFails(plugin.asked)
      BY <2>0, <3>1, <3>2, <1>e
    <3>3. CASE plugin' = [plugin EXCEPT !.step = "restore", !.dirty = FALSE]
      BY <2>0, <3>1, <3>3, <1>0 DEF Down, Prefilling, Types, Plugins
    <3> QED BY <2>16, <3>2, <3>3 DEF pollOperation
  <2>17. CASE RestoreEditor
    BY <2>0, <2>17, <1>d DEF RestoreEditor, Running, Types, Plugins, Alike
  <2>18. CASE BridgeAck
    BY <2>0, <2>18, <1>0 DEF BridgeAck, Running, Down, Prefilling, Types, Plugins
  <2> QED BY <1>8, <2>1, <2>2, <2>3, <2>4, <2>5, <2>6, <2>7, <2>8, <2>9, <2>10, <2>11, <2>12, <2>13, <2>14, <2>15,
             <2>16, <2>17, <2>18
          DEF Working, Plugin
<1>9. CASE LoadConfig
  BY <1>9, <1>a DEF LoadConfig
<1>10. CASE Settle
  BY <1>10, <1>a DEF Settle
<1>11. CASE startResponse
  BY <1>11, <1>b DEF startResponse, Beginning, Unmounted
<1> QED BY <1>1, <1>2, <1>3, <1>4, <1>5, <1>6, <1>7, <1>8, <1>9, <1>10, <1>11, NextKinds

-----------------------------------------------------------------------------
(* What the steps say to the host *)

\* At most one message that matters little.
Says == toHost' = toHost \/ \E m \in Plain : toHost' = Append(toHost, m)

\* The content is changed, by the author or by the Prefill.
Altering == Edit \/ (ensurePrefill /\ Changed)

\* The data are read, and the save of their document is asked for.
Flushing == flushEditorChanges /\ plugin'.step = "saving"

\* The operation is found completed.
Finishing == pollOperation /\ server.op = "completed" /\ plugin'.step = "restore" /\ ~plugin'.dirty
             /\ toHost' = toHost \o notifyParent("completed", plugin.asked) \o setDirtyState(plugin, FALSE)

\* Whoever changes the content says so of what was sent, and of what was noted.
LEMMA AlteringFacts ==
  ASSUME Types, Down, Prefilling, Altering
  PROVE  /\ \E sent \in Seq(HostMessages) :
              /\ sent = IF office.content = office.sent THEN Append(toHost, [type |-> "state", dirty |-> TRUE]) ELSE toHost
              /\ toHost' = IF plugin.up /\ ~plugin.dirty THEN Append(sent, [type |-> "dirty", dirty |-> TRUE]) ELSE sent
         /\ office'.key = office.key /\ office'.sent = office.sent
         /\ plugin'.step = plugin.step /\ plugin'.asked = plugin.asked
         /\ plugin'.dirty \/ plugin'.early
         /\ ~plugin.up => ~plugin'.dirty
         /\ UNCHANGED <<page, form, options, host, toPlugin, server>>
         /\ history' = history \cup (IF Saving /\ Thawed THEN {"changed"} ELSE {})
         /\ Mounted
         /\ Frozen(plugin.step) => office.restriction # "readOnly"
<1> DEFINE state == [type |-> "state", dirty |-> TRUE]
           dirty == [type |-> "dirty", dirty |-> TRUE]
           sent  == IF office.content = office.sent THEN Append(toHost, state) ELSE toHost
<1>1. state \in HostMessages /\ dirty \in HostMessages
  BY HostMessage, Kinds
<1>2. sent \in Seq(HostMessages)
  BY <1>1, Appending DEF Types
<1>3. /\ toHost \o StateEvent \o <<>> = sent
      /\ toHost \o StateEvent \o setDirtyState(plugin, TRUE) = IF plugin.dirty THEN sent ELSE Append(sent, dirty)
  BY Changing
<1>4. CASE Edit
  <2>1. toHost' = toHost \o StateEvent \o (IF plugin.up THEN setDirtyState(plugin, TRUE) ELSE <<>>)
    BY <1>4 DEF Edit
  <2> HIDE DEF sent
  <2>2. toHost' = IF plugin.up /\ ~plugin.dirty THEN Append(sent, dirty) ELSE sent
    BY <2>1, <1>3
  <2>3. /\ office.restriction # "readOnly" /\ office' = [office EXCEPT !.content = count.changes + 1]
        /\ UNCHANGED <<page, form, options, host, toPlugin, server>>
        /\ history' = history \cup (IF Saving /\ Thawed THEN {"changed"} ELSE {})
        /\ Mounted
    BY <1>4 DEF Edit, Slips, Thawed
  <2>7. office'.key = office.key /\ office'.sent = office.sent
    BY <2>3 DEF Types, Offices
  <2>4. plugin' = [plugin EXCEPT !.dirty = TRUE] \/ (~plugin.up /\ plugin' = [plugin EXCEPT !.early = TRUE])
    BY <1>4 DEF Edit
  <2>5. /\ plugin'.step = plugin.step /\ plugin'.asked = plugin.asked
        /\ plugin'.dirty \/ plugin'.early
    BY <2>4 DEF Types, Plugins
  <2>6. ~plugin.up => plugin'.dirty = plugin.dirty
    BY <1>4 DEF Edit, Types, Plugins
  <2> QED BY <1>2, <2>2, <2>3, <2>5, <2>6, <2>7 DEF sent, Down
<1>5. CASE ensurePrefill /\ Changed
  <2>0. ~UNCHANGED count
    BY <1>5 DEF Changed, Types
  <2>1. /\ plugin.up /\ Mounted /\ plugin.prefill = "applying"
        /\ plugin' = [plugin EXCEPT !.prefill = "done", !.dirty = TRUE]
        /\ office' = [office EXCEPT !.restriction = "forms", !.content = count.changes + 1]
        /\ toHost' = toHost \o StateEvent \o setDirtyState(plugin, TRUE)
        /\ UNCHANGED <<page, form, options, host, toPlugin, server>>
        /\ history' = history \cup (IF Saving /\ Thawed THEN {"changed"} ELSE {})
    BY <1>5, <2>0 DEF ensurePrefill, Running, Slips, Thawed
  <2> HIDE DEF sent
  <2>2. toHost' = IF plugin.up /\ ~plugin.dirty THEN Append(sent, dirty) ELSE sent
    BY <2>1, <1>3
  <2>3. ~Frozen(plugin.step)
    BY <2>1 DEF Prefilling, Frozen
  <2>4. /\ office'.key = office.key /\ office'.sent = office.sent
        /\ plugin'.step = plugin.step /\ plugin'.asked = plugin.asked /\ plugin'.dirty
    BY <2>1 DEF Types, Offices, Plugins
  <2> QED BY <1>2, <2>1, <2>2, <2>3, <2>4 DEF sent
<1> QED BY <1>4, <1>5 DEF Altering

\* What the host is asked to save.
LEMMA FlushingFacts ==
  ASSUME Types, Flushing
  PROVE  /\ plugin.step = "flush" /\ plugin.up /\ plugin'.asked = plugin.asked + 1
         /\ plugin'.dirty = plugin.dirty /\ plugin'.early = plugin.early /\ plugin'.data = plugin.data
         /\ toHost' = Append(toHost, [type |-> "editor-save-request", id |-> plugin.asked + 1])
         /\ UNCHANGED <<page, form, options, host, office, toPlugin, server, history>>
<1>1. plugin.step = "flush" /\ plugin.up /\ plugin'.step = "saving"
  BY DEF Flushing, flushEditorChanges, Running
<1>2. CASE ActionFails(0)
  BY <1>1, <1>2, Ending DEF Frozen
<1>3. CASE /\ plugin' = [plugin EXCEPT !.step = "saving", !.asked = @ + 1]
           /\ Say([type |-> "editor-save-request", id |-> plugin.asked + 1])
  BY <1>1, <1>3 DEF Say, Flushing, flushEditorChanges, Types, Plugins
<1> QED BY <1>2, <1>3 DEF Flushing, flushEditorChanges

\* The other steps of the plugin say little.
LEMMA WorkingSays ==
  ASSUME Types, Down, Working
  PROVE  Says \/ initializePlugin \/ Altering \/ Flushing \/ Finishing
<1>a. ASSUME NEW op \in Nat, ActionFails(op) PROVE Says
  BY <1>a, Ending DEF Says
<1>1. CASE CapabilityTimeout
  BY <1>1, <1>a DEF CapabilityTimeout
<1>2. CASE toolbarAction \/ startInitializationTasks \/ RestrictTimer \/ PrefillTimer \/ RunRequested
  BY <1>2 DEF toolbarAction, startInitializationTasks, RestrictTimer, PrefillTimer, RunRequested, Says
<1>3. CASE freezeEditor \/ extractFormData \/ RestoreEditor \/ BridgeAck
  BY <1>3 DEF freezeEditor, extractFormData, RestoreEditor, BridgeAck, Says
<1>4. CASE ensurePrefill
  BY <1>4 DEF ensurePrefill, Altering, Says
<1>5. CASE PrepareAction
  BY <1>5, <1>a DEF PrepareAction, Says
<1>6. CASE flushEditorChanges
  <2>1. CASE ActionFails(0)
    BY <2>1, <1>a
  <2>2. CASE plugin' = [plugin EXCEPT !.step = "saving", !.asked = @ + 1]
    BY <1>6, <2>2 DEF Flushing, Types, Plugins
  <2> QED BY <1>6, <2>1, <2>2 DEF flushEditorChanges
<1>7. CASE EditorSaveAnswered
  <2>1. Head(toPlugin).type = "editor-save-response" => Head(toPlugin).id \in Nat
    BY <1>7, Asking, PluginFields DEF EditorSaveAnswered
  <2>2. CASE Say([type |-> "capability-request", id |-> Head(toPlugin).id])
    BY <1>7, <2>1, <2>2, HostMessage DEF EditorSaveAnswered, Asked, Say, Says
  <2>3. CASE ActionFails(0)
    BY <2>3, <1>a
  <2>4. CASE UNCHANGED <<plugin, toHost>>
    BY <2>4 DEF Says
  <2> QED BY <1>7, <2>2, <2>3, <2>4 DEF EditorSaveAnswered
<1>8. CASE handleCapabilityResponse
  BY <1>8, <1>a DEF handleCapabilityResponse, Says
<1>9. CASE postAction
  <2>1. plugin.asked \in Nat
    BY DEF Types, Plugins
  <2>2. CASE ActionFails(0)
    BY <2>2, <1>a
  <2>3. CASE toHost' = toHost \o notifyParent("pending", plugin.asked)
    BY <2>1, <2>3, Posting DEF Says
  <2> QED BY <1>9, <2>2, <2>3 DEF postAction
<1>10. CASE pollOperation
  <2>1. plugin.asked \in Nat
    BY DEF Types, Plugins
  <2>2. CASE /\ server.op = "completed"
             /\ plugin' = [plugin EXCEPT !.step = "restore", !.dirty = FALSE]
             /\ toHost' = toHost \o notifyParent("completed", plugin.asked) \o setDirtyState(plugin, FALSE)
    BY <1>10, <2>2 DEF Finishing, Types, Plugins
  <2>3. CASE ActionFails(plugin.asked)
    BY <2>1, <2>3, <1>a
  <2> QED BY <1>10, <2>2, <2>3 DEF pollOperation
<1> QED BY <1>1, <1>2, <1>3, <1>4, <1>5, <1>6, <1>7, <1>8, <1>9, <1>10 DEF Working, Plugin

\* What the editor says of itself, besides of changes.
LEMMA EditingSays ==
  ASSUME Types, Editing
  PROVE  Altering \/ SendChanges \/ (Says /\ (onDocumentReady \/ SendFails))
<1>1. ASSUME onDocumentReady PROVE Says
  BY <1>1, HostMessage DEF onDocumentReady, Say, Says
<1>2. ASSUME SendFails PROVE Says
  BY <1>2, HostMessage DEF SendFails, Say, Says
<1>3. CASE onDocumentReady
  BY <1>1, <1>3
<1>4. CASE SendFails
  BY <1>2, <1>4
<1>5. CASE SendChanges \/ Edit
  BY <1>5 DEF Altering
<1> QED BY <1>3, <1>4, <1>5 DEF Editing

-----------------------------------------------------------------------------
(* One good end for each document of an editor *)

\* t holds an end where s does, and not more of them.
Fewer(s, t) ==
  /\ \A i \in DOMAIN t : Ends(t[i]) => \E k \in DOMAIN s : Ends(s[k])
  /\ (\A i, j \in DOMAIN s : Ends(s[i]) /\ Ends(s[j]) => i = j)
     => \A i, j \in DOMAIN t : Ends(t[i]) /\ Ends(t[j]) => i = j

\* One more message that is not an end.
LEMMA FewerSaid ==
  ASSUME NEW s \in Seq(HostMessages), NEW m \in HostMessages, ~Ends(m)
  PROVE  Fewer(s, Append(s, m))
<1>1. /\ DOMAIN s = 1..Len(s) /\ Len(s) \in Nat
      /\ DOMAIN Append(s, m) = 1..Len(s) + 1
      /\ \A i \in DOMAIN s : Append(s, m)[i] = s[i]
      /\ Append(s, m)[Len(s) + 1] = m
  BY Appending
<1>2. \A i \in DOMAIN Append(s, m) : Ends(Append(s, m)[i]) => i \in DOMAIN s /\ Ends(s[i])
  BY <1>1
<1> QED BY <1>2 DEF Fewer

\* The first message is taken.
LEMMA FewerHeard ==
  ASSUME NEW s \in Seq(HostMessages), s # <<>>
  PROVE  /\ Fewer(s, Tail(s))
         /\ Ends(Head(s)) /\ (\A i, j \in DOMAIN s : Ends(s[i]) /\ Ends(s[j]) => i = j)
            => \A i \in DOMAIN Tail(s) : ~Ends(Tail(s)[i])
<1>1. /\ Len(s) \in Nat /\ DOMAIN s = 1..Len(s) /\ 1 \in DOMAIN s /\ Head(s) = s[1]
      /\ DOMAIN Tail(s) = 1..Len(s) - 1
      /\ \A i \in DOMAIN Tail(s) : Tail(s)[i] = s[i + 1] /\ i + 1 \in DOMAIN s
  BY Taking
<1>2. Fewer(s, Tail(s))
  BY <1>1 DEF Fewer
<1>3. ASSUME Ends(Head(s)), \A i, j \in DOMAIN s : Ends(s[i]) /\ Ends(s[j]) => i = j
      PROVE  \A i \in DOMAIN Tail(s) : ~Ends(Tail(s)[i])
  BY <1>1, <1>3
<1> QED BY <1>2, <1>3

\* A change of the content, and the start of the plugin, end nothing.
LEMMA FewerWorking ==
  ASSUME Types, Down, Prefilling, Says \/ initializePlugin \/ Altering \/ Flushing \/ SendChanges
  PROVE  Fewer(toHost, toHost')
<1>0. Fewer(toHost, toHost)
  BY DEF Fewer
<1>1. ASSUME Says PROVE Fewer(toHost, toHost')
  BY <1>1, <1>0, FewerSaid, Kinds DEF Says, Types
<1> DEFINE state == [type |-> "state", dirty |-> TRUE]
           dirty == [type |-> "dirty", dirty |-> TRUE]
           ready == [type |-> "bridge-ready"]
<1>2. /\ state \in HostMessages /\ dirty \in HostMessages /\ ready \in HostMessages
      /\ ~Ends(state) /\ ~Ends(dirty) /\ ~Ends(ready)
  BY HostMessage, Kinds DEF Ends
<1>3. \A s, t, u : Fewer(s, t) /\ Fewer(t, u) => Fewer(s, u)
  BY DEF Fewer
<1>4. ASSUME Altering PROVE Fewer(toHost, toHost')
  <2>1. PICK sent \in Seq(HostMessages) :
          /\ sent = IF office.content = office.sent THEN Append(toHost, state) ELSE toHost
          /\ toHost' = IF plugin.up /\ ~plugin.dirty THEN Append(sent, dirty) ELSE sent
    BY <1>4, AlteringFacts
  <2>2. Fewer(toHost, sent)
    BY <2>1, <1>0, <1>2, FewerSaid DEF Types
  <2>3. Fewer(sent, Append(sent, dirty))
    BY <1>2, FewerSaid
  <2> QED BY <2>1, <2>2, <2>3, <1>3
<1>5. ASSUME initializePlugin PROVE Fewer(toHost, toHost')
  <2>1. /\ toHost' = IF plugin.early THEN Append(Append(toHost, dirty), ready) ELSE Append(toHost, ready)
        /\ Append(toHost, dirty) \in Seq(HostMessages) /\ toHost \in Seq(HostMessages)
    BY <1>5, Starting DEF initializePlugin, Types
  <2>2. /\ Fewer(toHost, Append(toHost, dirty)) /\ Fewer(toHost, Append(toHost, ready))
        /\ Fewer(Append(toHost, dirty), Append(Append(toHost, dirty), ready))
    BY <2>1, <1>2, FewerSaid
  <2> QED BY <2>1, <2>2, <1>3
<1>6. ASSUME Flushing PROVE Fewer(toHost, toHost')
  <2>1. plugin.asked + 1 \in Nat
    BY DEF Types, Plugins
  <2>2. PICK m \in HostMessages : m.type = "editor-save-request" /\ toHost' = Append(toHost, m)
    BY <1>6, <2>1, FlushingFacts, HostMessage
  <2> QED BY <2>2, FewerSaid DEF Types, Ends
<1>7. ASSUME SendChanges PROVE Fewer(toHost, toHost')
  <2>1. PICK m \in HostMessages : m.type = "state" /\ toHost' = Append(toHost, m)
    BY <1>7, HostMessage, Kinds DEF SendChanges, Say
  <2> QED BY <2>1, FewerSaid DEF Types, Ends
<1> QED BY <1>1, <1>4, <1>5, <1>6, <1>7

\* The plugin stays with an operation that it polls, or is done with it.
LEMMA PollingSteps ==
  ASSUME Types, Down, Prefilling, Working
  PROVE  /\ office'.key = office.key
         /\ plugin'.step = "polling" => \/ plugin.step = "polling"
                                        \/ postAction /\ server'.op = "pending" /\ office.key = server.key
         /\ server' = server \/ (plugin'.step = "polling" /\ plugin.step = "post" /\ server'.op = "pending"
                                 /\ server'.key = server.key /\ server'.posted = plugin.data
                                 /\ server'.document = server.document /\ server'.data = server.data
                                 /\ office' = office /\ office.key = server.key)
<1>a. ASSUME NEW op \in Nat, ActionFails(op) PROVE plugin'.step # "polling"
  BY <1>a, Ending
<1>b. ASSUME NEW step, Advance(step) PROVE plugin'.step = step
  BY <1>b DEF Advance, Types, Plugins
<1>c. UNCHANGED office \/ Restrict \/ (\E r : office' = [office EXCEPT !.restriction = r]) => office'.key = office.key
  BY DEF Restrict, Types, Offices
<1>1. CASE initializePlugin
  BY <1>1, <1>c DEF initializePlugin, Down, Types, Plugins
<1>2. CASE CapabilityTimeout
  BY <1>2, <1>a DEF CapabilityTimeout
<1>3. CASE toolbarAction
  <2>1. PICK action \in {"save-draft", "submit"} : plugin' = [plugin EXCEPT !.step = "prepare", !.action = action]
    BY <1>3 DEF toolbarAction, toolbarActionsForMode
  <2> QED BY <1>3, <2>1 DEF toolbarAction, Types, Plugins
<1>4. CASE startInitializationTasks
  BY <1>4, <1>c DEF startInitializationTasks, Types, Plugins
<1>5. CASE RestrictTimer
  BY <1>5, <1>c DEF RestrictTimer, Types, Plugins
<1>6. CASE PrefillTimer
  BY <1>6 DEF PrefillTimer, Types, Plugins
<1>7. CASE ensurePrefill
  <2>1. \/ plugin' = [plugin EXCEPT !.prefill = "failed"]
        \/ plugin' = [plugin EXCEPT !.prefill = "done"]
        \/ plugin' = [plugin EXCEPT !.prefill = "done", !.dirty = TRUE]
    BY <1>7 DEF ensurePrefill
  <2>2. \/ UNCHANGED office
        \/ Restrict
        \/ office' = [office EXCEPT !.restriction = "forms", !.content = count.changes + 1]
    BY <1>7 DEF ensurePrefill
  <2>3. office'.key = office.key
    BY <2>2, <1>c DEF Types, Offices
  <2> QED BY <1>7, <2>1, <2>3 DEF ensurePrefill, Types, Plugins
<1>8. CASE RunRequested
  <2>1. \/ plugin' = plugin
        \/ \E action \in {"save-draft", "save-correction"} :
             plugin' = [plugin EXCEPT !.step = "prepare", !.action = action]
    BY <1>8 DEF RunRequested
  <2>2. plugin' = plugin \/ plugin'.step = "prepare"
    BY <2>1 DEF Types, Plugins
  <2> QED BY <1>8, <2>2 DEF RunRequested
<1>9. CASE PrepareAction
  <2>1. plugin'.step # "polling"
    BY <1>9, <1>a, <1>b DEF PrepareAction, Types, Plugins
  <2>2. office'.key = office.key
    BY <1>9, <1>c DEF PrepareAction
  <2> QED BY <1>9, <2>1, <2>2 DEF PrepareAction
<1>10. CASE freezeEditor
  BY <1>10, <1>b, <1>c DEF freezeEditor
<1>11. CASE extractFormData
  BY <1>11 DEF extractFormData, Types, Plugins
<1>12. CASE flushEditorChanges
  <2>1. plugin'.step # "polling"
    BY <1>12, <1>a DEF flushEditorChanges, Types, Plugins
  <2> QED BY <1>12, <2>1 DEF flushEditorChanges
<1>13. CASE EditorSaveAnswered
  BY <1>13, <1>a, <1>b DEF EditorSaveAnswered
<1>14. CASE handleCapabilityResponse
  BY <1>14, <1>a, <1>b DEF handleCapabilityResponse
<1>15. CASE postAction
  <2>1. CASE ActionFails(0) /\ UNCHANGED server
    BY <1>15, <2>1, <1>a DEF postAction
  <2>2. CASE /\ office.key = server.key
             /\ server' = [server EXCEPT !.op = "pending", !.posted = plugin.data]
             /\ Advance("polling")
    BY <1>15, <2>2, <1>b DEF postAction, Types, Servers
  <2> QED BY <1>15, <2>1, <2>2 DEF postAction
<1>16. CASE pollOperation
  BY <1>16 DEF pollOperation
<1>17. CASE RestoreEditor
  BY <1>17, <1>c DEF RestoreEditor, Types, Plugins
<1>18. CASE BridgeAck
  BY <1>18 DEF BridgeAck, Types, Plugins
<1> QED BY <1>1, <1>2, <1>3, <1>4, <1>5, <1>6, <1>7, <1>8, <1>9, <1>10, <1>11, <1>12, <1>13, <1>14, <1>15, <1>16, <1>17,
           <1>18
        DEF Working, Plugin


\* What holds of the ends among the messages, as long as they become fewer.
LEMMA EndsKept ==
  ASSUME Types, Beginning, OneEnd, host.phase = "mounted", Fewer(toHost, toHost'),
         office'.key = office.key, server'.key = server.key, page'.reopening = page.reopening,
         plugin'.step = "polling" => plugin.step = "polling" \/ office.key = server.key
  PROVE  \A i \in DOMAIN toHost' : Ends(toHost'[i]) =>
           /\ office'.key < server'.key /\ ~page'.reopening
           /\ plugin'.step # "polling"
           /\ \A j \in DOMAIN toHost' : Ends(toHost'[j]) => i = j
<1>1. \A i, j \in DOMAIN toHost : Ends(toHost[i]) /\ Ends(toHost[j]) => i = j
  BY EndsFormer
<1>2. \A i, j \in DOMAIN toHost' : Ends(toHost'[i]) /\ Ends(toHost'[j]) => i = j
  BY <1>1 DEF Fewer
<1>3. ASSUME NEW i \in DOMAIN toHost', Ends(toHost'[i])
      PROVE  office.key < server.key /\ ~page.reopening /\ plugin.step # "polling"
  <2>1. PICK k \in DOMAIN toHost : Ends(toHost[k])
    BY <1>3 DEF Fewer
  <2> QED BY <2>1, EndsFormer
<1>4. office.key \in Nat /\ server.key \in Nat
  BY DEF Types, Offices, Servers
<1> QED BY <1>2, <1>3, <1>4

\* The plugin tells one good end of an operation at most, while the editor has its document.
LEMMA OneEndKept ==
  ASSUME Types, Beginning, Unmounted, NativeForm, Down, Prefilling, OneEnd, Next
  PROVE  OneEnd'
<1>0. /\ office.key \in Nat /\ server.key \in Nat
      /\ toHost \in Seq(HostMessages)
  BY DEF Types, Offices, Servers
<1>m. Mounted => host.phase = "mounted" /\ form.step = "none"
  BY DEF Mounted, Beginning
<1>n. NoPlugin.step = "idle"
  BY DEF NoPlugin
<1>1. CASE Handling
  <2>1. /\ host.phase = "mounted" /\ form.step = "none" /\ toHost # <<>> /\ toHost' = Tail(toHost)
        /\ UNCHANGED <<form, plugin, office, server>>
        /\ Submitted \/ page'.reopening = page.reopening
    BY <1>1, <1>m, HandlingFrame
  <2>2. Fewer(toHost, toHost')
    BY <2>1, <1>0, FewerHeard
  <2>3. CASE page'.reopening = page.reopening
    <3>1. \A i \in DOMAIN toHost' : Ends(toHost'[i]) =>
           /\ office'.key < server'.key /\ ~page'.reopening
           /\ plugin'.step # "polling"
           /\ \A j \in DOMAIN toHost' : Ends(toHost'[j]) => i = j
      BY <2>1, <2>2, <2>3, EndsKept
    <3> QED BY <2>1, <2>3, <3>1 DEF OneEnd
  <2>4. CASE Submitted
    <3>1. 1 \in DOMAIN toHost /\ Head(toHost) = toHost[1]
      BY <2>1, <1>0, Taking
    <3>2. Ends(toHost[1])
      BY <2>4, <3>1 DEF Submitted, Operation, Said, Ends
    <3>3. /\ office.key < server.key /\ server.op # "pending" /\ plugin.step # "polling"
          /\ \A i, j \in DOMAIN toHost : Ends(toHost[i]) /\ Ends(toHost[j]) => i = j
      BY <2>1, <3>1, <3>2, EndsFormer
    <3>4. \A i \in DOMAIN toHost' : ~Ends(toHost'[i])
      BY <2>1, <1>0, <3>1, <3>2, <3>3, FewerHeard
    <3> QED BY <1>0, <2>1, <3>3, <3>4 DEF OneEnd
  <2> QED BY <2>1, <2>3, <2>4
<1>2. CASE Relaying
  BY <1>2, RelayingFrame DEF OneEnd
<1>3. CASE Editing
  <2>1. Mounted /\ UNCHANGED <<page, form, server>>
    BY <1>3, EditingFrame
  <2>2. Fewer(toHost, toHost')
    BY <1>3, EditingSays, FewerWorking
  <2>3. office'.key = office.key /\ plugin'.step = plugin.step
    <3>1. CASE Altering
      BY <3>1, AlteringFacts
    <3>2. CASE SendChanges
      BY <3>2 DEF SendChanges, Types, Offices
    <3>3. CASE onDocumentReady \/ SendFails
      BY <3>3 DEF onDocumentReady, SendFails, Types, Offices
    <3> QED BY <1>3, <3>1, <3>2, <3>3, EditingSays
  <2>4. \A i \in DOMAIN toHost' : Ends(toHost'[i]) =>
          /\ office'.key < server'.key /\ ~page'.reopening
          /\ plugin'.step # "polling"
          /\ \A j \in DOMAIN toHost' : Ends(toHost'[j]) => i = j
    BY <2>1, <2>2, <2>3, <1>m, EndsKept
  <2> QED BY <2>1, <2>3, <2>4 DEF OneEnd
<1>4. CASE Loading
  <2>1. /\ ~page'.reopening /\ server'.op # "pending" /\ server' = server /\ toHost' = <<>>
        /\ plugin'.step = "idle" /\ office'.key = server.key
    BY <1>4, <1>n, LoadingQuiet, LoadingFrame, Reloading
  <2> QED BY <1>0, <2>1 DEF OneEnd
<1>5. CASE Paging
  BY <1>5, PagingFrame DEF OneEnd
<1>6. CASE Filling
  BY <1>6, FillingFrame DEF OneEnd
<1>7. CASE Switching
  <2>1. form.step = "latest" /\ host.phase = "none" /\ server.op # "pending"
    BY <1>7, SwitchingFrame DEF Beginning, NativeForm
  <2>2. plugin = NoPlugin /\ toHost = <<>> /\ ~page.reopening
    BY <2>1 DEF Unmounted
  <2>3. office'.key = server.key
    BY <1>7, SwitchingFrame DEF Loaded, NoOffice
  <2>4. server' = server /\ toHost' = toHost /\ plugin' = plugin /\ page'.reopening = page.reopening
    BY <1>7, SwitchingFrame
  <2>5. plugin'.step = "idle"
    BY <1>n, <2>2, <2>4
  <2> QED BY <1>0, <2>1, <2>2, <2>3, <2>4, <2>5 DEF OneEnd
<1>8. CASE Working
  <2>1. Mounted /\ UNCHANGED <<page, form>>
    BY <1>8, WorkingFrame
  <2>2. CASE Finishing
    <3>1. plugin.step = "polling" /\ plugin'.step = "restore" /\ server.op = "completed" /\ UNCHANGED <<office, server>>
      BY <2>2 DEF Finishing, pollOperation
    <3>2. /\ office.key < server.key /\ ~page.reopening
          /\ \A i \in DOMAIN toHost : ~Ends(toHost[i])
      BY <1>m, <2>1, <3>1 DEF OneEnd
    <3>3. toHost' = toHost \o notifyParent("completed", plugin.asked) \o setDirtyState(plugin, FALSE)
      BY <2>2 DEF Finishing
    <3>4. plugin.asked \in Nat
      BY DEF Types, Plugins
    <3> DEFINE clean == [type |-> "dirty", dirty |-> FALSE]
    <3>5. PICK ended \in Reports \ States :
            LET first == IF plugin.ack THEN Append(toHost, ended) ELSE toHost
            IN  /\ Ends(ended)
                /\ first \in Seq(HostMessages)
                /\ toHost' = IF plugin.dirty THEN Append(first, clean) ELSE first
      BY <3>3, <3>4, Completing
    <3> DEFINE first == IF plugin.ack THEN Append(toHost, ended) ELSE toHost
    <3>6. clean \in HostMessages /\ ~Ends(clean) /\ ended \in HostMessages
      BY HostMessage, Kinds DEF Ends
    <3> HIDE DEF clean
    <3>7. /\ DOMAIN toHost = 1..Len(toHost) /\ Len(toHost) \in Nat
          /\ DOMAIN Append(toHost, ended) = 1..Len(toHost) + 1
          /\ \A i \in DOMAIN toHost : Append(toHost, ended)[i] = toHost[i]
      BY <1>0, <3>6, Appending
    <3>8. \A i, j \in DOMAIN Append(toHost, ended) :
            Ends(Append(toHost, ended)[i]) /\ Ends(Append(toHost, ended)[j]) => i = j
      BY <3>2, <3>7
    <3>9. /\ first \in Seq(HostMessages) /\ toHost' = IF plugin.dirty THEN Append(first, clean) ELSE first
          /\ \A i, j \in DOMAIN first : Ends(first[i]) /\ Ends(first[j]) => i = j
      BY <3>2, <3>5, <3>8
    <3> HIDE DEF first
    <3>10. Fewer(first, Append(first, clean))
      BY <3>6, <3>9, FewerSaid
    <3>11. \A i, j \in DOMAIN toHost' : Ends(toHost'[i]) /\ Ends(toHost'[j]) => i = j
      BY <3>9, <3>10 DEF Fewer
    <3> QED BY <1>0, <2>1, <3>1, <3>2, <3>11 DEF OneEnd
  <2>3. CASE ~Finishing
    <3>1. Fewer(toHost, toHost')
      BY <1>8, <2>3, WorkingSays, FewerWorking
    <3>2. /\ office'.key = office.key
          /\ plugin'.step = "polling" => \/ plugin.step = "polling" /\ server' = server
                                         \/ server'.op = "pending" /\ office.key = server.key
          /\ server'.key = server.key
          /\ server' = server \/ (server'.op = "pending" /\ office.key = server.key)
      BY <1>8, PollingSteps
    <3>3. \A i \in DOMAIN toHost' : Ends(toHost'[i]) =>
            /\ office'.key < server'.key /\ ~page'.reopening
            /\ plugin'.step # "polling"
            /\ \A j \in DOMAIN toHost' : Ends(toHost'[j]) => i = j
      BY <1>m, <2>1, <3>1, <3>2, EndsKept
    <3> QED BY <1>0, <1>m, <2>1, <3>2, <3>3 DEF OneEnd
  <2> QED BY <2>2, <2>3
<1>9. CASE LoadConfig
  BY <1>9 DEF LoadConfig, OneEnd
<1>10. CASE Settle
  <2>1. UNCHANGED <<page, form, plugin, office, toHost>> /\ server.op = "pending"
    BY <1>10 DEF Settle
  <2>2. ASSUME form.step = "none"
        PROVE  /\ office.key = server.key /\ ~page.reopening
               /\ \A i \in DOMAIN toHost : ~Ends(toHost[i])
    BY <1>0, <2>1, <2>2 DEF OneEnd
  <2>3. \/ server'.op = "failed" /\ server'.key = server.key
        \/ server'.op = "completed" /\ server'.key = server.key + 1
    BY <1>10, <1>0 DEF Settle, Types, Servers
  <2> QED BY <1>0, <2>1, <2>2, <2>3 DEF OneEnd
<1>11. CASE startResponse
  <2>1. /\ office.key = 0 /\ server.key = 0 /\ server.op = "none" /\ host.phase = "none"
        /\ UNCHANGED <<plugin, office, toHost, server>> /\ page'.reopening = page.reopening
    BY <1>11 DEF startResponse, Beginning, NoOffice, Types, Pages
  <2>2. plugin.step = "idle" /\ toHost = <<>> /\ ~page.reopening
    BY <2>1, <1>n DEF Unmounted
  <2> QED BY <2>1, <2>2 DEF OneEnd
<1> QED BY <1>1, <1>2, <1>3, <1>4, <1>5, <1>6, <1>7, <1>8, <1>9, <1>10, <1>11, NextKinds

-----------------------------------------------------------------------------
(* From the reading of the data to the end of the operation *)

\* What was noted stays noted.
LEMMA StillNoted ==
  ASSUME history \subseteq history'
  PROVE  (Thawed => Thawed') /\ (Slipped => Slipped')
  BY DEF Thawed, Slipped

\* An editor that is not frozen, before and after.
LEMMA NotFrozen ==
  ASSUME Freeze, history \subseteq history', ~Frozen(plugin.step), ~Frozen(plugin'.step), UNCHANGED <<form, server>>,
         office'.content = office.content, office'.sent \in {office.sent, office.content}
  PROVE  Freeze'
  BY StillNoted DEF Freeze, Frozen

\* A step that leaves alone what is compared.
LEMMA StillFrozen ==
  ASSUME Freeze, history \subseteq history', UNCHANGED <<form, server>>,
         plugin'.step = plugin.step, plugin'.data = plugin.data,
         office'.content = office.content, office'.sent \in {office.sent, office.content},
         Thawed' \/ office'.restriction = office.restriction
  PROVE  Freeze'
  BY StillNoted DEF Freeze, Frozen

\* An action that fails.
LEMMA FailedFrozen ==
  ASSUME Types, Freeze, NEW op \in Nat, ActionFails(op), UNCHANGED <<form, office, server, history>>
  PROVE  Freeze'
<1>1. plugin'.step = IF Frozen(plugin.step) THEN "restore" ELSE "idle"
  BY Ending
<1>2. CASE Frozen(plugin.step)
  BY <1>1, <1>2, StillNoted DEF Freeze, Frozen
<1>3. CASE ~Frozen(plugin.step)
  <2>1. ~Frozen(plugin'.step)
    BY <1>1, <1>3 DEF Frozen
  <2> QED BY <1>1, <1>3, <2>1, NotFrozen
<1> QED BY <1>2, <1>3

\* Opening the controls of an editor that is frozen is noted.
LEMMA RestrictedFrozen ==
  ASSUME Types, Freeze, Restrict, UNCHANGED <<form, server>>,
         plugin'.step = plugin.step, plugin'.data = plugin.data
  PROVE  Freeze'
<1>1. /\ office'.content = office.content /\ office'.sent = office.sent
      /\ history \subseteq history'
      /\ office.restriction = "readOnly" => Thawed'
  BY Restricting DEF Thawed
<1>2. CASE Frozen(plugin.step)
  <2>1. Thawed'
    BY <1>1, <1>2, StillNoted DEF Freeze
  <2> QED BY <1>1, <2>1, StillFrozen
<1>3. CASE ~Frozen(plugin.step)
  BY <1>1, <1>3, NotFrozen
<1> QED BY <1>2, <1>3

\* A change of the content finds the editor not frozen, and nothing to be saved; where the
\* controls were opened too early, it is noted.
LEMMA AlteredFrozen ==
  ASSUME Types, Beginning, Down, Prefilling, Freeze, Altering
  PROVE  Freeze'
<1>1. /\ plugin'.step = plugin.step /\ UNCHANGED <<form, server>> /\ Mounted
      /\ Frozen(plugin.step) => office.restriction # "readOnly"
      /\ history \subseteq history' /\ (Saving /\ Thawed => Slipped')
  BY AlteringFacts DEF Slipped
<1>2. form.step = "none"
  BY <1>1 DEF Beginning, Mounted
<1>3. ~Thawed => ~Frozen(plugin.step) /\ ~Saving
  BY <1>1, <1>2 DEF Freeze, Frozen, Saving
<1>4. (Thawed => Thawed') /\ (Slipped => Slipped')
  BY <1>1, StillNoted
<1>5. Saving' <=> Saving
  BY <1>1 DEF Saving
<1>6. CASE Saving
  BY <1>1, <1>3, <1>4, <1>6 DEF Freeze
<1>7. CASE ~Saving
  BY <1>1, <1>3, <1>4, <1>5, <1>7 DEF Freeze, Saving, Frozen
<1> QED BY <1>6, <1>7

\* The steps of the plugin.
LEMMA WorkingFrozen ==
  ASSUME Types, Beginning, Down, Prefilling, Freeze, SaveAnswered, Working
  PROVE  Freeze'
<1>0. UNCHANGED form /\ form.step = "none" /\ plugin.asked \in Nat
  BY WorkingFrame DEF Beginning, Mounted, Types, Plugins
<1>t. history' = history => (Thawed' <=> Thawed) /\ (Slipped' <=> Slipped)
  BY DEF Thawed, Slipped
<1>1. CASE initializePlugin
  <2>1. /\ plugin.step = "idle" /\ plugin'.step = "idle" /\ UNCHANGED <<server, history>>
        /\ office'.content = office.content /\ office'.sent = office.sent
    BY <1>1 DEF initializePlugin, Down, Types, Plugins, Offices
  <2> QED BY <1>0, <2>1, NotFrozen DEF Frozen
<1>2. CASE CapabilityTimeout
  BY <1>2, FailedFrozen DEF CapabilityTimeout
<1>3. CASE toolbarAction
  <2>1. PICK action \in {"save-draft", "submit"} : plugin' = [plugin EXCEPT !.step = "prepare", !.action = action]
    BY <1>3 DEF toolbarAction, toolbarActionsForMode
  <2>2. plugin.step = "idle" /\ plugin'.step = "prepare" /\ UNCHANGED <<office, server, history>>
    BY <1>3, <2>1 DEF toolbarAction, Types, Plugins
  <2> QED BY <1>0, <2>2, NotFrozen DEF Frozen
<1>4. CASE startInitializationTasks
  <2>1. /\ plugin'.step = plugin.step /\ plugin'.data = plugin.data /\ UNCHANGED server
        /\ Restrict \/ UNCHANGED <<office, history>>
    BY <1>4 DEF startInitializationTasks, Types, Plugins
  <2>2. CASE Restrict
    BY <1>0, <2>1, <2>2, RestrictedFrozen
  <2>3. CASE UNCHANGED <<office, history>>
    BY <1>0, <2>1, <2>3, StillFrozen
  <2> QED BY <2>1, <2>2, <2>3
<1>5. CASE RestrictTimer
  <2>1. plugin'.step = plugin.step /\ plugin'.data = plugin.data /\ UNCHANGED server /\ Restrict
    BY <1>5 DEF RestrictTimer, Types, Plugins
  <2> QED BY <1>0, <2>1, RestrictedFrozen
<1>6. CASE PrefillTimer
  <2>1. plugin'.step = plugin.step /\ plugin'.data = plugin.data /\ UNCHANGED <<server, office, history>>
    BY <1>6 DEF PrefillTimer, Types, Plugins
  <2> QED BY <1>0, <2>1, StillFrozen
<1>7. CASE ensurePrefill
  <2>0. UNCHANGED server
    BY <1>7 DEF ensurePrefill
  <2>1. CASE plugin' = [plugin EXCEPT !.prefill = "failed"] /\ UNCHANGED <<office, history>>
    <3>1. plugin'.step = plugin.step /\ plugin'.data = plugin.data
      BY <2>1 DEF Types, Plugins
    <3> QED BY <1>0, <2>0, <2>1, <3>1, StillFrozen
  <2>2. CASE plugin' = [plugin EXCEPT !.prefill = "done"] /\ Restrict
    <3>1. plugin'.step = plugin.step /\ plugin'.data = plugin.data
      BY <2>2 DEF Types, Plugins
    <3> QED BY <1>0, <2>0, <2>2, <3>1, RestrictedFrozen
  <2>3. CASE Changed
    BY <1>7, <2>3, AlteredFrozen DEF Altering
  <2> QED BY <1>7, <2>1, <2>2, <2>3 DEF ensurePrefill
<1>8. CASE RunRequested
  <2>1. CASE plugin.step = "idle" /\ UNCHANGED history
    <3>1. PICK action \in {"save-draft", "save-correction"} :
            plugin' = [plugin EXCEPT !.step = "prepare", !.action = action]
      BY <1>8, <2>1 DEF RunRequested
    <3>2. plugin'.step = "prepare" /\ UNCHANGED <<office, server>>
      BY <1>8, <3>1 DEF RunRequested, Types, Plugins
    <3> QED BY <1>0, <2>1, <3>2, NotFrozen DEF Frozen
  <2>2. CASE history' = history \cup {"ignored"} /\ UNCHANGED plugin
    <3>1. UNCHANGED <<office, server>> /\ history \subseteq history'
      BY <1>8, <2>2 DEF RunRequested
    <3> QED BY <1>0, <2>2, <3>1, StillFrozen
  <2> QED BY <1>8, <2>1, <2>2 DEF RunRequested
<1>9. CASE PrepareAction
  <2>0. plugin.step = "prepare" /\ UNCHANGED server
    BY <1>9 DEF PrepareAction
  <2>1. CASE plugin' = [plugin EXCEPT !.prefill = "applying"] /\ UNCHANGED <<office, history>>
    <3>1. plugin'.step = plugin.step /\ plugin'.data = plugin.data
      BY <2>1 DEF Types, Plugins
    <3> QED BY <1>0, <2>0, <2>1, <3>1, StillFrozen
  <2>2. CASE ActionFails(0) /\ UNCHANGED <<office, history>>
    BY <1>0, <2>0, <2>2, FailedFrozen
  <2>3. CASE Advance("freeze")
    <3>1. plugin'.step = "freeze"
      BY <2>3 DEF Advance, Types, Plugins
    <3>2. history \subseteq history' /\ office'.content = office.content /\ office'.sent = office.sent
      BY <1>9, Restricting DEF PrepareAction
    <3> QED BY <1>0, <2>0, <3>1, <3>2, NotFrozen DEF Frozen
  <2> QED BY <1>9, <2>1, <2>2, <2>3 DEF PrepareAction
<1>10. CASE freezeEditor
  <2>1. /\ plugin.step = "freeze" /\ plugin'.step = "read" /\ office'.restriction = "readOnly"
        /\ office'.content = office.content /\ office'.sent = office.sent
        /\ UNCHANGED <<server, history>>
    BY <1>10 DEF freezeEditor, Advance, Types, Plugins, Offices
  <2> QED BY <1>0, <1>t, <2>1 DEF Freeze, Frozen
<1>11. CASE extractFormData
  <2>1. /\ plugin.step = "read" /\ plugin'.step = "flush" /\ plugin'.data = office.content
        /\ UNCHANGED <<office, server, history>>
    BY <1>11 DEF extractFormData, Types, Plugins
  <2> QED BY <1>0, <1>t, <2>1 DEF Freeze, Frozen
<1>12. CASE flushEditorChanges
  <2>0. plugin.step = "flush" /\ UNCHANGED <<office, server, history>>
    BY <1>12 DEF flushEditorChanges
  <2>1. CASE ActionFails(0)
    BY <1>0, <2>0, <2>1, FailedFrozen
  <2>2. CASE plugin' = [plugin EXCEPT !.step = "saving", !.asked = @ + 1]
    <3>1. plugin'.step = "saving" /\ plugin'.data = plugin.data
      BY <2>2 DEF Types, Plugins
    <3> QED BY <1>0, <1>t, <2>0, <3>1 DEF Freeze, Frozen
  <2> QED BY <1>12, <2>1, <2>2 DEF flushEditorChanges
<1>13. CASE EditorSaveAnswered
  <2>0. UNCHANGED <<office, server, history>>
    BY <1>13 DEF EditorSaveAnswered
  <2>1. CASE UNCHANGED plugin
    BY <1>0, <2>0, <2>1, StillFrozen
  <2>2. CASE ActionFails(0)
    BY <1>0, <2>0, <2>2, FailedFrozen
  <2>3. CASE /\ plugin.step = "saving" /\ Head(toPlugin).id = plugin.asked /\ Head(toPlugin).saved
             /\ Advance("granting")
    <3>1. plugin'.step = "granting" /\ plugin'.data = plugin.data
      BY <2>3 DEF Advance, Types, Plugins
    <3>2. 1 \in DOMAIN toPlugin /\ Head(toPlugin) = toPlugin[1] /\ toPlugin[1].type = "editor-save-response"
      BY <1>13, Taking DEF EditorSaveAnswered, Asked, Types
    <3>3. Slipped \/ office.sent = office.content
      BY <2>3, <3>2 DEF SaveAnswered
    <3> QED BY <1>0, <1>t, <2>0, <2>3, <3>1, <3>3 DEF Freeze, Frozen
  <2> QED BY <1>13, <2>1, <2>2, <2>3 DEF EditorSaveAnswered
<1>14. CASE handleCapabilityResponse
  <2>0. UNCHANGED <<office, server, history>>
    BY <1>14 DEF handleCapabilityResponse
  <2>1. CASE UNCHANGED plugin
    BY <1>0, <2>0, <2>1, StillFrozen
  <2>2. CASE ActionFails(0)
    BY <1>0, <2>0, <2>2, FailedFrozen
  <2>3. CASE plugin.step = "granting" /\ Advance("post")
    <3>1. plugin'.step = "post" /\ plugin'.data = plugin.data
      BY <2>3 DEF Advance, Types, Plugins
    <3> QED BY <1>0, <1>t, <2>0, <2>3, <3>1 DEF Freeze, Frozen
  <2> QED BY <1>14, <2>1, <2>2, <2>3 DEF handleCapabilityResponse
<1>15. CASE postAction
  <2>0. plugin.step = "post" /\ UNCHANGED <<office, history>>
    BY <1>15 DEF postAction
  <2>1. CASE ActionFails(0) /\ UNCHANGED server
    BY <1>0, <2>0, <2>1, FailedFrozen
  <2>2. CASE server' = [server EXCEPT !.op = "pending", !.posted = plugin.data] /\ Advance("polling")
    <3>1. plugin'.step = "polling" /\ plugin'.data = plugin.data
      BY <2>2 DEF Advance, Types, Plugins
    <3>2. /\ server'.op = "pending" /\ server'.posted = plugin.data
          /\ server'.document = server.document /\ server'.data = server.data
      BY <2>2 DEF Types, Servers
    <3> QED BY <1>0, <1>t, <2>0, <3>1, <3>2 DEF Freeze, Frozen
  <2> QED BY <1>15, <2>1, <2>2 DEF postAction
<1>16. CASE pollOperation
  <2>0. plugin.step = "polling" /\ UNCHANGED <<office, server, history>>
    BY <1>16 DEF pollOperation
  <2>1. CASE plugin' = [plugin EXCEPT !.step = "restore", !.dirty = FALSE]
    <3>1. plugin'.step = "restore"
      BY <2>1 DEF Types, Plugins
    <3> QED BY <1>0, <1>t, <2>0, <3>1 DEF Freeze, Frozen
  <2>2. CASE ActionFails(plugin.asked)
    BY <1>0, <2>0, <2>2, FailedFrozen
  <2> QED BY <1>16, <2>1, <2>2 DEF pollOperation
<1>17. CASE RestoreEditor
  <2>1. /\ plugin'.step = "idle" /\ UNCHANGED server
        /\ office'.content = office.content /\ office'.sent = office.sent
        /\ history \subseteq history' /\ (server.op = "pending" => Thawed')
    BY <1>17 DEF RestoreEditor, Thawed, Types, Plugins, Offices
  <2> QED BY <1>0, <2>1, StillNoted DEF Freeze, Frozen
<1>18. CASE BridgeAck
  <2>1. plugin'.step = plugin.step /\ plugin'.data = plugin.data /\ UNCHANGED <<office, server, history>>
    BY <1>18 DEF BridgeAck, Types, Plugins
  <2> QED BY <1>0, <2>1, StillFrozen
<1> QED BY <1>1, <1>2, <1>3, <1>4, <1>5, <1>6, <1>7, <1>8, <1>9, <1>10, <1>11, <1>12, <1>13, <1>14, <1>15, <1>16, <1>17,
           <1>18
        DEF Working, Plugin

\* What an operation stores is what the plugin has read, and what the editor has sent.
LEMMA FreezeKept ==
  ASSUME Types, Beginning, Unmounted, NativeForm, Down, Prefilling, OneEnd, Freeze, SaveAnswered, Next
  PROVE  Freeze'
<1>n. NoPlugin.step = "idle" /\ ~Frozen("idle")
  BY DEF NoPlugin, Frozen
<1>t. history' = history => (Thawed' <=> Thawed) /\ (Slipped' <=> Slipped)
  BY DEF Thawed, Slipped
<1>a. ASSUME UNCHANGED <<form, plugin, office, server>>, (Thawed' <=> Thawed) /\ (Slipped' <=> Slipped)
      PROVE  Freeze'
  BY <1>a DEF Freeze
<1>1. CASE Handling
  BY <1>1, <1>a, HandlingFrame
<1>2. CASE Relaying
  BY <1>2, <1>a, <1>t, RelayingFrame
<1>3. CASE Editing
  <2>1. CASE Altering
    BY <2>1, AlteredFrozen
  <2>2. CASE SendChanges \/ onDocumentReady \/ SendFails
    <3>1. /\ UNCHANGED <<form, plugin, server, history>>
          /\ office'.content = office.content /\ office'.restriction = office.restriction
          /\ office'.sent \in {office.sent, office.content}
      BY <2>2 DEF SendChanges, onDocumentReady, SendFails, Types, Offices
    <3> QED BY <3>1, StillFrozen
  <2> QED BY <1>3, <2>1, <2>2, EditingSays
<1>4. CASE Loading
  <2>1. /\ server.op # "pending" /\ UNCHANGED <<form, server>> /\ plugin'.step = "idle"
        /\ (Thawed' <=> Thawed) /\ (Slipped' <=> Slipped)
    BY <1>4, <1>n, LoadingQuiet, LoadingFrame, Reloading
  <2> QED BY <1>n, <2>1 DEF Freeze
<1>5. CASE Paging
  BY <1>5, <1>a, <1>t, PagingFrame
<1>6. CASE Filling
  <2>1. form'.step # "none" /\ plugin' = plugin /\ plugin = NoPlugin
    BY <1>6, FillingFrame DEF Beginning, Unmounted
  <2> QED BY <1>n, <2>1 DEF Freeze
<1>7. CASE Switching
  <2>1. form.step = "latest" /\ host.phase = "none" /\ server.op # "pending" /\ server.data = server.document
    BY <1>7, SwitchingFrame DEF Beginning, NativeForm
  <2>2. plugin' = NoPlugin /\ server' = server
    BY <1>7, <2>1, SwitchingFrame DEF Unmounted
  <2> QED BY <1>n, <2>1, <2>2 DEF Freeze
<1>8. CASE Working
  BY <1>8, WorkingFrozen
<1>9. CASE LoadConfig
  BY <1>9, <1>a, <1>t DEF LoadConfig
<1>10. CASE Settle
  <2>1. UNCHANGED <<form, plugin, office, history>> /\ server.op = "pending"
    BY <1>10 DEF Settle
  <2>2. \/ server'.op = "failed" /\ server'.data = server.data /\ server'.document = server.document
        \/ /\ server'.op = "completed" /\ server'.data = server.posted
           /\ form.step = "none" => server'.document = office.sent
    BY <1>10 DEF Settle, Types, Servers
  <2>3. form.step # "none" => plugin.step = "idle"
    BY <1>n DEF Beginning, Unmounted
  <2> QED BY <1>t, <1>n, <2>1, <2>2, <2>3 DEF Freeze
<1>11. CASE startResponse
  <2>1. /\ server.op = "none" /\ server.data = server.document /\ host.phase = "none"
        /\ UNCHANGED <<plugin, server>>
    BY <1>11 DEF startResponse, Beginning
  <2>2. plugin = NoPlugin
    BY <2>1 DEF Unmounted
  <2> QED BY <1>n, <2>1, <2>2 DEF Freeze
<1> QED BY <1>1, <1>2, <1>3, <1>4, <1>5, <1>6, <1>7, <1>8, <1>9, <1>10, <1>11, NextKinds

-----------------------------------------------------------------------------
(* What the host knows of the changes that are not sent *)

\* The plugin changes the content only where it says so.
LEMMA WorkingOffice ==
  ASSUME Types, Working
  PROVE  Altering \/ (office'.content = office.content /\ office'.sent = office.sent)
<1>a. \/ UNCHANGED office
      \/ Restrict
      \/ \E r : office' = [office EXCEPT !.restriction = r]
      => office'.content = office.content /\ office'.sent = office.sent
  BY DEF Restrict, Types, Offices
<1>1. CASE initializePlugin \/ CapabilityTimeout \/ toolbarAction
  BY <1>1, <1>a DEF initializePlugin, CapabilityTimeout, toolbarAction
<1>2. CASE ensurePrefill
  BY <1>2, <1>a DEF ensurePrefill, Altering
<1>3. CASE startInitializationTasks \/ RestrictTimer \/ PrefillTimer \/ RunRequested
  BY <1>3, <1>a DEF startInitializationTasks, RestrictTimer, PrefillTimer, RunRequested
<1>4. CASE PrepareAction \/ freezeEditor \/ extractFormData \/ flushEditorChanges
  BY <1>4, <1>a DEF PrepareAction, freezeEditor, extractFormData, flushEditorChanges
<1>5. CASE EditorSaveAnswered \/ handleCapabilityResponse \/ postAction
  BY <1>5, <1>a DEF EditorSaveAnswered, handleCapabilityResponse, postAction
<1>6. CASE pollOperation \/ RestoreEditor \/ BridgeAck
  BY <1>6, <1>a DEF pollOperation, RestoreEditor, BridgeAck
<1> QED BY <1>1, <1>2, <1>3, <1>4, <1>5, <1>6 DEF Working, Plugin

\* A message that matters little leaves the last one that matters as it was.
LEMMA SaysLatest ==
  ASSUME Types, Says, NEW M, NEW T, NEW b, \A m \in Plain : m \notin M, Latest(toHost, M, T, b)
  PROVE  Latest(toHost', M, T, b)
<1>1. CASE toHost' = toHost
  BY <1>1
<1>2. CASE \E m \in Plain : toHost' = Append(toHost, m)
  <2>1. PICK m \in Plain : toHost' = Append(toHost, m)
    BY <1>2
  <2> QED BY <2>1, Kinds, LatestKept DEF Types
<1> QED BY <1>1, <1>2 DEF Says

\* The plugin says nothing of what is sent, except by a change.
LEMMA WorkingStates ==
  ASSUME Types, Down, Prefilling, Says \/ initializePlugin \/ Flushing \/ Finishing, NEW b,
         Latest(toHost, States, Unsent, b)
  PROVE  Latest(toHost', States, Unsent, b)
<1> DEFINE dirty == [type |-> "dirty", dirty |-> TRUE]
           clean == [type |-> "dirty", dirty |-> FALSE]
           ready == [type |-> "bridge-ready"]
<1>a. /\ dirty \in HostMessages /\ dirty \notin States /\ clean \in HostMessages /\ clean \notin States
      /\ ready \in HostMessages /\ ready \notin States
  BY HostMessage, Kinds
<1>b. toHost \in Seq(HostMessages) /\ plugin.asked \in Nat /\ plugin.asked + 1 \in Nat
  BY DEF Types, Plugins
<1> HIDE DEF dirty, clean, ready
<1>1. CASE Says
  BY <1>1, SaysLatest, Kinds
<1>2. CASE initializePlugin
  <2>1. /\ toHost' = IF plugin.early THEN Append(Append(toHost, dirty), ready) ELSE Append(toHost, ready)
        /\ Append(toHost, dirty) \in Seq(HostMessages)
    BY <1>2, Starting DEF initializePlugin, dirty, ready
  <2>2. Latest(Append(toHost, dirty), States, Unsent, b) /\ Latest(Append(toHost, ready), States, Unsent, b)
    BY <1>a, <1>b, LatestKept
  <2>3. Latest(Append(Append(toHost, dirty), ready), States, Unsent, b)
    BY <1>a, <1>b, <2>1, <2>2, LatestKept
  <2> QED BY <2>1, <2>2, <2>3
<1>3. CASE Flushing
  <2>1. PICK m \in HostMessages : m \notin States /\ toHost' = Append(toHost, m)
    BY <1>a, <1>b, <1>3, FlushingFacts, HostMessage
  <2> QED BY <1>a, <1>b, <2>1, LatestKept
<1>4. CASE Finishing
  <2>1. toHost' = toHost \o notifyParent("completed", plugin.asked) \o setDirtyState(plugin, FALSE)
    BY <1>4 DEF Finishing
  <2>2. PICK ended \in Reports \ States :
          LET first == IF plugin.ack THEN Append(toHost, ended) ELSE toHost
          IN  /\ first \in Seq(HostMessages)
              /\ toHost' = IF plugin.dirty THEN Append(first, clean) ELSE first
    BY <1>a, <1>b, <2>1, Completing DEF clean
  <2> DEFINE first == IF plugin.ack THEN Append(toHost, ended) ELSE toHost
  <2>3. Latest(Append(toHost, ended), States, Unsent, b)
    BY <1>a, <1>b, <2>2, Kinds, LatestKept
  <2>4. /\ Latest(first, States, Unsent, b) /\ first \in Seq(HostMessages)
        /\ toHost' = IF plugin.dirty THEN Append(first, clean) ELSE first
    BY <2>2, <2>3
  <2> HIDE DEF first
  <2>5. Latest(Append(first, clean), States, Unsent, b)
    BY <1>a, <1>b, <2>4, LatestKept
  <2> QED BY <2>4, <2>5
<1> QED BY <1>1, <1>2, <1>3, <1>4

\* What the host takes from a message about the changes.
LEMMA HandlingNative ==
  ASSUME Types, Handling
  PROVE  /\ Head(toHost) \in Unsent => host'.native = "dirty"
         /\ host.native = "dirty" /\ Head(toHost) \notin States => host'.native = "dirty"
<1>0. /\ Head(toHost) \in HostMessages
      /\ Head(toHost) \in States <=> Head(toHost).type = "state"
      /\ Head(toHost) \in Unsent <=> Head(toHost).type = "state" /\ Head(toHost).dirty
  BY HandlingFrame, Taking, Fields DEF Types
<1>1. CASE HostDocumentReady
  BY <1>0, <1>1 DEF HostDocumentReady, Said, Types, Hosts
<1>2. CASE onDocumentStateChange
  BY <1>0, <1>2 DEF onDocumentStateChange, Said, Types, Hosts
<1>3. CASE onError
  BY <1>0, <1>3 DEF onError, Said, Types, Hosts
<1>4. CASE BridgeReady
  BY <1>0, <1>4 DEF BridgeReady, Said, Types, Hosts
<1>5. CASE Unheard \/ DirtyMessage \/ OperationPending
  BY <1>0, <1>5 DEF Unheard, DirtyMessage, OperationPending, Operation, Said
<1>6. CASE EditorSaveRequest
  <2>1. host' = [host EXCEPT !.pending = 0] \/ host' = [host EXCEPT !.pending = Head(toHost).id]
    BY <1>6 DEF EditorSaveRequest
  <2>2. host'.native = host.native
    BY <2>1 DEF Types, Hosts
  <2> QED BY <1>0, <1>6, <2>2 DEF EditorSaveRequest, Said
<1>7. CASE CapabilityRequest
  BY <1>0, <1>7 DEF CapabilityRequest, Said, Types, Hosts
<1>8. CASE OperationFailed \/ Submitted \/ CorrectionSaved
  BY <1>0, <1>8 DEF OperationFailed, Submitted, CorrectionSaved, PassedOn, Operation, Said, Types, Hosts
<1> QED BY <1>1, <1>2, <1>3, <1>4, <1>5, <1>6, <1>7, <1>8 DEF Handling

\* The host hears of changes that are not sent.
LEMMA StateKnownKept ==
  ASSUME Types, Beginning, Unmounted, Down, Prefilling, StateKnown, Next
  PROVE  StateKnown'
<1>0. toHost \in Seq(HostMessages)
  BY DEF Types
<1>a. ASSUME UNCHANGED <<toHost, office>>, host'.native = host.native PROVE StateKnown'
  BY <1>a DEF StateKnown, Latest
<1>b. ASSUME office'.content = office'.sent PROVE StateKnown'
  BY <1>b DEF StateKnown
<1>c. ASSUME office'.content = office.content, office'.sent = office.sent, host' = host,
             \A b : Latest(toHost, States, Unsent, b) => Latest(toHost', States, Unsent, b)
      PROVE  StateKnown'
  <2>1. ASSUME office'.content # office'.sent PROVE Latest(toHost', States, Unsent, host.native = "dirty")
    BY <1>c, <2>1 DEF StateKnown
  <2> QED BY <1>c, <2>1 DEF StateKnown, Latest
<1>d. ASSUME Altering PROVE StateKnown'
  <2> DEFINE state == [type |-> "state", dirty |-> TRUE]
             dirty == [type |-> "dirty", dirty |-> TRUE]
  <2>1. /\ state \in HostMessages /\ state \in Unsent
        /\ dirty \in HostMessages /\ dirty \notin States
    BY HostMessage, Kinds
  <2>2. PICK sent \in Seq(HostMessages) :
          /\ sent = IF office.content = office.sent THEN Append(toHost, state) ELSE toHost
          /\ toHost' = IF plugin.up /\ ~plugin.dirty THEN Append(sent, dirty) ELSE sent
    BY <1>d, AlteringFacts
  <2>3. host' = host
    BY <1>d, AlteringFacts
  <2> HIDE DEF state, dirty
  <2>4. Latest(sent, States, Unsent, host.native = "dirty")
    <3>1. CASE office.content = office.sent
      <4>1. Latest(Append(toHost, state), States, Unsent, host.native = "dirty")
        BY <1>0, <2>1, LatestSaid
      <4> QED BY <2>2, <3>1, <4>1
    <3>2. CASE office.content # office.sent
      BY <2>2, <3>2 DEF StateKnown
    <3> QED BY <3>1, <3>2
  <2>5. Latest(Append(sent, dirty), States, Unsent, host.native = "dirty")
    BY <2>1, <2>4, LatestKept
  <2>6. Latest(toHost', States, Unsent, host.native = "dirty")
    BY <2>2, <2>4, <2>5
  <2> QED BY <2>3, <2>6 DEF StateKnown, Latest
<1>1. CASE Handling
  <2>1. office' = office /\ toHost # <<>> /\ toHost' = Tail(toHost)
    BY <1>1, HandlingFrame
  <2>2. ASSUME office'.content # office'.sent
        PROVE  Latest(Tail(toHost), States, Unsent, host'.native = "dirty")
    <3>1. Latest(toHost, States, Unsent, host.native = "dirty")
      BY <2>1, <2>2 DEF StateKnown
    <3>2. /\ Head(toHost) \in Unsent => host'.native = "dirty"
          /\ host.native = "dirty" /\ Head(toHost) \notin States => host'.native = "dirty"
      BY <1>1, HandlingNative
    <3> QED BY <1>0, <2>1, <3>1, <3>2, LatestHeard
  <2> QED BY <2>1, <2>2 DEF StateKnown, Latest
<1>2. CASE Relaying
  BY <1>2, <1>a, RelayingFrame
<1>3. CASE Editing
  <2>1. CASE SendChanges
    BY <2>1, <1>b DEF SendChanges, Types, Offices
  <2>2. CASE Says /\ (onDocumentReady \/ SendFails)
    <3>1. office'.content = office.content /\ office'.sent = office.sent /\ host' = host
      BY <2>2 DEF onDocumentReady, SendFails, Types, Offices
    <3>2. \A b : Latest(toHost, States, Unsent, b) => Latest(toHost', States, Unsent, b)
      BY <2>2, SaysLatest, Kinds
    <3> QED BY <1>c, <3>1, <3>2
  <2> QED BY <1>3, <1>d, <2>1, <2>2, EditingSays
<1>4. CASE Loading
  BY <1>4, <1>b, LoadingFrame, Reloading
<1>5. CASE Paging
  BY <1>5, <1>a, PagingFrame
<1>6. CASE Filling
  BY <1>6, <1>a, FillingFrame
<1>7. CASE Switching
  BY <1>7, <1>b, SwitchingFrame DEF Loaded, NoOffice
<1>8. CASE Working
  <2>1. CASE Altering
    BY <1>d, <2>1
  <2>2. CASE ~Altering
    <3>1. office'.content = office.content /\ office'.sent = office.sent /\ host' = host
      BY <1>8, <2>2, WorkingOffice, WorkingFrame
    <3>2. \A b : Latest(toHost, States, Unsent, b) => Latest(toHost', States, Unsent, b)
      BY <1>8, <2>2, WorkingSays, WorkingStates
    <3> QED BY <1>c, <3>1, <3>2
  <2> QED BY <2>1, <2>2
<1>9. CASE LoadConfig
  BY <1>9, <1>a DEF LoadConfig, Types, Hosts
<1>10. CASE Settle
  BY <1>10, <1>a DEF Settle
<1>11. CASE startResponse
  <2>1. UNCHANGED <<office, toHost>> /\ host'.native = host.native
    BY <1>11 DEF startResponse, Types, Hosts
  <2> QED BY <1>a, <2>1
<1> QED BY <1>1, <1>2, <1>3, <1>4, <1>5, <1>6, <1>7, <1>8, <1>9, <1>10, <1>11, NextKinds

-----------------------------------------------------------------------------
(* The answer to a request to save *)

\* t has no request to save that s has not.
NoMore(s, t) ==
  \A i \in DOMAIN t : t[i].type = "editor-save-request" => \E k \in DOMAIN s : s[k] = t[i]

\* One more message that is not a request to save.
LEMMA NoMoreSaid ==
  ASSUME NEW s \in Seq(HostMessages), NEW m \in HostMessages, m.type # "editor-save-request"
  PROVE  NoMore(s, Append(s, m))
<1>1. /\ DOMAIN s = 1..Len(s) /\ Len(s) \in Nat
      /\ DOMAIN Append(s, m) = 1..Len(s) + 1
      /\ \A i \in DOMAIN s : Append(s, m)[i] = s[i]
      /\ Append(s, m)[Len(s) + 1] = m
  BY Appending
<1>2. \A i \in DOMAIN Append(s, m) : i = Len(s) + 1 \/ i \in DOMAIN s
  BY <1>1
<1> QED BY <1>1, <1>2 DEF NoMore

\* The first message is taken.
LEMMA NoMoreHeard ==
  ASSUME NEW s \in Seq(HostMessages), s # <<>>
  PROVE  NoMore(s, Tail(s))
  BY Taking DEF NoMore

\* Only flushing asks for a save.
LEMMA NoMoreWorking ==
  ASSUME Types, Down, Prefilling, Says \/ initializePlugin \/ Altering \/ Finishing \/ SendChanges
  PROVE  NoMore(toHost, toHost')
<1>0. NoMore(toHost, toHost)
  BY DEF NoMore
<1>1. ASSUME Says PROVE NoMore(toHost, toHost')
  BY <1>1, <1>0, NoMoreSaid, Kinds DEF Says, Types
<1> DEFINE state == [type |-> "state", dirty |-> TRUE]
           dirty == [type |-> "dirty", dirty |-> TRUE]
           ready == [type |-> "bridge-ready"]
           clean == [type |-> "dirty", dirty |-> FALSE]
<1>2. /\ state \in HostMessages /\ dirty \in HostMessages /\ ready \in HostMessages /\ clean \in HostMessages
      /\ state.type # "editor-save-request" /\ dirty.type # "editor-save-request"
      /\ ready.type # "editor-save-request" /\ clean.type # "editor-save-request"
  BY HostMessage, Kinds
<1>3. \A s, t, u : NoMore(s, t) /\ NoMore(t, u) => NoMore(s, u)
  <2>1. ASSUME NEW s, NEW t, NEW u, NoMore(s, t), NoMore(t, u), NEW i \in DOMAIN u, u[i].type = "editor-save-request"
        PROVE  \E k \in DOMAIN s : s[k] = u[i]
    <3>1. PICK k \in DOMAIN t : t[k] = u[i]
      BY <2>1 DEF NoMore
    <3> QED BY <2>1, <3>1 DEF NoMore
  <2> QED BY <2>1 DEF NoMore
<1>4. ASSUME Altering PROVE NoMore(toHost, toHost')
  <2>1. PICK sent \in Seq(HostMessages) :
          /\ sent = IF office.content = office.sent THEN Append(toHost, state) ELSE toHost
          /\ toHost' = IF plugin.up /\ ~plugin.dirty THEN Append(sent, dirty) ELSE sent
    BY <1>4, AlteringFacts
  <2>2. NoMore(toHost, sent)
    BY <2>1, <1>0, <1>2, NoMoreSaid DEF Types
  <2>3. NoMore(sent, Append(sent, dirty))
    BY <1>2, NoMoreSaid
  <2> QED BY <2>1, <2>2, <2>3, <1>3
<1>5. ASSUME initializePlugin PROVE NoMore(toHost, toHost')
  <2>1. /\ toHost' = IF plugin.early THEN Append(Append(toHost, dirty), ready) ELSE Append(toHost, ready)
        /\ Append(toHost, dirty) \in Seq(HostMessages) /\ toHost \in Seq(HostMessages)
    BY <1>5, Starting DEF initializePlugin, Types
  <2>2. /\ NoMore(toHost, Append(toHost, dirty)) /\ NoMore(toHost, Append(toHost, ready))
        /\ NoMore(Append(toHost, dirty), Append(Append(toHost, dirty), ready))
    BY <2>1, <1>2, NoMoreSaid
  <2> QED BY <2>1, <2>2, <1>3
<1>6. ASSUME Finishing PROVE NoMore(toHost, toHost')
  <2>1. /\ toHost' = toHost \o notifyParent("completed", plugin.asked) \o setDirtyState(plugin, FALSE)
        /\ plugin.asked \in Nat
    BY <1>6 DEF Finishing, Types, Plugins
  <2>2. PICK ended \in Reports \ States :
          LET first == IF plugin.ack THEN Append(toHost, ended) ELSE toHost
          IN  /\ ended.type # "editor-save-request"
              /\ first \in Seq(HostMessages)
              /\ toHost' = IF plugin.dirty THEN Append(first, clean) ELSE first
    BY <2>1, Completing
  <2> DEFINE first == IF plugin.ack THEN Append(toHost, ended) ELSE toHost
  <2>3. NoMore(toHost, Append(toHost, ended))
    BY <2>2, Kinds, NoMoreSaid DEF Types
  <2>4. /\ NoMore(toHost, first) /\ first \in Seq(HostMessages)
        /\ toHost' = IF plugin.dirty THEN Append(first, clean) ELSE first
    BY <1>0, <2>2, <2>3
  <2> HIDE DEF first
  <2>5. NoMore(first, Append(first, clean))
    BY <1>2, <2>4, NoMoreSaid
  <2> QED BY <1>3, <2>4, <2>5
<1>7. ASSUME SendChanges PROVE NoMore(toHost, toHost')
  <2>1. PICK m \in HostMessages : m.type = "state" /\ toHost' = Append(toHost, m)
    BY <1>7, HostMessage, Kinds DEF SendChanges, Say
  <2> QED BY <2>1, NoMoreSaid DEF Types
<1> QED BY <1>1, <1>4, <1>5, <1>6, <1>7

\* One more message, that asks for nothing and says nothing of changes.
LEMMA StillBehind ==
  ASSUME Types, SaveAnswered, plugin.step = "saving", ~Slipped,
         \/ toHost' = toHost
         \/ \E m \in HostMessages : /\ m \notin Unsent /\ m.type # "editor-save-request"
                                    /\ toHost' = Append(toHost, m)
  PROVE  /\ \A i, j \in DOMAIN toHost' :
              /\ toHost'[i].type = "editor-save-request" /\ toHost'[i].id = plugin.asked
              /\ j > i
              => toHost'[j] \notin Unsent
         /\ host.pending = plugin.asked /\ host.pending # 0 => \A j \in DOMAIN toHost' : toHost'[j] \notin Unsent
<1>1. CASE toHost' = toHost
  BY <1>1 DEF SaveAnswered
<1>2. ASSUME NEW m \in HostMessages, m \notin Unsent, m.type # "editor-save-request", toHost' = Append(toHost, m)
      PROVE  /\ \A i, j \in DOMAIN toHost' :
                  /\ toHost'[i].type = "editor-save-request" /\ toHost'[i].id = plugin.asked
                  /\ j > i
                  => toHost'[j] \notin Unsent
             /\ host.pending = plugin.asked /\ host.pending # 0
                  => \A j \in DOMAIN toHost' : toHost'[j] \notin Unsent
  <2>1. /\ DOMAIN toHost = 1..Len(toHost) /\ Len(toHost) \in Nat
        /\ DOMAIN toHost' = 1..Len(toHost) + 1
        /\ \A i \in DOMAIN toHost : toHost'[i] = toHost[i]
        /\ toHost'[Len(toHost) + 1] = m
    BY <1>2, Appending DEF Types
  <2>2. \A i \in DOMAIN toHost' : i = Len(toHost) + 1 \/ i \in DOMAIN toHost
    BY <2>1
  <2> QED BY <1>2, <2>1, <2>2 DEF SaveAnswered
<1> QED BY <1>1, <1>2

\* Which save the host waits for, and what it answers, when it hears a message.
LEMMA HandlingAnswers ==
  ASSUME Types, Handling
  PROVE  /\ \/ host'.pending \in {0, host.pending}
            \/ Head(toHost).type = "editor-save-request" /\ host'.pending = Head(toHost).id
         /\ \/ toPlugin' = toPlugin
            \/ \E m \in PluginMessages :
                 /\ toPlugin' = Append(toPlugin, m)
                 /\ m.type = "editor-save-response" =>
                      \/ /\ m.id = host.pending /\ host.pending # 0
                         /\ m.saved => Head(toHost) \in States \ Unsent
                      \/ /\ Head(toHost).type = "editor-save-request" /\ m.id = Head(toHost).id
                         /\ m.saved => host.native = "clean"
<1>0. /\ Head(toHost) \in HostMessages
      /\ Head(toHost) \in States <=> Head(toHost).type = "state"
      /\ Head(toHost) \in Unsent <=> Head(toHost).type = "state" /\ Head(toHost).dirty
      /\ Head(toHost).type = "editor-save-request" => Head(toHost).id \in Nat
  BY HandlingFrame, Taking, Fields DEF Types
<1>a. \A id, b : SaveResponse(id, b).id = id /\ SaveResponse(id, b).saved = b
  BY DEF SaveResponse
<1>b. host.pending \in Nat
  BY DEF Types, Hosts
<1> DEFINE Waiting == \/ host'.pending \in {0, host.pending}
                      \/ Head(toHost).type = "editor-save-request" /\ host'.pending = Head(toHost).id
           Fine(m) == /\ toPlugin' = Append(toPlugin, m)
                      /\ m.type = "editor-save-response" =>
                           \/ /\ m.id = host.pending /\ host.pending # 0
                              /\ m.saved => Head(toHost) \in States \ Unsent
                           \/ /\ Head(toHost).type = "editor-save-request" /\ m.id = Head(toHost).id
                              /\ m.saved => host.native = "clean"
           Telling == toPlugin' = toPlugin \/ \E m \in PluginMessages : Fine(m)
<1>1. CASE HostDocumentReady
  <2>1. host'.pending = host.pending /\ toPlugin' = toPlugin
    BY <1>1 DEF HostDocumentReady, Types, Hosts
  <2> QED BY <2>1
<1>2. CASE onDocumentStateChange
  <2>1. Waiting
    BY <1>2 DEF onDocumentStateChange, Types, Hosts
  <2>2. CASE UNCHANGED toPlugin
    BY <2>1, <2>2
  <2>3. CASE ~Head(toHost).dirty /\ respondToEditorSave(TRUE)
    <3>1. CASE toPlugin' = toPlugin
      BY <2>1, <3>1
    <3>2. CASE host.pending # 0 /\ toPlugin' = Append(toPlugin, SaveResponse(host.pending, TRUE))
      <4>1. PICK m \in PluginMessages : m = SaveResponse(host.pending, TRUE)
        BY <1>b, PluginMessage
      <4>2. Head(toHost) \in States \ Unsent
        BY <1>0, <1>2, <2>3 DEF onDocumentStateChange, Said
      <4>3. Fine(m)
        BY <1>a, <3>2, <4>1, <4>2
      <4> QED BY <2>1, <4>3
    <3> QED BY <2>3, <3>1, <3>2, Answering
  <2> QED BY <1>2, <2>2, <2>3 DEF onDocumentStateChange
<1>3. CASE onError
  <2>1. Waiting /\ respondToEditorSave(FALSE)
    BY <1>3 DEF onError, Types, Hosts
  <2>2. CASE toPlugin' = toPlugin
    BY <2>1, <2>2
  <2>3. CASE host.pending # 0 /\ toPlugin' = Append(toPlugin, SaveResponse(host.pending, FALSE))
    <3>1. PICK m \in PluginMessages : m = SaveResponse(host.pending, FALSE)
      BY <1>b, PluginMessage
    <3>2. Fine(m)
      BY <1>a, <2>3, <3>1
    <3> QED BY <2>1, <3>2
  <2> QED BY <2>1, <2>2, <2>3, Answering
<1>4. CASE BridgeReady
  <2>1. host'.pending = host.pending /\ toPlugin' = Append(toPlugin, [type |-> "bridge-ack"])
    BY <1>4 DEF BridgeReady, Tell, Types, Hosts
  <2>2. PICK m \in PluginMessages : m.type # "editor-save-response" /\ toPlugin' = Append(toPlugin, m)
    BY <2>1, PluginMessage
  <2> QED BY <2>1, <2>2
<1>5. CASE Unheard \/ DirtyMessage \/ OperationPending
  BY <1>5 DEF Unheard, DirtyMessage, OperationPending
<1>6. CASE EditorSaveRequest
  <2>0. Head(toHost).type = "editor-save-request" /\ Head(toHost).id \in Nat
    BY <1>0, <1>6 DEF EditorSaveRequest, Said
  <2>1. CASE host' = [host EXCEPT !.pending = Head(toHost).id] /\ UNCHANGED toPlugin
    <3>1. host'.pending = Head(toHost).id
      BY <2>1 DEF Types, Hosts
    <3> QED BY <2>0, <2>1, <3>1
  <2>2. ASSUME NEW b \in BOOLEAN, b => host.native = "clean", Tell(SaveResponse(Head(toHost).id, b)),
               host' = [host EXCEPT !.pending = 0]
        PROVE  Waiting /\ Telling
    <3>1. PICK m \in PluginMessages : m = SaveResponse(Head(toHost).id, b)
      BY <2>0, PluginMessage
    <3>2. Fine(m)
      BY <1>a, <2>0, <2>2, <3>1 DEF Tell
    <3>3. host'.pending = 0
      BY <2>2 DEF Types, Hosts
    <3> QED BY <3>2, <3>3
  <2>3. \/ host' = [host EXCEPT !.pending = Head(toHost).id] /\ UNCHANGED toPlugin
        \/ Tell(SaveResponse(Head(toHost).id, FALSE)) /\ host' = [host EXCEPT !.pending = 0]
        \/ host.native = "clean" /\ Tell(SaveResponse(Head(toHost).id, TRUE)) /\ host' = [host EXCEPT !.pending = 0]
    BY <1>6 DEF EditorSaveRequest
  <2>4. CASE Tell(SaveResponse(Head(toHost).id, FALSE)) /\ host' = [host EXCEPT !.pending = 0]
    <3>1. Waiting /\ Telling
      BY <2>2, <2>4
    <3> QED BY <3>1
  <2>5. CASE host.native = "clean" /\ Tell(SaveResponse(Head(toHost).id, TRUE)) /\ host' = [host EXCEPT !.pending = 0]
    <3>1. Waiting /\ Telling
      BY <2>2, <2>5
    <3> QED BY <3>1
  <2> QED BY <2>1, <2>3, <2>4, <2>5
<1>7. CASE CapabilityRequest
  <2>1. host'.pending = host.pending /\ toPlugin' = toPlugin
    BY <1>7 DEF CapabilityRequest, Types, Hosts
  <2> QED BY <2>1
<1>8. CASE OperationFailed \/ Submitted \/ CorrectionSaved
  <2>1. host'.pending = host.pending /\ toPlugin' = toPlugin
    BY <1>8 DEF OperationFailed, Submitted, CorrectionSaved, PassedOn, Types, Hosts
  <2> QED BY <2>1
<1> QED BY <1>1, <1>2, <1>3, <1>4, <1>5, <1>6, <1>7, <1>8 DEF Handling

\* The plugin asks for a save once, and takes messages one by one.
LEMMA WorkingAsked ==
  ASSUME Types, Down, Working
  PROVE  /\ \/ Flushing
            \/ plugin'.asked = plugin.asked /\ (plugin'.step = "saving" => plugin.step = "saving")
         /\ toPlugin' = toPlugin \/ (toPlugin # <<>> /\ toPlugin' = Tail(toPlugin))
         /\ history \subseteq history'
<1> DEFINE Same == plugin'.asked = plugin.asked /\ (plugin'.step = "saving" => plugin.step = "saving")
           Told1 == toPlugin' = toPlugin \/ (toPlugin # <<>> /\ toPlugin' = Tail(toPlugin))
           Later == history \subseteq history'
<1>a. ASSUME NEW op \in Nat, ActionFails(op) PROVE Same
  BY <1>a, Ending
<1>b. ASSUME NEW step, step # "saving", Advance(step) PROVE Same
  BY <1>b DEF Advance, Types, Plugins
<1>c. ASSUME UNCHANGED history \/ Restrict \/ Slips PROVE Later
  BY <1>c DEF Restrict, Slips
<1>d. plugin.asked \in Nat
  BY DEF Types, Plugins
<1> HIDE DEF Later
<1>1. CASE initializePlugin
  BY <1>1, <1>c DEF initializePlugin, Types, Plugins, Later
<1>2. CASE CapabilityTimeout
  <2>1. Same
    BY <1>2, <1>a DEF CapabilityTimeout
  <2> QED BY <1>2, <1>c, <2>1 DEF CapabilityTimeout, Later
<1>3. CASE toolbarAction
  <2>1. PICK action \in {"save-draft", "submit"} : plugin' = [plugin EXCEPT !.step = "prepare", !.action = action]
    BY <1>3 DEF toolbarAction, toolbarActionsForMode
  <2> QED BY <1>3, <1>c, <2>1 DEF toolbarAction, Types, Plugins, Later
<1>4. CASE startInitializationTasks
  <2>1. Later
    BY <1>4, <1>c DEF startInitializationTasks
  <2> QED BY <1>4, <2>1 DEF startInitializationTasks, Types, Plugins, Later
<1>5. CASE RestrictTimer
  <2>1. Later
    BY <1>5, <1>c DEF RestrictTimer
  <2> QED BY <1>5, <2>1 DEF RestrictTimer, Types, Plugins, Later
<1>6. CASE PrefillTimer
  BY <1>6, <1>c DEF PrefillTimer, Types, Plugins, Later
<1>7. CASE ensurePrefill
  <2>1. \/ plugin' = [plugin EXCEPT !.prefill = "failed"]
        \/ plugin' = [plugin EXCEPT !.prefill = "done"]
        \/ plugin' = [plugin EXCEPT !.prefill = "done", !.dirty = TRUE]
    BY <1>7 DEF ensurePrefill
  <2>2. Later /\ toPlugin' = toPlugin
    BY <1>7, <1>c DEF ensurePrefill
  <2>3. Same
    BY <2>1 DEF Types, Plugins
  <2> QED BY <2>2, <2>3 DEF Later
<1>8. CASE RunRequested
  <2>1. \/ plugin' = plugin
        \/ \E action \in {"save-draft", "save-correction"} :
             plugin' = [plugin EXCEPT !.step = "prepare", !.action = action]
    BY <1>8 DEF RunRequested
  <2>2. Same
    BY <2>1 DEF Types, Plugins
  <2>3. toPlugin # <<>> /\ toPlugin' = Tail(toPlugin) /\ history \subseteq history'
    BY <1>8 DEF RunRequested, Asked, Told
  <2> QED BY <2>2, <2>3
<1>9. CASE PrepareAction
  <2>1. \/ plugin' = [plugin EXCEPT !.prefill = "applying"]
        \/ ActionFails(0)
        \/ Advance("freeze")
    BY <1>9 DEF PrepareAction
  <2>2. Same
    BY <1>a, <1>b, <2>1 DEF Types, Plugins
  <2>3. Later /\ toPlugin' = toPlugin
    BY <1>9, <1>c DEF PrepareAction
  <2> QED BY <2>2, <2>3 DEF Later
<1>10. CASE freezeEditor
  <2>1. Same
    BY <1>10, <1>b DEF freezeEditor
  <2> QED BY <1>10, <1>c, <2>1 DEF freezeEditor, Later
<1>11. CASE extractFormData
  BY <1>11, <1>c DEF extractFormData, Types, Plugins, Later
<1>12. CASE flushEditorChanges
  <2>1. CASE ActionFails(0)
    <3>1. Same
      BY <1>a, <2>1
    <3> QED BY <1>12, <1>c, <3>1 DEF flushEditorChanges, Later
  <2>2. CASE plugin' = [plugin EXCEPT !.step = "saving", !.asked = @ + 1]
    <3>1. Flushing
      BY <1>12, <2>2 DEF Flushing, Types, Plugins
    <3> QED BY <1>12, <1>c, <3>1 DEF flushEditorChanges, Later
  <2> QED BY <1>12, <2>1, <2>2 DEF flushEditorChanges
<1>13. CASE EditorSaveAnswered
  <2>1. UNCHANGED plugin \/ ActionFails(0) \/ Advance("granting")
    BY <1>13 DEF EditorSaveAnswered
  <2>2. Same
    BY <1>a, <1>b, <2>1
  <2> QED BY <1>13, <1>c, <2>2 DEF EditorSaveAnswered, Asked, Told, Later
<1>14. CASE handleCapabilityResponse
  <2>1. UNCHANGED plugin \/ ActionFails(0) \/ Advance("post")
    BY <1>14 DEF handleCapabilityResponse
  <2>2. Same
    BY <1>a, <1>b, <2>1
  <2> QED BY <1>14, <1>c, <2>2 DEF handleCapabilityResponse, Asked, Told, Later
<1>15. CASE postAction
  <2>1. ActionFails(0) \/ Advance("polling")
    BY <1>15 DEF postAction
  <2>2. Same
    BY <1>a, <1>b, <2>1
  <2> QED BY <1>15, <1>c, <2>2 DEF postAction, Later
<1>16. CASE pollOperation
  <2>1. ActionFails(plugin.asked) \/ plugin' = [plugin EXCEPT !.step = "restore", !.dirty = FALSE]
    BY <1>16 DEF pollOperation
  <2>2. Same
    BY <1>a, <1>d, <2>1 DEF Types, Plugins
  <2> QED BY <1>16, <1>c, <2>2 DEF pollOperation, Later
<1>17. CASE RestoreEditor
  <2>1. Same
    BY <1>17 DEF RestoreEditor, Types, Plugins
  <2>2. history \subseteq history' /\ toPlugin' = toPlugin
    BY <1>17 DEF RestoreEditor
  <2> QED BY <2>1, <2>2
<1>18. CASE BridgeAck
  <2>1. Same
    BY <1>18 DEF BridgeAck, Types, Plugins
  <2> QED BY <1>18, <1>c, <2>1 DEF BridgeAck, Asked, Told, Later
<1> QED BY <1>1, <1>2, <1>3, <1>4, <1>5, <1>6, <1>7, <1>8, <1>9, <1>10, <1>11, <1>12, <1>13, <1>14, <1>15, <1>16, <1>17,
           <1>18
        DEF Working, Plugin

\* Requests that were not answered well stay so: the ids are of saves that were asked for.
LEMMA AskedKept ==
  ASSUME Types, SaveAnswered, NoMore(toHost, toHost'), plugin'.asked = plugin.asked
  PROVE  \A i \in DOMAIN toHost' : toHost'[i].type = "editor-save-request" => toHost'[i].id <= plugin'.asked
  BY DEF SaveAnswered, NoMore

\* The steps of the plugin.
LEMMA WorkingAnswered ==
  ASSUME Types, Down, Prefilling, Freeze, SaveAnswered, Working
  PROVE  SaveAnswered'
<1>0. /\ plugin.asked \in Nat /\ toHost \in Seq(HostMessages) /\ toPlugin \in Seq(PluginMessages)
      /\ host.pending \in Nat /\ host' = host
  BY WorkingFrame DEF Types, Plugins, Hosts
<1>1. /\ \/ Flushing
         \/ plugin'.asked = plugin.asked /\ (plugin'.step = "saving" => plugin.step = "saving")
      /\ toPlugin' = toPlugin \/ (toPlugin # <<>> /\ toPlugin' = Tail(toPlugin))
      /\ Slipped => Slipped'
  BY WorkingAsked DEF Slipped
<1>2. \A i \in DOMAIN toPlugin' : \E k \in DOMAIN toPlugin : toPlugin'[i] = toPlugin[k]
  BY <1>0, <1>1, Taking
<1>p. \A k \in DOMAIN toPlugin : toPlugin[k].type = "editor-save-response" => toPlugin[k].id \in Nat
  BY <1>0, PluginFields
<1>h. \A k \in DOMAIN toHost : toHost[k].type = "editor-save-request" => toHost[k].id \in Nat
  BY <1>0, Fields
<1>3. CASE Flushing
  <2>1. /\ plugin'.asked = plugin.asked + 1 /\ toPlugin' = toPlugin
        /\ toHost' = Append(toHost, [type |-> "editor-save-request", id |-> plugin.asked + 1])
    BY <1>3, FlushingFacts
  <2>0. plugin.asked + 1 \in Nat
    BY <1>0
  <2>2. PICK m \in HostMessages : m = [type |-> "editor-save-request", id |-> plugin.asked + 1]
    BY <2>0, HostMessage
  <2>3. /\ DOMAIN toHost = 1..Len(toHost) /\ Len(toHost) \in Nat
        /\ DOMAIN toHost' = 1..Len(toHost) + 1
        /\ \A i \in DOMAIN toHost : toHost'[i] = toHost[i]
        /\ toHost'[Len(toHost) + 1] = m
    BY <1>0, <2>1, <2>2, Appending
  <2>4. \A i \in DOMAIN toHost' : i = Len(toHost) + 1 \/ i \in DOMAIN toHost
    BY <2>3
  <2>5. \A i \in DOMAIN toHost : toHost[i].type = "editor-save-request" => toHost[i].id <= plugin.asked
    BY DEF SaveAnswered
  <2>6. /\ m.id = plugin.asked + 1
        /\ \A i \in DOMAIN toHost' : toHost'[i].type = "editor-save-request" => toHost'[i].id <= plugin'.asked
    BY <1>0, <1>h, <2>1, <2>2, <2>3, <2>4, <2>5
  <2>7. \A i, j \in DOMAIN toHost' :
          /\ toHost'[i].type = "editor-save-request" /\ toHost'[i].id = plugin'.asked
          /\ j > i
          => toHost'[j] \notin Unsent
    <3>1. SUFFICES ASSUME NEW i \in DOMAIN toHost', NEW j \in DOMAIN toHost',
                          toHost'[i].type = "editor-save-request", toHost'[i].id = plugin'.asked, j > i
                   PROVE  FALSE
      OBVIOUS
    <3>2. i = Len(toHost) + 1
      BY <1>0, <1>h, <2>1, <2>3, <2>4, <2>5, <3>1
    <3> QED BY <2>3, <3>1, <3>2
  <2>8. /\ host'.pending <= plugin'.asked /\ host'.pending # plugin'.asked
    BY <1>0, <2>1 DEF SaveAnswered
  <2>9. \A i \in DOMAIN toPlugin' : toPlugin'[i].type = "editor-save-response" =>
          /\ toPlugin'[i].id <= plugin'.asked /\ toPlugin'[i].id # plugin'.asked
    BY <1>0, <1>p, <2>1 DEF SaveAnswered
  <2> QED BY <2>6, <2>7, <2>8, <2>9 DEF SaveAnswered
<1>4. CASE ~Flushing
  <2>1. plugin'.asked = plugin.asked /\ (plugin'.step = "saving" => plugin.step = "saving")
    BY <1>1, <1>4
  <2>2. Says \/ initializePlugin \/ Altering \/ Finishing
    BY <1>4, WorkingSays
  <2>3. \A i \in DOMAIN toHost' : toHost'[i].type = "editor-save-request" => toHost'[i].id <= plugin'.asked
    BY <2>1, <2>2, NoMoreWorking, AskedKept
  <2>4. /\ host'.pending <= plugin'.asked
        /\ \A i \in DOMAIN toPlugin' : toPlugin'[i].type = "editor-save-response" => toPlugin'[i].id <= plugin'.asked
    BY <1>0, <1>2, <2>1 DEF SaveAnswered
  <2>5. ASSUME plugin'.step = "saving", ~Slipped'
        PROVE  /\ \A i, j \in DOMAIN toHost' :
                    /\ toHost'[i].type = "editor-save-request" /\ toHost'[i].id = plugin.asked
                    /\ j > i
                    => toHost'[j] \notin Unsent
               /\ host.pending = plugin.asked /\ host.pending # 0
                    => \A j \in DOMAIN toHost' : toHost'[j] \notin Unsent
               /\ \A i \in DOMAIN toPlugin' :
                    toPlugin'[i].type = "editor-save-response" /\ toPlugin'[i].id = plugin.asked /\ toPlugin'[i].saved
                    => office'.sent = office'.content
    <3>1. plugin.step = "saving" /\ ~Slipped
      BY <1>1, <2>1, <2>5
    <3>2. ~Altering
      BY <2>5, <3>1, AlteringFacts DEF Freeze, Frozen, Saving, Slipped
    <3>3. ~initializePlugin /\ ~Finishing
      BY <2>5, <3>1 DEF initializePlugin, Down, Finishing
    <3>4. Says
      BY <2>2, <3>2, <3>3
    <3>5. \/ toHost' = toHost
          \/ \E m \in HostMessages : /\ m \notin Unsent /\ m.type # "editor-save-request"
                                     /\ toHost' = Append(toHost, m)
      BY <3>4, Kinds DEF Says
    <3>6. office'.content = office.content /\ office'.sent = office.sent
      BY <3>2, WorkingOffice
    <3>7. /\ \A i, j \in DOMAIN toHost' :
               /\ toHost'[i].type = "editor-save-request" /\ toHost'[i].id = plugin.asked
               /\ j > i
               => toHost'[j] \notin Unsent
          /\ host.pending = plugin.asked /\ host.pending # 0 => \A j \in DOMAIN toHost' : toHost'[j] \notin Unsent
      BY <3>1, <3>5, StillBehind
    <3>8. \A i \in DOMAIN toPlugin' :
            toPlugin'[i].type = "editor-save-response" /\ toPlugin'[i].id = plugin.asked /\ toPlugin'[i].saved
            => office'.sent = office'.content
      BY <1>2, <3>1, <3>6 DEF SaveAnswered
    <3> QED BY <3>7, <3>8
  <2> QED BY <1>0, <2>1, <2>3, <2>4, <2>5 DEF SaveAnswered
<1> QED BY <1>3, <1>4

\* What the host hears.
LEMMA HandlingAnswered ==
  ASSUME Types, StateKnown, SaveAnswered, Handling
  PROVE  SaveAnswered'
<1>0. /\ plugin.asked \in Nat /\ toHost \in Seq(HostMessages) /\ toPlugin \in Seq(PluginMessages)
      /\ host.pending \in Nat
  BY DEF Types, Plugins, Hosts
<1>1. /\ UNCHANGED <<plugin, office>> /\ toHost # <<>> /\ toHost' = Tail(toHost) /\ (Slipped' <=> Slipped)
  BY HandlingFrame
<1>2. /\ Len(toHost) \in Nat /\ DOMAIN toHost = 1..Len(toHost) /\ 1 \in DOMAIN toHost /\ Head(toHost) = toHost[1]
      /\ DOMAIN toHost' = 1..Len(toHost) - 1
      /\ \A i \in DOMAIN toHost' : toHost'[i] = toHost[i + 1] /\ i + 1 \in DOMAIN toHost
  BY <1>0, <1>1, Taking
<1>h. Head(toHost) \in HostMessages
      /\ (Head(toHost).type = "editor-save-request" => Head(toHost).id \in Nat /\ Head(toHost) \notin States)
  BY <1>0, <1>1, Taking, Fields
<1>3. \/ host'.pending \in {0, host.pending}
      \/ Head(toHost).type = "editor-save-request" /\ host'.pending = Head(toHost).id
  BY HandlingAnswers
<1>4. /\ \A i \in DOMAIN toHost' : toHost'[i].type = "editor-save-request" => toHost'[i].id <= plugin'.asked
      /\ host'.pending <= plugin'.asked
  BY <1>0, <1>1, <1>2, <1>3 DEF SaveAnswered
\* A save that is asked for is answered well when the host has heard of the changes.
<1>5. ASSUME plugin.step = "saving", ~Slipped, NEW m \in PluginMessages, m.type = "editor-save-response", m.saved,
             m.id = plugin.asked,
             \/ m.id = host.pending /\ host.pending # 0 /\ Head(toHost) \in States \ Unsent
             \/ /\ Head(toHost).type = "editor-save-request" /\ m.id = Head(toHost).id
                /\ host.native = "clean"
      PROVE  office.sent = office.content
  <2>1. SUFFICES ASSUME office.content # office.sent PROVE FALSE
    OBVIOUS
  <2>2. Latest(toHost, States, Unsent, host.native = "dirty")
    BY <2>1 DEF StateKnown
  <2>3. CASE m.id = host.pending /\ host.pending # 0 /\ Head(toHost) \in States \ Unsent
    <3>1. \A j \in DOMAIN toHost : toHost[j] \notin Unsent
      BY <1>5, <2>3 DEF SaveAnswered
    <3> QED BY <1>2, <2>2, <2>3, <3>1 DEF Latest
  <2>4. CASE Head(toHost).type = "editor-save-request" /\ m.id = Head(toHost).id /\ host.native = "clean"
    <3>1. \A j \in DOMAIN toHost : j > 1 => toHost[j] \notin Unsent
      BY <1>2, <1>5, <2>4 DEF SaveAnswered
    <3>2. toHost[1] \notin Unsent
      BY <1>2, <1>h, <2>4, Kinds
    <3>3. \A j \in DOMAIN toHost : toHost[j] \notin Unsent
      BY <1>2, <3>1, <3>2
    <3> QED BY <2>2, <2>4, <3>3 DEF Latest
  <2> QED BY <1>5, <2>3, <2>4
<1>6. ASSUME plugin.step = "saving", ~Slipped
      PROVE  /\ \A i, j \in DOMAIN toHost' :
                  /\ toHost'[i].type = "editor-save-request" /\ toHost'[i].id = plugin.asked
                  /\ j > i
                  => toHost'[j] \notin Unsent
             /\ host'.pending = plugin.asked /\ host'.pending # 0
                  => \A j \in DOMAIN toHost' : toHost'[j] \notin Unsent
  <2>1. \A i, j \in DOMAIN toHost :
          /\ toHost[i].type = "editor-save-request" /\ toHost[i].id = plugin.asked
          /\ j > i
          => toHost[j] \notin Unsent
    BY <1>6 DEF SaveAnswered
  <2>2. \A i, j \in DOMAIN toHost' :
          /\ toHost'[i].type = "editor-save-request" /\ toHost'[i].id = plugin.asked
          /\ j > i
          => toHost'[j] \notin Unsent
    BY <1>2, <2>1
  <2>3. ASSUME host'.pending = plugin.asked, host'.pending # 0
        PROVE  \A j \in DOMAIN toHost' : toHost'[j] \notin Unsent
    <3>1. CASE host'.pending = host.pending
      BY <1>2, <1>6, <2>3, <3>1 DEF SaveAnswered
    <3>2. CASE Head(toHost).type = "editor-save-request" /\ host'.pending = Head(toHost).id
      BY <1>2, <2>1, <2>3, <3>2
    <3> QED BY <1>3, <2>3, <3>1, <3>2
  <2> QED BY <2>2, <2>3
<1>7. CASE toPlugin' = toPlugin
  BY <1>1, <1>4, <1>6, <1>7 DEF SaveAnswered
<1>8. ASSUME NEW m \in PluginMessages, toPlugin' = Append(toPlugin, m),
             m.type = "editor-save-response" =>
               \/ /\ m.id = host.pending /\ host.pending # 0
                  /\ m.saved => Head(toHost) \in States \ Unsent
               \/ /\ Head(toHost).type = "editor-save-request" /\ m.id = Head(toHost).id
                  /\ m.saved => host.native = "clean"
      PROVE  SaveAnswered'
  <2>1. /\ DOMAIN toPlugin = 1..Len(toPlugin) /\ Len(toPlugin) \in Nat
        /\ DOMAIN toPlugin' = 1..Len(toPlugin) + 1
        /\ \A i \in DOMAIN toPlugin : toPlugin'[i] = toPlugin[i]
        /\ toPlugin'[Len(toPlugin) + 1] = m
    BY <1>0, <1>8, Appending
  <2>2. \A i \in DOMAIN toPlugin' : i = Len(toPlugin) + 1 \/ i \in DOMAIN toPlugin
    BY <2>1
  <2>3. m.type = "editor-save-response" => m.id <= plugin.asked
    BY <1>2, <1>8 DEF SaveAnswered
  <2>4. \A i \in DOMAIN toPlugin' : toPlugin'[i].type = "editor-save-response" => toPlugin'[i].id <= plugin'.asked
    BY <1>1, <2>1, <2>2, <2>3 DEF SaveAnswered
  <2>5. ASSUME plugin.step = "saving", ~Slipped, NEW i \in DOMAIN toPlugin',
               toPlugin'[i].type = "editor-save-response", toPlugin'[i].id = plugin.asked, toPlugin'[i].saved
        PROVE  office.sent = office.content
    <3>1. CASE i \in DOMAIN toPlugin
      BY <2>1, <2>5, <3>1 DEF SaveAnswered
    <3>2. CASE toPlugin'[i] = m
      BY <1>5, <1>8, <2>5, <3>2
    <3> QED BY <2>1, <2>2, <3>1, <3>2
  <2> QED BY <1>1, <1>4, <1>6, <2>4, <2>5 DEF SaveAnswered
<1> QED BY <1>7, <1>8, HandlingAnswers

\* A save is answered well when the changes that were read are sent.
LEMMA SaveAnsweredKept ==
  ASSUME Types, Beginning, Unmounted, Down, Prefilling, Freeze, StateKnown, SaveAnswered, Next
  PROVE  SaveAnswered'
<1>0. /\ plugin.asked \in Nat /\ toHost \in Seq(HostMessages) /\ toPlugin \in Seq(PluginMessages)
      /\ host.pending \in Nat
  BY DEF Types, Plugins, Hosts
<1>t. history' = history => (Slipped' <=> Slipped)
  BY DEF Slipped
<1>n. NoPlugin.step = "idle" /\ NoPlugin.asked = 0
  BY DEF NoPlugin
<1>a. ASSUME UNCHANGED <<plugin, office, toHost, toPlugin>>, host'.pending = host.pending, Slipped' <=> Slipped
      PROVE  SaveAnswered'
  BY <1>a DEF SaveAnswered
<1>b. ASSUME plugin' = NoPlugin, toHost' = <<>>, toPlugin' = <<>>, host'.pending = 0 PROVE SaveAnswered'
  BY <1>b, <1>n DEF SaveAnswered
<1>1. CASE Handling
  BY <1>1, HandlingAnswered
<1>2. CASE Relaying
  <2>1. /\ host'.pending = host.pending /\ UNCHANGED <<plugin, office, toHost>> /\ (Slipped' <=> Slipped)
    BY <1>2, <1>t, RelayingFrame
  <2>2. PICK m \in PluginMessages : m.type # "editor-save-response" /\ toPlugin' = Append(toPlugin, m)
    BY <1>2, RelayingFrame
  <2>3. /\ DOMAIN toPlugin = 1..Len(toPlugin) /\ Len(toPlugin) \in Nat
        /\ DOMAIN toPlugin' = 1..Len(toPlugin) + 1
        /\ \A i \in DOMAIN toPlugin : toPlugin'[i] = toPlugin[i]
        /\ toPlugin'[Len(toPlugin) + 1] = m
    BY <1>0, <2>2, Appending
  <2>4. \A i \in DOMAIN toPlugin' : toPlugin'[i].type = "editor-save-response" =>
          i \in DOMAIN toPlugin /\ toPlugin'[i] = toPlugin[i]
    BY <2>2, <2>3
  <2> QED BY <2>1, <2>4 DEF SaveAnswered
<1>3. CASE Editing
  <2>1. UNCHANGED <<host, toPlugin>> /\ (Slipped => Slipped')
    BY <1>3, EditingFrame, StillNoted
  <2>2. NoMore(toHost, toHost')
    BY <1>3, EditingSays, NoMoreWorking
  <2>3. plugin'.step = plugin.step /\ plugin'.asked = plugin.asked
    <3>1. CASE Altering
      BY <3>1, AlteringFacts
    <3>2. CASE SendChanges \/ onDocumentReady \/ SendFails
      BY <3>2 DEF SendChanges, onDocumentReady, SendFails
    <3> QED BY <1>3, <3>1, <3>2, EditingSays
  <2>4. \A i \in DOMAIN toHost' : toHost'[i].type = "editor-save-request" => toHost'[i].id <= plugin'.asked
    BY <2>2, <2>3, AskedKept
  <2>5. ASSUME plugin.step = "saving", ~Slipped, ~Slipped'
        PROVE  /\ \A i, j \in DOMAIN toHost' :
                    /\ toHost'[i].type = "editor-save-request" /\ toHost'[i].id = plugin.asked
                    /\ j > i
                    => toHost'[j] \notin Unsent
               /\ host.pending = plugin.asked /\ host.pending # 0
                    => \A j \in DOMAIN toHost' : toHost'[j] \notin Unsent
               /\ office'.sent = office'.content \/ (office'.sent = office.sent /\ office'.content = office.content)
    <3>1. ~Altering
      BY <2>5, AlteringFacts DEF Freeze, Frozen, Saving, Slipped
    <3>2. \/ toHost' = toHost
          \/ \E m \in HostMessages : /\ m \notin Unsent /\ m.type # "editor-save-request"
                                     /\ toHost' = Append(toHost, m)
      <4>1. CASE SendChanges
        <5>1. PICK m \in HostMessages : m = [type |-> "state", dirty |-> FALSE]
          BY HostMessage, Kinds
        <5>2. m \notin Unsent /\ m.type # "editor-save-request"
          BY <5>1, HostMessage
        <5> QED BY <4>1, <5>1, <5>2 DEF SendChanges, Say
      <4>2. CASE Says
        BY <4>2, Kinds DEF Says
      <4> QED BY <1>3, <3>1, <4>1, <4>2, EditingSays
    <3>3. office'.sent = office'.content \/ (office'.sent = office.sent /\ office'.content = office.content)
      <4>1. SendChanges \/ onDocumentReady \/ SendFails
        BY <1>3, <3>1, EditingSays
      <4> QED BY <4>1 DEF SendChanges, onDocumentReady, SendFails, Types, Offices
    <3> QED BY <2>5, <3>2, <3>3, StillBehind
  <2> QED BY <2>1, <2>3, <2>4, <2>5 DEF SaveAnswered
<1>4. CASE Loading
  BY <1>4, <1>b, LoadingFrame, Reloading
<1>5. CASE Paging
  BY <1>5, <1>a, <1>t, PagingFrame
<1>6. CASE Filling
  BY <1>6, <1>a, <1>t, FillingFrame
<1>7. CASE Switching
  <2>1. host.phase = "none" /\ host'.pending = host.pending /\ UNCHANGED <<plugin, toHost, toPlugin>>
    BY <1>7, SwitchingFrame DEF Beginning, Types, Hosts
  <2> QED BY <1>b, <2>1 DEF Unmounted
<1>8. CASE Working
  BY <1>8, WorkingAnswered
<1>9. CASE LoadConfig
  <2>1. host'.pending = host.pending /\ UNCHANGED <<plugin, office, toHost, toPlugin, history>>
    BY <1>9 DEF LoadConfig, Types, Hosts
  <2> QED BY <1>a, <1>t, <2>1
<1>10. CASE Settle
  BY <1>10, <1>a, <1>t DEF Settle
<1>11. CASE startResponse
  <2>1. host'.pending = host.pending /\ UNCHANGED <<plugin, office, toHost, toPlugin, history>>
    BY <1>11 DEF startResponse, Types, Hosts
  <2> QED BY <1>a, <1>t, <2>1
<1> QED BY <1>1, <1>2, <1>3, <1>4, <1>5, <1>6, <1>7, <1>8, <1>9, <1>10, <1>11, NextKinds

-----------------------------------------------------------------------------
(* What the plugin knows of its changes, and what the page hears of them *)

\* The plugin notes changes where it says so.
LEMMA WorkingDirty ==
  ASSUME Types, Down, Working
  PROVE  \/ initializePlugin \/ Altering \/ Finishing
         \/ plugin'.dirty = plugin.dirty /\ plugin'.early = plugin.early
<1> DEFINE Same == plugin'.dirty = plugin.dirty /\ plugin'.early = plugin.early
<1>a. ASSUME NEW op \in Nat, ActionFails(op) PROVE Same
  BY <1>a, Ending
<1>b. ASSUME NEW step, Advance(step) PROVE Same
  BY <1>b DEF Advance, Types, Plugins
<1>d. plugin.asked \in Nat
  BY DEF Types, Plugins
<1>1. CASE CapabilityTimeout
  BY <1>1, <1>a DEF CapabilityTimeout
<1>2. CASE toolbarAction \/ RunRequested
  <2>1. \/ plugin' = plugin
        \/ \E action \in Actions : plugin' = [plugin EXCEPT !.step = "prepare", !.action = action]
    BY <1>2 DEF toolbarAction, RunRequested, toolbarActionsForMode, Actions
  <2> QED BY <2>1 DEF Types, Plugins
<1>3. CASE startInitializationTasks \/ RestrictTimer \/ PrefillTimer
  BY <1>3 DEF startInitializationTasks, RestrictTimer, PrefillTimer, Types, Plugins
<1>4. CASE ensurePrefill
  <2>1. CASE plugin' = [plugin EXCEPT !.prefill = "failed"] \/ plugin' = [plugin EXCEPT !.prefill = "done"]
    BY <2>1 DEF Types, Plugins
  <2>2. CASE Changed
    BY <1>4, <2>2 DEF Altering
  <2> QED BY <1>4, <2>1, <2>2 DEF ensurePrefill
<1>5. CASE PrepareAction
  <2>1. \/ plugin' = [plugin EXCEPT !.prefill = "applying"]
        \/ ActionFails(0)
        \/ Advance("freeze")
    BY <1>5 DEF PrepareAction
  <2> QED BY <1>a, <1>b, <2>1 DEF Types, Plugins
<1>6. CASE freezeEditor \/ handleCapabilityResponse \/ EditorSaveAnswered \/ postAction
  <2>1. UNCHANGED plugin \/ ActionFails(0) \/ \E step : Advance(step)
    BY <1>6 DEF freezeEditor, handleCapabilityResponse, EditorSaveAnswered, postAction
  <2> QED BY <1>a, <1>b, <2>1
<1>7. CASE extractFormData \/ RestoreEditor \/ BridgeAck
  BY <1>7 DEF extractFormData, RestoreEditor, BridgeAck, Types, Plugins
<1>8. CASE flushEditorChanges
  <2>1. CASE ActionFails(0)
    BY <1>a, <2>1
  <2>2. CASE plugin' = [plugin EXCEPT !.step = "saving", !.asked = @ + 1]
    BY <2>2 DEF Types, Plugins
  <2> QED BY <1>8, <2>1, <2>2 DEF flushEditorChanges
<1>9. CASE pollOperation
  <2>1. CASE ActionFails(plugin.asked)
    BY <1>a, <1>d, <2>1
  <2>2. CASE /\ server.op = "completed"
             /\ plugin' = [plugin EXCEPT !.step = "restore", !.dirty = FALSE]
             /\ toHost' = toHost \o notifyParent("completed", plugin.asked) \o setDirtyState(plugin, FALSE)
    BY <1>9, <2>2 DEF Finishing, Types, Plugins
  <2> QED BY <1>9, <2>1, <2>2 DEF pollOperation
<1> QED BY <1>1, <1>2, <1>3, <1>4, <1>5, <1>6, <1>7, <1>8, <1>9 DEF Working, Plugin

\* An editor whose plugin has noted no changes shows what is stored.
LEMMA NotedKept ==
  ASSUME Types, Beginning, Unmounted, Down, Prefilling, Freeze, Noted, Next
  PROVE  Noted'
<1>t. history \subseteq history' => (Slipped => Slipped')
  BY DEF Slipped
<1>a. ASSUME UNCHANGED <<form, plugin, server>>, office'.content = office.content, Slipped => Slipped'
      PROVE  Noted'
  BY <1>a DEF Noted
<1>1. CASE Handling
  BY <1>1, <1>a, HandlingFrame
<1>2. CASE Relaying
  BY <1>2, <1>a, <1>t, RelayingFrame
<1>3. CASE Editing
  <2>1. CASE Altering
    BY <2>1, AlteringFacts DEF Noted
  <2>2. CASE SendChanges \/ onDocumentReady \/ SendFails
    <3>1. UNCHANGED <<form, plugin, server, history>> /\ office'.content = office.content
      BY <2>2 DEF SendChanges, onDocumentReady, SendFails, Types, Offices
    <3> QED BY <1>a, <1>t, <3>1
  <2> QED BY <1>3, <2>1, <2>2, EditingSays
<1>4. CASE Loading
  BY <1>4, LoadingFrame, Reloading DEF Noted
<1>5. CASE Paging
  BY <1>5, <1>a, <1>t, PagingFrame
<1>6. CASE Filling
  BY <1>6, FillingFrame DEF Noted
<1>7. CASE Switching
  BY <1>7, SwitchingFrame DEF Noted, Loaded, NoOffice
<1>8. CASE Working
  <2>1. UNCHANGED form /\ form.step = "none" /\ server'.document = server.document /\ (Slipped => Slipped')
    BY <1>8, <1>t, WorkingFrame, PollingSteps, WorkingAsked DEF Beginning, Mounted
  <2>2. CASE Altering
    BY <2>2, AlteringFacts DEF Noted
  <2>3. CASE ~Altering
    <3>0. office'.content = office.content
      BY <1>8, <2>3, WorkingOffice
    <3>1. CASE initializePlugin
      <4>1. ~plugin.dirty /\ plugin'.dirty = plugin.early
        BY <3>1 DEF initializePlugin, Down, Types, Plugins
      <4> QED BY <2>1, <3>0, <4>1 DEF Noted
    <3>2. CASE Finishing
      <4>1. plugin.step = "polling" /\ server.op = "completed"
        BY <3>2 DEF Finishing, pollOperation
      <4>2. Slipped \/ office.content = server.document
        BY <4>1 DEF Freeze
      <4> QED BY <2>1, <3>0, <4>2 DEF Noted
    <3>3. CASE plugin'.dirty = plugin.dirty /\ plugin'.early = plugin.early
      BY <2>1, <3>0, <3>3 DEF Noted
    <3> QED BY <1>8, <2>3, <3>1, <3>2, <3>3, WorkingDirty
  <2> QED BY <2>2, <2>3
<1>9. CASE LoadConfig
  BY <1>9, <1>a, <1>t DEF LoadConfig
<1>10. CASE Settle
  <2>1. UNCHANGED <<form, plugin, office, history>> /\ server.op = "pending"
    BY <1>10 DEF Settle
  <2>2. \/ server'.document = server.document
        \/ form.step = "none" => server'.document = office.sent
    BY <1>10 DEF Settle, Types, Servers
  <2>3. Slipped \/ form.step # "none" \/ office.sent = office.content
    BY <2>1 DEF Freeze
  <2> QED BY <1>t, <2>1, <2>2, <2>3 DEF Noted
<1>11. CASE startResponse
  <2>1. UNCHANGED <<plugin, office, server>> /\ office.content = server.document
    BY <1>11 DEF startResponse, Beginning, NoOffice
  <2> QED BY <2>1 DEF Noted
<1> QED BY <1>1, <1>2, <1>3, <1>4, <1>5, <1>6, <1>7, <1>8, <1>9, <1>10, <1>11, NextKinds

\* What the page takes from a message about the changes.
LEMMA HandlingDirty ==
  ASSUME Types, Handling, page.of = "fill", "unheard" \notin history'
  PROVE  /\ Head(toHost) \in Changes => page'.dirty
         /\ page.dirty /\ Head(toHost) \notin Reports => page'.dirty
         /\ "unheard" \notin history
<1>0. /\ Head(toHost) \in HostMessages
      /\ Head(toHost) \in Reports <=> Head(toHost).type = "dirty" \/ Ends(Head(toHost))
      /\ Head(toHost) \in Changes <=> Head(toHost).type = "dirty" /\ Head(toHost).dirty
  BY HandlingFrame, Taking, Fields DEF Types
<1>1. CASE HostDocumentReady \/ onDocumentStateChange \/ onError \/ BridgeReady \/ EditorSaveRequest \/ CapabilityRequest
  <2>1. UNCHANGED <<page, history>> /\ Head(toHost).type # "dirty"
    BY <1>1 DEF HostDocumentReady, onDocumentStateChange, onError, BridgeReady, EditorSaveRequest, CapabilityRequest, Said
  <2> QED BY <1>0, <2>1
<1>2. CASE Unheard
  BY <1>2 DEF Unheard
<1>3. CASE DirtyMessage
  BY <1>0, <1>3 DEF DirtyMessage, Said, Types, Pages
<1>4. CASE OperationPending \/ OperationFailed
  <2>1. page'.dirty = page.dirty /\ UNCHANGED history /\ Head(toHost).type # "dirty"
    BY <1>4 DEF OperationPending, OperationFailed, Operation, Said, Types, Pages
  <2> QED BY <1>0, <2>1
<1>5. CASE Submitted \/ CorrectionSaved
  <2>1. UNCHANGED history /\ Head(toHost).type # "dirty" /\ Ends(Head(toHost))
    BY <1>5 DEF Submitted, CorrectionSaved, Operation, Said, Ends
  <2> QED BY <1>0, <2>1
<1> QED BY <1>1, <1>2, <1>3, <1>4, <1>5 DEF Handling

\* The page hears of what the plugin has noted.
LEMMA DirtyKnownKept ==
  ASSUME Types, Beginning, Unmounted, Down, Prefilling, DirtyKnown, Next
  PROVE  DirtyKnown'
<1>0. toHost \in Seq(HostMessages) /\ plugin.asked + 1 \in Nat
  BY DEF Types, Plugins
<1>n. ~NoPlugin.dirty
  BY DEF NoPlugin
<1>a. ASSUME UNCHANGED <<plugin, toHost, history>>, page'.of = page.of, page'.stage = "open" => Open /\ page'.dirty = page.dirty
      PROVE  DirtyKnown'
  <2>1. ASSUME plugin'.dirty, page'.stage = "open", page'.of = "fill", "unheard" \notin history'
        PROVE  Latest(toHost, Reports, Changes, page.dirty) /\ page'.dirty = page.dirty
    BY <1>a, <2>1 DEF DirtyKnown
  <2> QED BY <1>a, <2>1 DEF DirtyKnown, Open, Latest
<1>b. ASSUME ~plugin'.dirty PROVE DirtyKnown'
  BY <1>b DEF DirtyKnown
<1>c. ASSUME UNCHANGED page, Latest(toHost', Reports, Changes, page.dirty) PROVE DirtyKnown'
  BY <1>c DEF DirtyKnown, Latest
<1>d. ASSUME UNCHANGED page, history \subseteq history', plugin'.dirty = plugin.dirty,
             \A b : Latest(toHost, Reports, Changes, b) => Latest(toHost', Reports, Changes, b)
      PROVE  DirtyKnown'
  <2>1. ASSUME plugin'.dirty, page.stage = "open", page.of = "fill", "unheard" \notin history'
        PROVE  Latest(toHost', Reports, Changes, page.dirty)
    BY <1>d, <2>1 DEF DirtyKnown, Open
  <2> QED BY <1>d, <2>1 DEF DirtyKnown, Open, Latest
<1>e. ASSUME Altering PROVE DirtyKnown'
  <2> DEFINE state == [type |-> "state", dirty |-> TRUE]
             dirty == [type |-> "dirty", dirty |-> TRUE]
  <2>1. /\ state \in HostMessages /\ state \notin Reports
        /\ dirty \in HostMessages /\ dirty \in Changes
    BY HostMessage, Kinds
  <2>2. PICK sent \in Seq(HostMessages) :
          /\ sent = IF office.content = office.sent THEN Append(toHost, state) ELSE toHost
          /\ toHost' = IF plugin.up /\ ~plugin.dirty THEN Append(sent, dirty) ELSE sent
    BY <1>e, AlteringFacts
  <2>3. UNCHANGED page /\ history \subseteq history' /\ (~plugin.up => ~plugin'.dirty)
    BY <1>e, AlteringFacts
  <2> HIDE DEF state, dirty
  <2>4. CASE ~plugin.up
    BY <1>b, <2>3, <2>4
  <2>5. CASE plugin.up /\ ~plugin.dirty
    <3>1. Latest(Append(sent, dirty), Reports, Changes, page.dirty)
      BY <2>1, LatestSaid
    <3> QED BY <1>c, <2>2, <2>3, <2>5, <3>1
  <2>6. CASE plugin.up /\ plugin.dirty
    <3>1. \A b : Latest(toHost, Reports, Changes, b) => Latest(Append(toHost, state), Reports, Changes, b)
      BY <1>0, <2>1, LatestKept
    <3>2. ASSUME Open, page.of = "fill", "unheard" \notin history
          PROVE  Latest(toHost', Reports, Changes, page.dirty)
      BY <2>2, <2>6, <3>1, <3>2 DEF DirtyKnown
    <3>3. ASSUME Open', page'.of = "fill", "unheard" \notin history'
          PROVE  Latest(toHost', Reports, Changes, page.dirty) /\ page'.dirty = page.dirty
      BY <2>3, <3>2, <3>3 DEF Open
    <3> QED BY <3>3 DEF DirtyKnown, Latest
  <2> QED BY <2>4, <2>5, <2>6
<1>1. CASE Handling
  <2>1. /\ UNCHANGED plugin /\ page'.of = page.of /\ Open /\ toHost # <<>> /\ toHost' = Tail(toHost)
    BY <1>1, HandlingFrame DEF Open
  <2>2. ASSUME plugin'.dirty, page'.of = "fill", "unheard" \notin history'
        PROVE  Latest(Tail(toHost), Reports, Changes, page'.dirty)
    <3>1. /\ Head(toHost) \in Changes => page'.dirty
          /\ page.dirty /\ Head(toHost) \notin Reports => page'.dirty
          /\ "unheard" \notin history
      BY <1>1, <2>1, <2>2, HandlingDirty
    <3>2. Latest(toHost, Reports, Changes, page.dirty)
      BY <2>1, <2>2, <3>1 DEF DirtyKnown
    <3> QED BY <1>0, <2>1, <3>1, <3>2, LatestHeard
  <2> QED BY <2>1, <2>2 DEF DirtyKnown, Latest
<1>2. CASE Relaying
  BY <1>2, <1>a, RelayingFrame DEF Open
<1>3. CASE Editing
  <2>1. CASE SendChanges
    <3>1. PICK m \in HostMessages : m \notin Reports /\ toHost' = Append(toHost, m)
      BY <2>1, HostMessage, Kinds DEF SendChanges, Say
    <3>2. \A b : Latest(toHost, Reports, Changes, b) => Latest(toHost', Reports, Changes, b)
      BY <1>0, <3>1, LatestKept
    <3> QED BY <2>1, <1>d, <3>2 DEF SendChanges
  <2>2. CASE Says /\ (onDocumentReady \/ SendFails)
    <3>1. \A b : Latest(toHost, Reports, Changes, b) => Latest(toHost', Reports, Changes, b)
      BY <2>2, SaysLatest, Kinds
    <3> QED BY <2>2, <1>d, <3>1 DEF onDocumentReady, SendFails
  <2> QED BY <1>3, <1>e, <2>1, <2>2, EditingSays
<1>4. CASE Loading
  BY <1>4, <1>b, <1>n, LoadingFrame, Reloading
<1>5. CASE Paging
  BY <1>5, <1>a, PagingFrame
<1>6. CASE Filling
  BY <1>6, <1>b, <1>n, FillingFrame DEF Beginning, Unmounted
<1>7. CASE Switching
  BY <1>7, <1>b, <1>n, SwitchingFrame DEF Beginning, Unmounted
<1>8. CASE Working
  <2>0. UNCHANGED page /\ history \subseteq history'
    BY <1>8, WorkingFrame, WorkingAsked
  <2>1. CASE initializePlugin
    <3> DEFINE dirty == [type |-> "dirty", dirty |-> TRUE]
               ready == [type |-> "bridge-ready"]
    <3>1. /\ dirty \in HostMessages /\ dirty \in Changes
          /\ ready \in HostMessages /\ ready \notin Reports
      BY HostMessage, Kinds
    <3>2. /\ toHost' = IF plugin.early THEN Append(Append(toHost, dirty), ready) ELSE Append(toHost, ready)
          /\ Append(toHost, dirty) \in Seq(HostMessages)
          /\ plugin'.dirty = plugin.early
      BY <2>1, Starting DEF initializePlugin, Types, Plugins
    <3> HIDE DEF dirty, ready
    <3>3. Latest(Append(toHost, dirty), Reports, Changes, page.dirty)
      BY <1>0, <3>1, LatestSaid
    <3>4. Latest(Append(Append(toHost, dirty), ready), Reports, Changes, page.dirty)
      BY <3>1, <3>2, <3>3, LatestKept
    <3> QED BY <1>b, <1>c, <2>0, <3>2, <3>4
  <2>2. CASE Altering
    BY <1>e, <2>2
  <2>3. CASE Finishing
    BY <1>b, <2>3 DEF Finishing
  <2>4. CASE ~initializePlugin /\ ~Altering /\ ~Finishing
    <3>1. plugin'.dirty = plugin.dirty
      BY <1>8, <2>4, WorkingDirty
    <3>2. CASE Says
      <4>1. \A b : Latest(toHost, Reports, Changes, b) => Latest(toHost', Reports, Changes, b)
        BY <3>2, SaysLatest, Kinds
      <4> QED BY <1>d, <2>0, <3>1, <4>1
    <3>3. CASE Flushing
      <4>1. PICK m \in HostMessages : m \notin Reports /\ toHost' = Append(toHost, m)
        BY <1>0, <3>3, FlushingFacts, HostMessage
      <4>2. \A b : Latest(toHost, Reports, Changes, b) => Latest(toHost', Reports, Changes, b)
        BY <1>0, <4>1, LatestKept
      <4> QED BY <1>d, <2>0, <3>1, <4>2
    <3> QED BY <1>8, <2>4, <3>2, <3>3, WorkingSays
  <2> QED BY <2>1, <2>2, <2>3, <2>4
<1>9. CASE LoadConfig
  BY <1>9, <1>a DEF LoadConfig, Open
<1>10. CASE Settle
  BY <1>10, <1>a DEF Settle, Open
<1>11. CASE startResponse
  BY <1>11, <1>b, <1>n DEF startResponse, Beginning, Unmounted
<1> QED BY <1>1, <1>2, <1>3, <1>4, <1>5, <1>6, <1>7, <1>8, <1>9, <1>10, <1>11, NextKinds

-----------------------------------------------------------------------------
(* The invariant *)

\* The first states: nothing has happened.
LEMMA InitInv ==
  ASSUME Init
  PROVE  IndInv
<1>1. /\ form = NoForm /\ plugin = NoPlugin /\ office = NoOffice /\ toHost = <<>> /\ toPlugin = <<>>
      /\ server = [op |-> "none", posted |-> 0, document |-> 0, data |-> 0, key |-> 0]
      /\ history = {} /\ count = [changes |-> 0, actions |-> 0]
  BY DEF Init
<1>2. PICK of \in {"fill", "correction"} :
        page = [of |-> of, stage |-> IF of = "fill" THEN "starting" ELSE "open", dirty |-> FALSE,
                exiting |-> FALSE, exporting |-> FALSE, resolver |-> FALSE, downloading |-> FALSE,
                reopening |-> FALSE, ask |-> "none", operation |-> "none", saves |-> 0]
  BY DEF Init
<1>3. host = [Unpinned EXCEPT !.phase = IF of = "fill" THEN "none" ELSE "loading"]
  BY <1>2 DEF Init
<1>4. PICK prefilled \in BOOLEAN : options = [action |-> "correction", prefilled |-> prefilled]
  BY DEF Init
<1>5. Types
  <2>1. page \in Pages
    BY <1>2 DEF Pages
  <2>2. form \in Forms /\ server \in Servers /\ office \in Offices
    BY <1>1 DEF NoForm, NoOffice, Forms, Servers, Offices, Actions
  <2>3. plugin \in Plugins
    BY <1>1 DEF NoPlugin, Plugins, Actions, PluginStep
  <2>4. host \in Hosts
    BY <1>3 DEF Unpinned, Hosts
  <2>5. options \in Options
    BY <1>4 DEF Options
  <2>6. count \in [changes : Nat, actions : Nat] /\ toHost \in Seq(HostMessages) /\ toPlugin \in Seq(PluginMessages)
    BY <1>1
  <2> QED BY <1>1, <2>1, <2>2, <2>3, <2>4, <2>5, <2>6 DEF Types
<1>6. /\ host.phase # "mounted" /\ host.native = "unknown" /\ host.pending = 0
      /\ of = "fill" => host.phase = "none"
  BY <1>2, <1>3 DEF Unpinned
<1>7. /\ ~plugin.dirty /\ plugin.step = "idle" /\ plugin.timer = "none" /\ plugin.prefill = "none"
      /\ ~plugin.up /\ ~plugin.ack /\ ~plugin.early /\ plugin.asked = 0
  BY <1>1 DEF NoPlugin
<1>8. form.step = "none" /\ office.key = 0 /\ office.content = 0 /\ office.sent = 0
  BY <1>1 DEF NoForm, NoOffice
<1>9. Beginning /\ Unmounted /\ NativeForm
  BY <1>1, <1>2, <1>6, <1>8 DEF Beginning, Unmounted, NativeForm
<1>10. Down /\ Prefilling /\ OneEnd /\ Freeze
  BY <1>1, <1>2, <1>7, <1>8 DEF Down, Prefilling, OneEnd, Freeze, Frozen
<1>11. StateKnown /\ SaveAnswered /\ Noted /\ DirtyKnown
  BY <1>1, <1>6, <1>7, <1>8 DEF StateKnown, SaveAnswered, Noted, DirtyKnown
<1> QED BY <1>5, <1>9, <1>10, <1>11 DEF IndInv

\* Every step keeps the invariant.
LEMMA NextInv ==
  ASSUME IndInv, [Next]_vars
  PROVE  IndInv'
<1>1. CASE Next
  <2>1. /\ Types /\ Beginning /\ Unmounted /\ NativeForm /\ Down /\ Prefilling /\ OneEnd /\ Freeze
        /\ StateKnown /\ SaveAnswered /\ Noted /\ DirtyKnown
    BY DEF IndInv
  <2>2. Types' /\ Beginning' /\ Unmounted' /\ NativeForm'
    BY <1>1, <2>1, TypesKept, BeginningKept, UnmountedKept, NativeFormKept
  <2>3. Down' /\ Prefilling' /\ OneEnd' /\ Freeze'
    BY <1>1, <2>1, DownKept, OneEndKept, FreezeKept
  <2>4. StateKnown' /\ SaveAnswered'
    BY <1>1, <2>1, StateKnownKept, SaveAnsweredKept
  <2>5. Noted' /\ DirtyKnown'
    BY <1>1, <2>1, NotedKept, DirtyKnownKept
  <2> QED BY <2>2, <2>3, <2>4, <2>5 DEF IndInv
<1>2. CASE UNCHANGED vars
  <2>1. UNCHANGED <<page, form, options, host, plugin, office, toHost, toPlugin, server, history, count>>
    BY <1>2 DEF vars
  <2>2. Types' /\ Beginning' /\ Unmounted' /\ NativeForm' /\ Down' /\ Prefilling'
    BY <2>1 DEF IndInv, Types, Beginning, Unmounted, NativeForm, Open, Down, Prefilling, shouldApplyRuntimePrefill
  <2>3. OneEnd' /\ Freeze' /\ Noted'
    BY <2>1 DEF IndInv, OneEnd, Freeze, Noted, Thawed, Slipped
  <2>4. StateKnown' /\ SaveAnswered' /\ DirtyKnown'
    BY <2>1 DEF IndInv, StateKnown, SaveAnswered, DirtyKnown, Slipped, Latest, Open
  <2> QED BY <2>2, <2>3, <2>4 DEF IndInv
<1> QED BY <1>1, <1>2

\* The invariant holds in every reachable state.
THEOREM Invariant == Spec => []IndInv
  BY InitInv, NextInv, PTL DEF Spec

-----------------------------------------------------------------------------
(* What follows *)

\* Every variable holds a value of its type: page, native form, host, plugin, editor, server and
\* the messages between host and plugin.
THEOREM TypesHold == Spec => []Types
<1>1. IndInv => Types
  BY DEF IndInv
<1> QED BY <1>1, Invariant, PTL

\* The data and the document of a draft are of the same moment, as long as nothing is changed
\* through controls that were opened too early: what postAction sends is what extractFormData
\* read, and what the editing service holds when the operation takes it is what
\* flushEditorChanges had it save.
THEOREM DataOfDocumentHolds == Spec => []DataOfDocument
<1>1. ASSUME IndInv PROVE DataOfDocument
  <2>1. CASE form.step = "none"
    BY <1>1, <2>1 DEF IndInv, Freeze, Slipped, DataOfDocument
  <2>2. CASE form.step # "none"
    BY <1>1, <2>2 DEF IndInv, NativeForm, DataOfDocument
  <2> QED BY <2>1, <2>2
<1> QED BY <1>1, Invariant, PTL

\* A page that shows no changes shows the stored draft, once the messages have arrived: the plugin
\* notes every change, and its reports reach the page in their order.
THEOREM CleanMeansSavedHolds == Spec => []CleanMeansSaved
<1>1. ASSUME IndInv, Quiet, page.of = "fill", ~page.dirty
      PROVE  /\ (plugin.ack /\ history \cap {"changed", "unheard"} = {}) => office.content = server.document
             /\ (form.step = "idle" /\ form.key = server.key) => form.values = server.data
  <2>1. ASSUME plugin.ack, history \cap {"changed", "unheard"} = {}
        PROVE  office.content = server.document
    <3>1. plugin.up /\ ~plugin.early /\ host.phase = "mounted"
      BY <1>1, <2>1 DEF IndInv, Down, Unmounted, NoPlugin
    <3>2. form.step = "none"
      BY <1>1, <3>1 DEF IndInv, Beginning
    <3>3. ~plugin.dirty
      BY <1>1, <2>1 DEF IndInv, DirtyKnown, Latest, Quiet
    <3> QED BY <1>1, <2>1, <3>1, <3>2, <3>3 DEF IndInv, Noted, Slipped
  <2>2. ASSUME form.step = "idle", form.key = server.key
        PROVE  form.values = server.data
    BY <1>1, <2>2 DEF IndInv, NativeForm, Quiet
  <2> QED BY <2>1, <2>2
<1>2. IndInv => CleanMeansSaved
  BY <1>1 DEF CleanMeansSaved
<1> QED BY <1>2, Invariant, PTL

-----------------------------------------------------------------------------
(* The lease and the workspaces of a correction                            *)

(* Every variable keeps its type, and every request its plan.              *)
LEMMA TypeStep ==
    ASSUME WorkspaceInv, [WorkspaceNext]_workspaceVars
    PROVE  TypeOK'
<1> USE RequestsDiffer
    DEF WorkspaceInv, Goto, Remember, Remove, requests, TypeOK, Leases, OpeningPlans,
        CorrectionPlans, Stages
<1>1. ASSUME ReleaseLease PROVE TypeOK'
  BY <1>1 DEF ReleaseLease, DeleteLease, Queued
<1>2. ASSUME ExpireLease PROVE TypeOK'
  BY <1>2 DEF ExpireLease
<1>3. ASSUME NEW s \in Sessions, EndSession(s) PROVE TypeOK'
  BY <1>3 DEF EndSession, DeleteLease, Queued
<1>4. ASSUME NEW w \in Openings, NEW s \in Sessions, ReadForOpening(w, s) PROVE TypeOK'
  BY <1>4 DEF ReadForOpening
<1>5. ASSUME NEW w \in Openings, RenewPrior(w) PROVE TypeOK'
  BY <1>5 DEF RenewPrior
<1>6. ASSUME NEW w \in Openings, ReleasePrior(w) PROVE TypeOK'
  BY <1>6 DEF ReleasePrior, DeleteLease, Queued
<1>7. ASSUME NEW w \in Openings, RecordIntent(w) PROVE TypeOK'
  BY <1>7 DEF RecordIntent
<1>8. ASSUME NEW w \in Openings, CopyDocument(w) PROVE TypeOK'
  BY <1>8 DEF CopyDocument
<1>9. ASSUME NEW w \in Openings, ClaimLease(w) PROVE TypeOK'
  BY <1>9 DEF ClaimLease, Granted, Queued, Unexpired, SameHolder
<1>10. ASSUME NEW w \in Openings, ClaimOwnLease(w) PROVE TypeOK'
  BY <1>10 DEF ClaimOwnLease
<1>11. ASSUME NEW w \in Openings, RefuseClaim(w) PROVE TypeOK'
  BY <1>11 DEF RefuseClaim
<1>12. ASSUME NEW w \in Openings, DropIntent(w) PROVE TypeOK'
  BY <1>12 DEF DropIntent
<1>13. ASSUME NEW w \in Openings, RemovePrior(w) PROVE TypeOK'
  BY <1>13 DEF RemovePrior, Discard
<1>14. ASSUME NEW w \in Openings, OpenEditor(w) PROVE TypeOK'
  BY <1>14 DEF OpenEditor
<1>15. ASSUME NEW w \in Openings, GiveUpStale(w) PROVE TypeOK'
  BY <1>15 DEF GiveUpStale, DeleteLease, Queued
<1>16. ASSUME NEW w \in Openings, Interrupt(w) PROVE TypeOK'
  BY <1>16 DEF Interrupt
<1>17. ASSUME NEW c \in Corrections, ReadForCorrection(c) PROVE TypeOK'
  BY <1>17 DEF ReadForCorrection, Unexpired
<1>18. ASSUME NEW c \in Corrections, CreateCorrection(c) PROVE TypeOK'
  BY <1>18 DEF CreateCorrection, Unexpired
<1>19. ASSUME NEW c \in Corrections, RefuseCorrection(c) PROVE TypeOK'
  BY <1>19 DEF RefuseCorrection
<1>20. ASSUME NEW c \in Corrections, CompleteCorrection(c) PROVE TypeOK'
  <2>1. lease' \in Leases \cup {None} /\ (lease' # None => lease'.holder \in live)
    <3>1. CASE Referenced(plan[c].workspace)
      BY <1>20, <3>1 DEF CompleteCorrection, Referenced, Leases
    <3>2. CASE ~Referenced(plan[c].workspace)
      BY <1>20, <3>2 DEF CompleteCorrection
    <3> QED BY <3>1, <3>2
  <2>2. store' \subseteq Openings /\ revision' \in Nat
    BY <1>20 DEF CompleteCorrection, Discard
  <2> QED BY <1>20, <2>1, <2>2 DEF CompleteCorrection, Stages
<1>21. ASSUME NEW c \in Corrections, FailCorrection(c) PROVE TypeOK'
  BY <1>21 DEF FailCorrection
<1>22. ASSUME NEW c \in Corrections, PollCorrection(c) PROVE TypeOK'
  BY <1>22 DEF PollCorrection, Discard
<1>23. ASSUME NEW w \in Openings, BecomeDue(w) PROVE TypeOK'
  BY <1>23 DEF BecomeDue
<1>24. ASSUME NEW w \in Openings, DrainIntent(w) PROVE TypeOK'
  BY <1>24 DEF DrainIntent
<1>25. ASSUME NEW w \in Openings, FinishRemoval(w) PROVE TypeOK'
  BY <1>25 DEF FinishRemoval
<1>26. ASSUME NEW w \in Openings, FailRemoval(w) PROVE TypeOK'
  BY <1>26 DEF FailRemoval
<1>27. CASE UNCHANGED workspaceVars
  BY <1>27 DEF workspaceVars, requests
<1> QED
  BY <1>1, <1>2, <1>3, <1>4, <1>5, <1>6, <1>7, <1>8, <1>9, <1>10, <1>11, <1>12, <1>13, <1>14,
     <1>15, <1>16, <1>17, <1>18, <1>19, <1>20, <1>21, <1>22, <1>23, <1>24, <1>25, <1>26, <1>27
  DEF WorkspaceNext, Opening, Correcting, Rest

(* What may be removed stays past its claim.                               *)
LEMMA PastStep ==
    ASSUME WorkspaceInv, [WorkspaceNext]_workspaceVars
    PROVE  PastInv'
<1> USE RequestsDiffer
    DEF WorkspaceInv, Goto, Remember, Remove, requests, TypeOK, PastInv, Past, Referenced,
        OpeningPlans, CorrectionPlans, Leases
<1>1. ASSUME ReleaseLease PROVE PastInv'
  BY <1>1 DEF ReleaseLease, DeleteLease, Queued
<1>2. ASSUME ExpireLease PROVE PastInv'
  BY <1>2 DEF ExpireLease
<1>3. ASSUME NEW s \in Sessions, EndSession(s) PROVE PastInv'
  BY <1>3 DEF EndSession, DeleteLease, Queued
<1>4. ASSUME NEW w \in Openings, NEW s \in Sessions, ReadForOpening(w, s) PROVE PastInv'
  BY <1>4 DEF ReadForOpening
<1>5. ASSUME NEW w \in Openings, RenewPrior(w) PROVE PastInv'
  BY <1>5 DEF RenewPrior
<1>6. ASSUME NEW w \in Openings, ReleasePrior(w) PROVE PastInv'
  BY <1>6 DEF ReleasePrior, DeleteLease, Queued
<1>7. ASSUME NEW w \in Openings, RecordIntent(w) PROVE PastInv'
  BY <1>7 DEF RecordIntent
<1>8. ASSUME NEW w \in Openings, CopyDocument(w) PROVE PastInv'
  BY <1>8 DEF CopyDocument
<1>9. ASSUME NEW w \in Openings, ClaimLease(w) PROVE PastInv'
  BY <1>9 DEF ClaimLease, Granted, Queued, Unexpired, SameHolder
<1>10. ASSUME NEW w \in Openings, ClaimOwnLease(w) PROVE PastInv'
  BY <1>10 DEF ClaimOwnLease
<1>11. ASSUME NEW w \in Openings, RefuseClaim(w) PROVE PastInv'
  BY <1>11 DEF RefuseClaim
<1>12. ASSUME NEW w \in Openings, DropIntent(w) PROVE PastInv'
  BY <1>12 DEF DropIntent
<1>13. ASSUME NEW w \in Openings, RemovePrior(w) PROVE PastInv'
  BY <1>13 DEF RemovePrior, Discard
<1>14. ASSUME NEW w \in Openings, OpenEditor(w) PROVE PastInv'
  BY <1>14 DEF OpenEditor
<1>15. ASSUME NEW w \in Openings, GiveUpStale(w) PROVE PastInv'
  BY <1>15 DEF GiveUpStale, DeleteLease, Queued
<1>16. ASSUME NEW w \in Openings, Interrupt(w) PROVE PastInv'
  BY <1>16 DEF Interrupt
<1>17. ASSUME NEW c \in Corrections, ReadForCorrection(c) PROVE PastInv'
  BY <1>17 DEF ReadForCorrection, Unexpired
<1>18. ASSUME NEW c \in Corrections, CreateCorrection(c) PROVE PastInv'
  BY <1>18 DEF CreateCorrection, Unexpired
<1>19. ASSUME NEW c \in Corrections, RefuseCorrection(c) PROVE PastInv'
  BY <1>19 DEF RefuseCorrection
<1>20. ASSUME NEW c \in Corrections, CompleteCorrection(c) PROVE PastInv'
  BY <1>20 DEF CompleteCorrection, Discard
<1>21. ASSUME NEW c \in Corrections, FailCorrection(c) PROVE PastInv'
  BY <1>21 DEF FailCorrection
<1>22. ASSUME NEW c \in Corrections, PollCorrection(c) PROVE PastInv'
  BY <1>22 DEF PollCorrection, Discard
<1>23. ASSUME NEW w \in Openings, BecomeDue(w) PROVE PastInv'
  BY <1>23 DEF BecomeDue
<1>24. ASSUME NEW w \in Openings, DrainIntent(w) PROVE PastInv'
  BY <1>24 DEF DrainIntent
<1>25. ASSUME NEW w \in Openings, FinishRemoval(w) PROVE PastInv'
  BY <1>25 DEF FinishRemoval
<1>26. ASSUME NEW w \in Openings, FailRemoval(w) PROVE PastInv'
  BY <1>26 DEF FailRemoval
<1>27. CASE UNCHANGED workspaceVars
  BY <1>27 DEF workspaceVars, requests
<1> QED
  BY <1>1, <1>2, <1>3, <1>4, <1>5, <1>6, <1>7, <1>8, <1>9, <1>10, <1>11, <1>12, <1>13, <1>14,
     <1>15, <1>16, <1>17, <1>18, <1>19, <1>20, <1>21, <1>22, <1>23, <1>24, <1>25, <1>26, <1>27
  DEF WorkspaceNext, Opening, Correcting, Rest

(* A copy that is claimed or held stays in the store.                      *)
LEMMA CopyStep ==
    ASSUME WorkspaceInv, [WorkspaceNext]_workspaceVars
    PROVE  CopyInv' /\ WorkspaceStored'
<1> USE RequestsDiffer
    DEF WorkspaceInv, Goto, Remember, Remove, requests, TypeOK, PastInv, Past, CopyInv,
        WorkspaceStored, Referenced, OpeningPlans, CorrectionPlans, Leases
<1>1. ASSUME ReleaseLease PROVE CopyInv' /\ WorkspaceStored'
  BY <1>1 DEF ReleaseLease, DeleteLease, Queued
<1>2. ASSUME ExpireLease PROVE CopyInv' /\ WorkspaceStored'
  BY <1>2 DEF ExpireLease
<1>3. ASSUME NEW s \in Sessions, EndSession(s) PROVE CopyInv' /\ WorkspaceStored'
  BY <1>3 DEF EndSession, DeleteLease, Queued
<1>4. ASSUME NEW w \in Openings, NEW s \in Sessions, ReadForOpening(w, s)
      PROVE  CopyInv' /\ WorkspaceStored'
  BY <1>4 DEF ReadForOpening
<1>5. ASSUME NEW w \in Openings, RenewPrior(w) PROVE CopyInv' /\ WorkspaceStored'
  BY <1>5 DEF RenewPrior
<1>6. ASSUME NEW w \in Openings, ReleasePrior(w) PROVE CopyInv' /\ WorkspaceStored'
  BY <1>6 DEF ReleasePrior, DeleteLease, Queued
<1>7. ASSUME NEW w \in Openings, RecordIntent(w) PROVE CopyInv' /\ WorkspaceStored'
  BY <1>7 DEF RecordIntent
<1>8. ASSUME NEW w \in Openings, CopyDocument(w) PROVE CopyInv' /\ WorkspaceStored'
  BY <1>8 DEF CopyDocument
<1>9. ASSUME NEW w \in Openings, ClaimLease(w) PROVE CopyInv' /\ WorkspaceStored'
  BY <1>9 DEF ClaimLease, Granted, Queued, Unexpired, SameHolder
<1>10. ASSUME NEW w \in Openings, ClaimOwnLease(w) PROVE CopyInv' /\ WorkspaceStored'
  BY <1>10 DEF ClaimOwnLease
<1>11. ASSUME NEW w \in Openings, RefuseClaim(w) PROVE CopyInv' /\ WorkspaceStored'
  BY <1>11 DEF RefuseClaim
<1>12. ASSUME NEW w \in Openings, DropIntent(w) PROVE CopyInv' /\ WorkspaceStored'
  BY <1>12 DEF DropIntent
<1>13. ASSUME NEW w \in Openings, RemovePrior(w) PROVE CopyInv' /\ WorkspaceStored'
  BY <1>13 DEF RemovePrior, Discard
<1>14. ASSUME NEW w \in Openings, OpenEditor(w) PROVE CopyInv' /\ WorkspaceStored'
  BY <1>14 DEF OpenEditor
<1>15. ASSUME NEW w \in Openings, GiveUpStale(w) PROVE CopyInv' /\ WorkspaceStored'
  BY <1>15 DEF GiveUpStale, DeleteLease, Queued
<1>16. ASSUME NEW w \in Openings, Interrupt(w) PROVE CopyInv' /\ WorkspaceStored'
  BY <1>16 DEF Interrupt
<1>17. ASSUME NEW c \in Corrections, ReadForCorrection(c) PROVE CopyInv' /\ WorkspaceStored'
  BY <1>17 DEF ReadForCorrection, Unexpired
<1>18. ASSUME NEW c \in Corrections, CreateCorrection(c) PROVE CopyInv' /\ WorkspaceStored'
  BY <1>18 DEF CreateCorrection, Unexpired
<1>19. ASSUME NEW c \in Corrections, RefuseCorrection(c) PROVE CopyInv' /\ WorkspaceStored'
  BY <1>19 DEF RefuseCorrection
<1>20. ASSUME NEW c \in Corrections, CompleteCorrection(c)
       PROVE  CopyInv' /\ WorkspaceStored'
  BY <1>20 DEF CompleteCorrection, Discard
<1>21. ASSUME NEW c \in Corrections, FailCorrection(c) PROVE CopyInv' /\ WorkspaceStored'
  BY <1>21 DEF FailCorrection
<1>22. ASSUME NEW c \in Corrections, PollCorrection(c) PROVE CopyInv' /\ WorkspaceStored'
  BY <1>22 DEF PollCorrection, Discard
<1>23. ASSUME NEW w \in Openings, BecomeDue(w) PROVE CopyInv' /\ WorkspaceStored'
  BY <1>23 DEF BecomeDue
<1>24. ASSUME NEW w \in Openings, DrainIntent(w) PROVE CopyInv' /\ WorkspaceStored'
  BY <1>24 DEF DrainIntent
<1>25. ASSUME NEW w \in Openings, FinishRemoval(w) PROVE CopyInv' /\ WorkspaceStored'
  BY <1>25 DEF FinishRemoval
<1>26. ASSUME NEW w \in Openings, FailRemoval(w) PROVE CopyInv' /\ WorkspaceStored'
  BY <1>26 DEF FailRemoval
<1>27. CASE UNCHANGED workspaceVars
  BY <1>27 DEF workspaceVars, requests
<1> QED
  BY <1>1, <1>2, <1>3, <1>4, <1>5, <1>6, <1>7, <1>8, <1>9, <1>10, <1>11, <1>12, <1>13, <1>14,
     <1>15, <1>16, <1>17, <1>18, <1>19, <1>20, <1>21, <1>22, <1>23, <1>24, <1>25, <1>26, <1>27
  DEF WorkspaceNext, Opening, Correcting, Rest

(* The lease, its workspace and the corrections under it keep one holder.  *)
LEMMA HolderStep ==
    ASSUME WorkspaceInv, [WorkspaceNext]_workspaceVars
    PROVE  HolderInv' /\ OwnWorkspace' /\ HeldWhileProcessed'
<1> USE RequestsDiffer
    DEF WorkspaceInv, Goto, Remember, Remove, requests, TypeOK, HolderInv, OwnWorkspace,
        HeldWhileProcessed, NoneActive, Active, PastInv, Past, Referenced, OpeningPlans,
        CorrectionPlans, Leases
<1>1. ASSUME ReleaseLease PROVE HolderInv' /\ OwnWorkspace' /\ HeldWhileProcessed'
  BY <1>1 DEF ReleaseLease, DeleteLease, Queued
<1>2. ASSUME ExpireLease PROVE HolderInv' /\ OwnWorkspace' /\ HeldWhileProcessed'
  BY <1>2 DEF ExpireLease
<1>3. ASSUME NEW s \in Sessions, EndSession(s)
      PROVE  HolderInv' /\ OwnWorkspace' /\ HeldWhileProcessed'
  BY <1>3 DEF EndSession, DeleteLease, Queued
<1>4. ASSUME NEW w \in Openings, NEW s \in Sessions, ReadForOpening(w, s)
      PROVE  HolderInv' /\ OwnWorkspace' /\ HeldWhileProcessed'
  BY <1>4 DEF ReadForOpening
<1>5. ASSUME NEW w \in Openings, RenewPrior(w)
      PROVE  HolderInv' /\ OwnWorkspace' /\ HeldWhileProcessed'
  BY <1>5 DEF RenewPrior
<1>6. ASSUME NEW w \in Openings, ReleasePrior(w)
      PROVE  HolderInv' /\ OwnWorkspace' /\ HeldWhileProcessed'
  BY <1>6 DEF ReleasePrior, DeleteLease, Queued
<1>7. ASSUME NEW w \in Openings, RecordIntent(w)
      PROVE  HolderInv' /\ OwnWorkspace' /\ HeldWhileProcessed'
  BY <1>7 DEF RecordIntent
<1>8. ASSUME NEW w \in Openings, CopyDocument(w)
      PROVE  HolderInv' /\ OwnWorkspace' /\ HeldWhileProcessed'
  BY <1>8 DEF CopyDocument
<1>9. ASSUME NEW w \in Openings, ClaimLease(w)
      PROVE  HolderInv' /\ OwnWorkspace' /\ HeldWhileProcessed'
  BY <1>9 DEF ClaimLease, Granted, Queued, Unexpired, SameHolder
<1>10. ASSUME NEW w \in Openings, ClaimOwnLease(w)
       PROVE  HolderInv' /\ OwnWorkspace' /\ HeldWhileProcessed'
  BY <1>10 DEF ClaimOwnLease
<1>11. ASSUME NEW w \in Openings, RefuseClaim(w)
       PROVE  HolderInv' /\ OwnWorkspace' /\ HeldWhileProcessed'
  BY <1>11 DEF RefuseClaim
<1>12. ASSUME NEW w \in Openings, DropIntent(w)
       PROVE  HolderInv' /\ OwnWorkspace' /\ HeldWhileProcessed'
  BY <1>12 DEF DropIntent
<1>13. ASSUME NEW w \in Openings, RemovePrior(w)
       PROVE  HolderInv' /\ OwnWorkspace' /\ HeldWhileProcessed'
  BY <1>13 DEF RemovePrior, Discard
<1>14. ASSUME NEW w \in Openings, OpenEditor(w)
       PROVE  HolderInv' /\ OwnWorkspace' /\ HeldWhileProcessed'
  BY <1>14 DEF OpenEditor
<1>15. ASSUME NEW w \in Openings, GiveUpStale(w)
       PROVE  HolderInv' /\ OwnWorkspace' /\ HeldWhileProcessed'
  BY <1>15 DEF GiveUpStale, DeleteLease, Queued
<1>16. ASSUME NEW w \in Openings, Interrupt(w)
       PROVE  HolderInv' /\ OwnWorkspace' /\ HeldWhileProcessed'
  BY <1>16 DEF Interrupt
<1>17. ASSUME NEW c \in Corrections, ReadForCorrection(c)
       PROVE  HolderInv' /\ OwnWorkspace' /\ HeldWhileProcessed'
  BY <1>17 DEF ReadForCorrection, Unexpired
<1>18. ASSUME NEW c \in Corrections, CreateCorrection(c)
       PROVE  HolderInv' /\ OwnWorkspace' /\ HeldWhileProcessed'
  BY <1>18 DEF CreateCorrection, Unexpired
<1>19. ASSUME NEW c \in Corrections, RefuseCorrection(c)
       PROVE  HolderInv' /\ OwnWorkspace' /\ HeldWhileProcessed'
  BY <1>19 DEF RefuseCorrection
<1>20. ASSUME NEW c \in Corrections, CompleteCorrection(c)
       PROVE  HolderInv' /\ OwnWorkspace' /\ HeldWhileProcessed'
  BY <1>20 DEF CompleteCorrection, Discard
<1>21. ASSUME NEW c \in Corrections, FailCorrection(c)
       PROVE  HolderInv' /\ OwnWorkspace' /\ HeldWhileProcessed'
  BY <1>21 DEF FailCorrection
<1>22. ASSUME NEW c \in Corrections, PollCorrection(c)
       PROVE  HolderInv' /\ OwnWorkspace' /\ HeldWhileProcessed'
  BY <1>22 DEF PollCorrection, Discard
<1>23. ASSUME NEW w \in Openings, BecomeDue(w)
       PROVE  HolderInv' /\ OwnWorkspace' /\ HeldWhileProcessed'
  BY <1>23 DEF BecomeDue
<1>24. ASSUME NEW w \in Openings, DrainIntent(w)
       PROVE  HolderInv' /\ OwnWorkspace' /\ HeldWhileProcessed'
  BY <1>24 DEF DrainIntent
<1>25. ASSUME NEW w \in Openings, FinishRemoval(w)
       PROVE  HolderInv' /\ OwnWorkspace' /\ HeldWhileProcessed'
  BY <1>25 DEF FinishRemoval
<1>26. ASSUME NEW w \in Openings, FailRemoval(w)
       PROVE  HolderInv' /\ OwnWorkspace' /\ HeldWhileProcessed'
  BY <1>26 DEF FailRemoval
<1>27. CASE UNCHANGED workspaceVars
  BY <1>27 DEF workspaceVars, requests
<1> QED
  BY <1>1, <1>2, <1>3, <1>4, <1>5, <1>6, <1>7, <1>8, <1>9, <1>10, <1>11, <1>12, <1>13, <1>14,
     <1>15, <1>16, <1>17, <1>18, <1>19, <1>20, <1>21, <1>22, <1>23, <1>24, <1>25, <1>26, <1>27
  DEF WorkspaceNext, Opening, Correcting, Rest

(* A stored workspace is forgotten by nothing but the drop of its intent.  *)
LEMMA TrackedStep ==
    ASSUME WorkspaceInv, [WorkspaceNext]_workspaceVars, NEW v \in Openings,
           v \in store => Tracked(v), v \in store', ~Tracked(v)'
    PROVE  DropIntent(v)
<1> USE RequestsDiffer, NoneIsNoLease
    DEF WorkspaceInv, Goto, Remember, Remove, requests, TypeOK, Tracked, Referenced, PastInv, Past,
        CopyInv, OpeningPlans, CorrectionPlans, Leases, Active
<1>1. ASSUME ReleaseLease PROVE DropIntent(v)
  BY <1>1 DEF ReleaseLease, DeleteLease, Queued
<1>2. ASSUME ExpireLease PROVE DropIntent(v)
  BY <1>2 DEF ExpireLease
<1>3. ASSUME NEW s \in Sessions, EndSession(s) PROVE DropIntent(v)
  BY <1>3 DEF EndSession, DeleteLease, Queued
<1>4. ASSUME NEW w \in Openings, NEW s \in Sessions, ReadForOpening(w, s)
      PROVE  DropIntent(v)
  BY <1>4 DEF ReadForOpening
<1>5. ASSUME NEW w \in Openings, RenewPrior(w) PROVE DropIntent(v)
  BY <1>5 DEF RenewPrior
<1>6. ASSUME NEW w \in Openings, ReleasePrior(w) PROVE DropIntent(v)
  BY <1>6 DEF ReleasePrior, DeleteLease, Queued
<1>7. ASSUME NEW w \in Openings, RecordIntent(w) PROVE DropIntent(v)
  BY <1>7 DEF RecordIntent
<1>8. ASSUME NEW w \in Openings, CopyDocument(w) PROVE DropIntent(v)
  BY <1>8 DEF CopyDocument
<1>9. ASSUME NEW w \in Openings, ClaimLease(w) PROVE DropIntent(v)
  BY <1>9 DEF ClaimLease, Granted, Queued, Unexpired, SameHolder
<1>10. ASSUME NEW w \in Openings, ClaimOwnLease(w) PROVE DropIntent(v)
  BY <1>10 DEF ClaimOwnLease
<1>11. ASSUME NEW w \in Openings, RefuseClaim(w) PROVE DropIntent(v)
  BY <1>11 DEF RefuseClaim
<1>12. ASSUME NEW w \in Openings, DropIntent(w) PROVE DropIntent(v)
  BY <1>12 DEF DropIntent
<1>13. ASSUME NEW w \in Openings, RemovePrior(w) PROVE DropIntent(v)
  BY <1>13 DEF RemovePrior, Discard
<1>14. ASSUME NEW w \in Openings, OpenEditor(w) PROVE DropIntent(v)
  BY <1>14 DEF OpenEditor
<1>15. ASSUME NEW w \in Openings, GiveUpStale(w) PROVE DropIntent(v)
  BY <1>15 DEF GiveUpStale, DeleteLease, Queued
<1>16. ASSUME NEW w \in Openings, Interrupt(w) PROVE DropIntent(v)
  BY <1>16 DEF Interrupt
<1>17. ASSUME NEW c \in Corrections, ReadForCorrection(c) PROVE DropIntent(v)
  BY <1>17 DEF ReadForCorrection, Unexpired
<1>18. ASSUME NEW c \in Corrections, CreateCorrection(c) PROVE DropIntent(v)
  BY <1>18 DEF CreateCorrection, Unexpired
<1>19. ASSUME NEW c \in Corrections, RefuseCorrection(c) PROVE DropIntent(v)
  BY <1>19 DEF RefuseCorrection
<1>20. ASSUME NEW c \in Corrections, CompleteCorrection(c) PROVE DropIntent(v)
  BY <1>20 DEF CompleteCorrection, Discard
<1>21. ASSUME NEW c \in Corrections, FailCorrection(c) PROVE DropIntent(v)
  BY <1>21 DEF FailCorrection
<1>22. ASSUME NEW c \in Corrections, PollCorrection(c) PROVE DropIntent(v)
  BY <1>22 DEF PollCorrection, Discard
<1>23. ASSUME NEW w \in Openings, BecomeDue(w) PROVE DropIntent(v)
  BY <1>23 DEF BecomeDue
<1>24. ASSUME NEW w \in Openings, DrainIntent(w) PROVE DropIntent(v)
  BY <1>24 DEF DrainIntent
<1>25. ASSUME NEW w \in Openings, FinishRemoval(w) PROVE DropIntent(v)
  BY <1>25 DEF FinishRemoval
<1>26. ASSUME NEW w \in Openings, FailRemoval(w) PROVE DropIntent(v)
  BY <1>26 DEF FailRemoval
<1>27. CASE UNCHANGED workspaceVars
  BY <1>27 DEF workspaceVars, requests
<1> QED
  BY <1>1, <1>2, <1>3, <1>4, <1>5, <1>6, <1>7, <1>8, <1>9, <1>10, <1>11, <1>12, <1>13, <1>14,
     <1>15, <1>16, <1>17, <1>18, <1>19, <1>20, <1>21, <1>22, <1>23, <1>24, <1>25, <1>26, <1>27
  DEF WorkspaceNext, Opening, Correcting, Rest

(* The types, who is past the claim, the copies and the holders are kept   *)
(* by every step.                                                          *)
THEOREM WorkspaceInvariant == WorkspaceSpec => []WorkspaceInv
<1>1. WorkspaceInit => WorkspaceInv
  BY RequestsDiffer DEF WorkspaceInit, WorkspaceInv, TypeOK, PastInv, Past, CopyInv, HolderInv, WorkspaceStored,
       OwnWorkspace, HeldWhileProcessed, Referenced, Active, Stages
<1>2. WorkspaceInv /\ [WorkspaceNext]_workspaceVars => WorkspaceInv'
  BY TypeStep, PastStep, CopyStep, HolderStep DEF WorkspaceInv
<1> QED BY <1>1, <1>2, PTL DEF WorkspaceSpec

(* Every variable keeps its type; a lease is held by a session that lives. *)
THEOREM WorkspaceTyped == WorkspaceSpec => []TypeOK
BY WorkspaceInvariant, PTL DEF WorkspaceInv

(* No cleanup, of whatever age, removes the document somebody is editing.  *)
THEOREM EditedDocumentKept == WorkspaceSpec => []WorkspaceStored
BY WorkspaceInvariant, PTL DEF WorkspaceInv

(* The lease comes with a copy its own holder made, of the revision the    *)
(* correction will be checked against.                                     *)
THEOREM WorkspaceOfHolder == WorkspaceSpec => []OwnWorkspace
BY WorkspaceInvariant, PTL DEF WorkspaceInv

(* Nobody else takes the lease while a correction is processed.            *)
THEOREM LeaseHeldWhileProcessed == WorkspaceSpec => []HeldWhileProcessed
BY WorkspaceInvariant, PTL DEF WorkspaceInv

(* Whatever is left behind is the lease's, an intent's or a correction's,  *)
(* until an opening drops the intent of a lease that has gone.             *)
THEOREM WorkspacesNotForgotten == WorkspaceSpec => WorkspacesTracked
<1>1. WorkspaceInv /\ [WorkspaceNext]_workspaceVars =>
        [\A w \in Openings :
           (w \in store => Tracked(w)) /\ w \in store' /\ ~Tracked(w)' => DropIntent(w)]_workspaceVars
  BY TrackedStep
<1> QED BY <1>1, WorkspaceInvariant, PTL DEF WorkspaceSpec, WorkspacesTracked
===============================================================================
