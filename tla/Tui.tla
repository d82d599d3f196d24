--------------------------------- MODULE Tui ---------------------------------
(***************************************************************************)
(* The terminal program (cmd/tui/main.go) and the API it talks to          *)
(* (internal/ipcapi): what the user does, the requests it sends, and the   *)
(* answers and polls that come back in whatever order they come.           *)
(*                                                                         *)
(* Bubble Tea runs every command on a goroutine of its own and hands its   *)
(* result to Update, one message at a time.  A command is one HTTP request *)
(* and the API serves each on a goroutine of its own: it calls a method of *)
(* the daemon and takes a snapshot afterwards, under the lock again.  The  *)
(* client gives up after three seconds; the API does not notice.           *)
(*                                                                         *)
(* The daemon is what the API shows of it: a method takes effect in one    *)
(* step (SenderDaemon and ListenerDaemon have the steps within), and a     *)
(* component may end by itself.  Layout, list cursors and the pages' lists *)
(* are left out, and so is quitting, which ends the terminal.              *)
(***************************************************************************)
EXTENDS Naturals, FiniteSets

CONSTANTS
  Component,   \* the daemon's halves that the user controls
  Path,        \* files the user may pick
  Found,       \* files the daemon has when the terminal starts
  Conn,        \* connection IDs
  NoConn,      \* an empty detailID
  Slot,        \* bound: user requests in flight at the same time
  MaxKeys,     \* bound: keys that send or edit something
  MaxFailures, \* bound: requests that fail
  MaxEvents    \* bound: what the daemon does by itself

ASSUME TuiAssumption ==
  /\ Component \subseteq {"sender", "listener"}
  /\ IsFiniteSet(Path) /\ Found \subseteq Path /\ IsFiniteSet(Conn) /\ NoConn \notin Conn
  /\ Slot # {} /\ IsFiniteSet(Slot)
  /\ MaxKeys \in Nat /\ MaxFailures \in Nat /\ MaxEvents \in Nat

(* The text settings, as a whole: Blank is the zero value of the struct, Boot *)
(* what the daemon was started with, and every edit makes another one.       *)
Blank    == 0
Boot     == 1
Text     == 0 .. MaxKeys + 1
Flags    == [Component -> BOOLEAN]
Settings == [text : Text, enabled : Flags]
Snapshot == [settings : Settings, files : SUBSET Path, running : Flags, conns : SUBSET Conn]
Page     == {"picker", "selected", "connections", "details", "settings"}
Chain    == 1 .. MaxFailures + 1

Off    == [c \in Component |-> FALSE]
Zero   == [settings |-> [text |-> Blank, enabled |-> Off], files |-> {}, running |-> Off,
           conns |-> {}]

(* A request: what it asks, how far the API is with it, and what has come    *)
(* back to the terminal.                                                     *)
Kind    == {"none", "files", "settings", "start", "stop"}
Request == [kind : Kind, files : SUBSET Path, settings : Settings, on : SUBSET Component,
            api : {"none", "received", "done"}, msg : {"none", "wait", "snapshot", "error"},
            snap : Snapshot]
NoRequest == [kind |-> "none", files |-> {}, settings |-> Zero.settings, on |-> {},
              api |-> "none", msg |-> "none", snap |-> Zero]

(* A chain of polls: the tick and the request that follows it ("wait" is     *)
(* both, neither touches anything), then what came back.                     *)
Poll   == [at : {"none", "wait", "snapshot", "error"}, snap : Snapshot]
NoPoll == [at |-> "none", snap |-> Zero]

VARIABLES
  daemon,    \* what a snapshot of the daemon would show
  page,      \* m.page
  editing,   \* m.editing
  detail,    \* m.detailID, NoConn for ""
  shown,     \* m.settings, m.fileList, m.senderRunning and listenerRunning, m.connections
  dirty,     \* m.settingsDirty
  req,       \* requests by the user's keys
  poll,      \* chains of State requests and ticks
  keys, failures, events,  \* counters for the bounds
  wanted,    \* history: the files the daemon had or the user picked and did not remove
  raced,     \* history: a file key was pressed on an old list, or its request failed
  unsent,    \* history: an edit of the settings has not been written by a w
  crossed,   \* history: the answer to a w arrived after a later edit
  synced,    \* history: the settings shown have once been the daemon's
  blind      \* history: an edit or a w before that

viewVars    == <<page, editing, detail, shown, dirty>>
editHistory == <<unsent, crossed, synced, blind>>
fileHistory == <<wanted, raced>>
vars == <<daemon, viewVars, req, poll, keys, failures, events, fileHistory, editHistory>>

TypeOK ==
  /\ daemon \in Snapshot
  /\ page \in Page /\ editing \in BOOLEAN
  /\ shown \in Snapshot /\ detail \in shown.conns \cup {NoConn} /\ dirty \in BOOLEAN
  /\ req \in [Slot -> Request]
  /\ poll \in [Chain -> Poll]
  /\ keys \in 0 .. MaxKeys /\ failures \in 0 .. MaxFailures /\ events \in 0 .. MaxEvents
  /\ wanted \in SUBSET Path
  /\ raced \in BOOLEAN /\ unsent \in BOOLEAN /\ crossed \in BOOLEAN
  /\ synced \in BOOLEAN /\ blind \in BOOLEAN

(* The daemon runs already, with both halves off and the files that an       *)
(* earlier terminal left; this one has nothing and its first poll is on its  *)
(* way.                                                                      *)
Init ==
  /\ daemon = [Zero EXCEPT !.settings.text = Boot, !.files = Found]
  /\ page = "picker" /\ editing = FALSE /\ detail = NoConn
  /\ shown = Zero /\ dirty = FALSE
  /\ req = [s \in Slot |-> NoRequest]
  /\ poll = [n \in Chain |-> IF n = 1 THEN [NoPoll EXCEPT !.at = "wait"] ELSE NoPoll]
  /\ keys = 0 /\ failures = 0 /\ events = 0
  /\ wanted = Found /\ raced = FALSE
  /\ unsent = FALSE /\ crossed = FALSE /\ synced = FALSE /\ blind = FALSE

-----------------------------------------------------------------------------
(* Keys.  While a setting is edited and its page is shown, every key goes to *)
(* the editor.                                                               *)

Command == ~(page = "settings" /\ editing)

Press == keys < MaxKeys /\ keys' = keys + 1

(* Keeps a behaviour within MaxFailures: each of these may fail or has.      *)
RoomToFail ==
  failures + Cardinality({s \in Slot : \/ req[s].kind \in {"start", "settings"}
                                       \/ req[s].msg = "error"}) < MaxFailures

(* The command of a key, on a goroutine of its own.                          *)
Send(r) ==
  LET free == {s \in Slot : req[s] = NoRequest} IN
  /\ free # {}
  /\ req' = [req EXCEPT ![CHOOSE s \in free : TRUE] =
                [r EXCEPT !.api = "received", !.msg = "wait"]]

(* tab, p, f, l, c, g and b.  A user who has no keys left does not navigate. *)
Navigate ==
  /\ Command /\ keys < MaxKeys
  /\ page' \in (Page \ {"details"}) \cup (IF page = "connections" THEN {"details"} ELSE {})
  /\ UNCHANGED <<daemon, editing, detail, shown, dirty, req, poll, keys, failures, events,
                 fileHistory, editHistory>>

OpenDetails ==
  /\ Command /\ page = "connections" /\ keys < MaxKeys
  /\ detail' \in shown.conns
  /\ page' = "details"
  /\ UNCHANGED <<daemon, editing, shown, dirty, req, poll, keys, failures, events,
                 fileHistory, editHistory>>

(* s and r start or stop what the terminal believes to be off or on.         *)
ToggleComponent(c) ==
  /\ Command /\ Press /\ (shown.running[c] \/ RoomToFail)
  /\ Send([NoRequest EXCEPT !.kind = IF shown.running[c] THEN "stop" ELSE "start",
                            !.on = {c}])
  /\ UNCHANGED <<daemon, viewVars, poll, failures, events, fileHistory, editHistory>>

UnhandledFiles == {s \in Slot : req[s].kind = "files" /\ req[s].api = "received"}

(* The list shown changes at once and is sent as a whole.                    *)
SendFiles(files) ==
  /\ shown' = [shown EXCEPT !.files = files]
  /\ Send([NoRequest EXCEPT !.kind = "files", !.files = files])
  /\ raced' = (raced \/ shown.files # wanted \/ UnhandledFiles # {})
  /\ UNCHANGED <<daemon, page, editing, detail, dirty, poll, failures, events, editHistory>>

PickFile(p) ==
  /\ Command /\ page = "picker" /\ Press
  /\ SendFiles(shown.files \cup {p})
  /\ wanted' = wanted \cup {p}

(* Mutant of RemoveFile: the new list is shown but not sent.                 *)
RemoveFileLocally(p) ==
  /\ Command /\ page = "selected" /\ p \in shown.files /\ Press
  /\ shown' = [shown EXCEPT !.files = @ \ {p}]
  /\ wanted' = wanted \ {p}
  /\ UNCHANGED <<daemon, page, editing, detail, dirty, req, poll, failures, events, raced,
                 editHistory>>

RemoveFile(p) ==
  /\ Command /\ page = "selected" /\ p \in shown.files /\ Press
  /\ SendFiles(shown.files \ {p})
  /\ wanted' = wanted \ {p}

(* An edit of the settings reached the local copy.                           *)
Edited ==
  /\ dirty' = TRUE
  /\ unsent' = TRUE /\ crossed' = FALSE
  /\ blind' = (blind \/ ~synced)

ToggleSetting(c) ==
  /\ Command /\ page = "settings" /\ Press
  /\ shown' = [shown EXCEPT !.settings.enabled[c] = ~@]
  /\ Edited
  /\ UNCHANGED <<daemon, page, editing, detail, req, poll, failures, events, fileHistory,
                 synced>>

BeginEdit ==
  /\ Command /\ page = "settings" /\ Press
  /\ editing' = TRUE
  /\ UNCHANGED <<daemon, page, detail, shown, dirty, req, poll, failures, events,
                 fileHistory, editHistory>>

(* esc; a value that commitSettingEdit refuses leaves the editor open.       *)
CancelEdit ==
  /\ ~Command
  /\ editing' = FALSE
  /\ UNCHANGED <<daemon, page, detail, shown, dirty, req, poll, keys, failures, events,
                 fileHistory, editHistory>>

CommitEdit ==
  /\ ~Command
  /\ editing' = FALSE
  /\ shown' = [shown EXCEPT !.settings.text = keys + 1]
  /\ Edited
  /\ UNCHANGED <<daemon, page, detail, req, poll, keys, failures, events, fileHistory,
                 synced>>

(* w.  The copy stays dirty until the answer is there.                       *)
Write ==
  /\ Command /\ page = "settings" /\ Press /\ RoomToFail
  /\ Send([NoRequest EXCEPT !.kind = "settings", !.settings = shown.settings])
  /\ unsent' = FALSE
  /\ blind' = (blind \/ ~synced)
  /\ UNCHANGED <<daemon, viewVars, poll, failures, events, fileHistory, crossed, synced>>

Key ==
  \/ Navigate \/ OpenDetails \/ BeginEdit \/ CancelEdit \/ CommitEdit \/ Write
  \/ \E c \in Component : ToggleComponent(c) \/ ToggleSetting(c)
  \/ \E p \in Path : PickFile(p) \/ RemoveFile(p)

-----------------------------------------------------------------------------
(* The API and the daemon behind it.                                         *)

(* What starting the components in `on` leads to when those in `ok` start.   *)
(* A sender without files does not, and one that starts has no connections.  *)
Started(d, on, ok) ==
  [d EXCEPT !.running = [c \in Component |-> IF c \in on THEN c \in ok ELSE d.running[c]],
            !.conns   = IF "sender" \in ok THEN {} ELSE d.conns]

CanStart(d, on) == {ok \in SUBSET on : d.files = {} => "sender" \notin ok}

(* The daemon with its settings replaced, everything stopped.                *)
Replaced(d, new) == [d EXCEPT !.settings = new, !.running = Off]

Enabled(new) == {c \in Component : new.enabled[c]}

(* What a request may make of the daemon, and whether it is answered 200.    *)
Outcomes(r, d) ==
  CASE r.kind = "files"    -> {<<[d EXCEPT !.files = r.files], TRUE>>}
    [] r.kind = "stop"     ->
         {<<[d EXCEPT !.settings.enabled = [c \in Component |-> @[c] /\ c \notin r.on],
                      !.running = [c \in Component |-> @[c] /\ c \notin r.on]], TRUE>>}
    [] r.kind = "start"    ->
         LET e  == [d EXCEPT !.settings.enabled = [c \in Component |-> @[c] \/ c \in r.on]]
             on == {c \in r.on : ~d.running[c]}
         IN {<<Started(e, on, ok), ok = on>> : ok \in CanStart(e, on)}
    [] r.kind = "settings" ->
         LET e  == Replaced(d, r.settings)
             on == Enabled(r.settings)
         IN {<<Started(e, on, ok), ok = on>> : ok \in CanStart(e, on)}

(* The request is over once the API is done and the terminal has its answer. *)
Settle(s, r) ==
  req' = [req EXCEPT ![s] = IF r.api = "none" /\ r.msg = "none" THEN NoRequest ELSE r]

Handle(s) ==
  /\ req[s].api = "received"
  /\ \E o \in Outcomes(req[s], daemon) :
       /\ daemon' = o[1]
       /\ \/ o[2]  /\ Settle(s, [req[s] EXCEPT !.api = "done"])
          \/ ~o[2] /\ Settle(s, [req[s] EXCEPT !.api = "none",
                                               !.msg = IF @ = "wait" THEN "error" ELSE @])
  /\ UNCHANGED <<viewVars, poll, keys, failures, events, fileHistory, editHistory>>

(* d.Snapshot(), after other requests perhaps.                               *)
TakeSnapshot(s) ==
  /\ req[s].api = "done"
  /\ Settle(s, IF req[s].msg = "wait"
               THEN [req[s] EXCEPT !.api = "none", !.msg = "snapshot", !.snap = daemon]
               ELSE [req[s] EXCEPT !.api = "none"])
  /\ UNCHANGED <<daemon, viewVars, poll, keys, failures, events, fileHistory, editHistory>>

(* The client's time is up, or its connection fails.  The request may not    *)
(* have reached the API; if it has, the API carries on.                      *)
GiveUp(s) ==
  /\ req[s].msg = "wait" /\ (req[s].kind \in {"start", "settings"} \/ RoomToFail)
  /\ \/ req' = [req EXCEPT ![s].msg = "error"] /\ UNCHANGED raced
     \/ /\ req[s].api = "received"
        /\ req' = [req EXCEPT ![s].msg = "error", ![s].api = "none"]
        /\ raced' = (raced \/ req[s].kind = "files")
  /\ UNCHANGED <<daemon, viewVars, poll, keys, failures, events, wanted, editHistory>>

(* What the daemon does by itself: a client connects, a component ends.  The *)
(* last connection that the consumer of an ended sender may still add is      *)
(* left out: whether a sender has ever run is not among what is modelled.    *)
DaemonEvent ==
  /\ events < MaxEvents /\ events' = events + 1
  /\ \/ /\ "sender" \in Component /\ daemon.running["sender"]
        /\ \E k \in Conn \ daemon.conns : daemon' = [daemon EXCEPT !.conns = @ \cup {k}]
     \/ \E c \in Component :
          daemon.running[c] /\ daemon' = [daemon EXCEPT !.running[c] = FALSE]
  /\ UNCHANGED <<viewVars, req, poll, keys, failures, fileHistory, editHistory>>

-----------------------------------------------------------------------------
(* Messages.                                                                 *)

(* Mutant of ApplySnapshot: detailID is kept.                                *)
ApplyKeepsDetail(snap, unsaved) ==
  LET keep == unsaved \/ editing IN
  /\ shown' = IF keep THEN [snap EXCEPT !.settings = shown.settings] ELSE snap
  /\ synced' = (synced \/ ~keep)
  /\ unsent' = (unsent /\ keep)
  /\ UNCHANGED <<detail, page>>

(* Mutant of ApplySnapshot: the list of files is left as the user sees it.   *)
ApplyWithoutFiles(snap, unsaved) ==
  LET keep == unsaved \/ editing IN
  /\ shown' = [snap EXCEPT !.files = shown.files,
                           !.settings = IF keep THEN shown.settings ELSE @]
  /\ synced' = (synced \/ ~keep)
  /\ unsent' = (unsent /\ keep)
  /\ IF detail # NoConn /\ detail \notin snap.conns
     THEN detail' = NoConn /\ page' = "connections"
     ELSE UNCHANGED <<detail, page>>

(* applySnapshot replaces all but settings that are being edited, and leaves *)
(* whatever page is shown when the connection in detail is gone.             *)
ApplySnapshot(snap, unsaved) ==
  LET keep == unsaved \/ editing IN
  /\ shown' = IF keep THEN [snap EXCEPT !.settings = shown.settings] ELSE snap
  /\ synced' = (synced \/ ~keep)
  /\ unsent' = (unsent /\ keep)
  /\ IF detail # NoConn /\ detail \notin snap.conns
     THEN detail' = NoConn /\ page' = "connections"
     ELSE UNCHANGED <<detail, page>>

(* Mutant of ActionAnswer: every answer clears the dirty flag.               *)
ActionAnswerClears(s) ==
  /\ req[s].msg = "snapshot"
  /\ dirty' = FALSE
  /\ crossed' = (crossed \/ (req[s].kind = "settings" /\ unsent))
  /\ ApplySnapshot(req[s].snap, FALSE)
  /\ req' = [req EXCEPT ![s] = NoRequest]
  /\ UNCHANGED <<daemon, editing, poll, keys, failures, events, fileHistory, blind>>

(* actionMsg without an error.                                               *)
ActionAnswer(s) ==
  /\ req[s].msg = "snapshot"
  /\ LET unsaved == dirty /\ req[s].kind # "settings" IN
     dirty' = unsaved /\ ApplySnapshot(req[s].snap, unsaved)
  /\ crossed' = (crossed \/ (req[s].kind = "settings" /\ unsent))
  /\ req' = [req EXCEPT ![s] = NoRequest]
  /\ UNCHANGED <<daemon, editing, poll, keys, failures, events, fileHistory, blind>>

(* actionMsg with an error asks for the state, and that starts a chain.      *)
ActionError(s) ==
  /\ req[s].msg = "error"
  /\ Settle(s, [req[s] EXCEPT !.msg = "none"])
  /\ failures' = failures + 1
  /\ poll' = [poll EXCEPT ![failures + 2].at = "wait"]
  /\ UNCHANGED <<daemon, viewVars, keys, events, fileHistory, editHistory>>

StateServed(n) ==
  /\ poll[n].at = "wait"
  /\ poll' = [poll EXCEPT ![n] = [at |-> "snapshot", snap |-> daemon]]
  /\ UNCHANGED <<daemon, viewVars, req, keys, failures, events, fileHistory, editHistory>>

StateFails(n) ==
  /\ poll[n].at = "wait"
  /\ events < MaxEvents /\ events' = events + 1
  /\ poll' = [poll EXCEPT ![n].at = "error"]
  /\ UNCHANGED <<daemon, viewVars, req, keys, failures, fileHistory, editHistory>>

(* stateMsg without an error.                                                *)
StateAnswer(n) ==
  /\ poll[n].at = "snapshot"
  /\ ApplySnapshot(poll[n].snap, dirty)
  /\ poll' = [poll EXCEPT ![n] = [NoPoll EXCEPT !.at = "wait"]]
  /\ UNCHANGED <<daemon, editing, dirty, req, keys, failures, events, fileHistory,
                 crossed, blind>>

(* Mutant of StateError: an error ends the chain.                            *)
StateErrorEnds(n) ==
  /\ poll[n].at = "error"
  /\ poll' = [poll EXCEPT ![n].at = "none"]
  /\ UNCHANGED <<daemon, viewVars, req, keys, failures, events, fileHistory, editHistory>>

(* Mutant of StateError: the snapshot, zero in an error, is applied.         *)
StateErrorApplies(n) ==
  /\ poll[n].at = "error"
  /\ ApplySnapshot(Zero, dirty)
  /\ poll' = [poll EXCEPT ![n].at = "wait"]
  /\ UNCHANGED <<daemon, editing, dirty, req, keys, failures, events, fileHistory,
                 crossed, blind>>

StateError(n) ==
  /\ poll[n].at = "error"
  /\ poll' = [poll EXCEPT ![n].at = "wait"]
  /\ UNCHANGED <<daemon, viewVars, req, keys, failures, events, fileHistory, editHistory>>

-----------------------------------------------------------------------------

RequestStep(s) == Handle(s) \/ TakeSnapshot(s) \/ ActionAnswer(s) \/ ActionError(s)

PollStep(n) == StateServed(n) \/ StateAnswer(n) \/ StateError(n)

Next ==
  \/ Key \/ DaemonEvent
  \/ \E s \in Slot : RequestStep(s) \/ GiveUp(s)
  \/ \E n \in Chain : PollStep(n) \/ StateFails(n)

Spec == Init /\ [][Next]_vars

(* The API serves what reached it, Update gets every message, timers expire. *)
(* No key has to be pressed.                                                 *)
Fairness ==
  /\ \A s \in Slot : WF_vars(RequestStep(s))
  /\ \A n \in Chain : WF_vars(PollStep(n))

FairSpec == Spec /\ Fairness

-----------------------------------------------------------------------------
(* The terminal never stops polling, and it has one chain of polls more than *)
(* actions that failed: each failed action starts another that never ends    *)
(* (main.go:243), whatever fails or times out meanwhile.                     *)
PollChains == Cardinality({n \in Chain : poll[n].at # "none"}) = 1 + failures

(* The daemon ends up with the files the user picked, besides those it had   *)
(* at first: at rest its list is the user's, unless a file key was pressed   *)
(* on a list that was not up to date (an older snapshot undid a selection),  *)
(* or while another list was on its way, or a request got lost.  Lists are   *)
(* sent as a whole (main.go:265).                                            *)
SelectionKept == (~raced /\ UnhandledFiles = {}) => daemon.files = wanted

(* An edit of the settings that no w has sent is marked as modified, so no   *)
(* snapshot replaces it, whatever answers arrive, unless it was made while a *)
(* w was on its way whose answer cleared the mark (main.go:246).             *)
UnsentIsDirty == unsent => dirty \/ crossed

(* The daemon's settings are not wiped by a terminal that has not seen them: *)
(* its zero values reach the daemon only if the user edited or wrote before  *)
(* the first snapshot had arrived.                                           *)
NoBlankSettings == daemon.settings.text = Blank => blind

(* Once the user and the daemon are at rest the terminal shows the daemon's  *)
(* state for good, whatever old snapshots were still on their way.           *)
Agrees ==
  /\ [shown EXCEPT !.settings = daemon.settings] = daemon
  /\ dirty \/ editing \/ shown.settings = daemon.settings
ViewConverges == <>[]Agrees

(* The terminal says "enter save, esc cancel" while a setting is edited      *)
(* (main.go:422): the editor is on the screen and has the keys.              *)
EditorHasKeys == editing => page = "settings"

=============================================================================
