# Verification of multi-cast-transfer

TLA+ models of the file-transfer daemon in this repository (`cmd/senderd`, `cmd/tui`,
`internal/*`), TLC runs that check them on small instances, and TLAPS proofs for every
instance. Paths below are relative to the repository; `daemon.go` is
`internal/senderdaemon/daemon.go`, `server.go` is `internal/server/server.go`, `client.go`
is `internal/client/client.go`, `advert.go` is `internal/discovery/advert.go`.

## 1. The system

`senderd` is one process with two halves. The **sender** runs a TLS file server and
multicasts a signed advert; the **listener** receives adverts and downloads from their
senders. Both are started, stopped and configured by HTTP requests over a unix socket; the
**TUI** is the client of that API. Nothing is persisted except the downloaded files.

| Component | State | Operations | Talks to |
| --- | --- | --- | --- |
| Sender life cycle, `daemon.go` | `settings.Sender`, `senderFiles`, `sender{running,lastError,cancel,srv}` | StartSender, StopSender, SetSenderFiles, the sender half of UpdateSettings, Reconcile and Shutdown; runSenderServer, runSenderBroadcast | starts a Server and a broadcast per run; cancels a context, calls Stop |
| Listener life cycle, `daemon.go` | `settings.Listener`, `listener{running,lastError,recent,seen,cancel}` | StartListener, StopListener, the listener half of the others; runListener, isOldAdvert | unbuffered channel from discovery; calls Download |
| File server, `server.go` | `ln`, `stopped`, `connections`, `events` (64 places) | Start, Stop, handleConn, progressWriter.Write; the daemon's consumeSenderEvents and applySenderEvent | events to the daemon; bytes to clients |
| Transfer, `protocol.go`, `client.go` | the connection, `.part` files, the output directory | manifest, decision, stream, rename | TLS connection |
| Discovery, `advert.go` | an advert, a multicast socket | NewAdvert, Verify, Listen, Broadcast | UDP multicast, channel to runListener |
| IPC API, `internal/ipcapi` | none | nine routes, each a daemon method and a Snapshot | daemon |
| TUI, `cmd/tui/main.go` | page, local settings and dirty flag, lists | key handlers, polling, snapshots | IPC API |
| The daemon as a whole, `cmd/senderd/main.go`, `daemon.go` | `settings`, `senderFiles`, both halves | boot: Reconcile, listen, serve; UpdateSettings; a signal: Shutdown, close, drain, unlink | both halves |
| Endpoint, `internal/ipc` | the socket file, which outlives a killed process | Listen (remove, bind), DialContext | file system |
| TLS configuration, `internal/config` | none | load certificates, build configurations | - |

**Where it is hard.** `net/http` serves each request on a goroutine of its own, so two
requests interleave at every point where the daemon drops `d.mu`: between the check and the
installation in startSender and startListener, between taking `cancel` and calling it. A run
(one successful start) has goroutines of its own that report back under the same lock when
they end, perhaps after the next run has begun. Start publishes `s.ln` without a lock.
Events go through a bounded channel whose only reader leaves when the context is cancelled.
Files change, connections break and clients die during a transfer. Adverts are lost,
repeated and reordered. `PROJECT.json` lists these hazards line by line.

**What makes each part correct.**

* *Sender*: what `Snapshot` shows as running is alive; a run is stopped by one request; a run
  that ends does not disturb its successor, and its error is not shown as the successor's; a
  run that ends by itself leaves an error; a broadcast that fails takes the server with it.
* *Listener*: no advert is downloaded twice; a run can be stopped as long as it lives; a
  cancelled run winds up; the log says what happened.
* *Server*: a connection is shown as accepted, then progressing, then finished; its result
  is never lost; Stop reaches every connection; Start and the handlers end.
* *Transfer*: the output directory only ever has whole files, with the sender's content; both
  sides stay in step and neither waits for ever; two downloads that overlap in one directory
  repair what they do to each other.
* *Daemon*: at rest, what is enabled runs or has left an error and what is not does not run; a
  process that is alone on its endpoint can be reached; a signal ends it with nothing running.
* *Discovery*: an advert that verifies is tried unless something newer was; none is accepted
  outside its two minutes.
* *TUI*: edits and file selections reach the daemon; what is shown is, in the end, the
  daemon's state; polling goes on.

## 2. Modules

| Module | Models | State to code |
| --- | --- | --- |
| `SenderDaemon` | sender half of `daemon.go`, start and stop of `server.go`, end of Broadcast | `running`, `cur`, `lastError`: `d.sender`; `pc`, `held`, `resume`, `capAddr`: program point and locals of a request; `ctx`, `start`, `ln`, `stopped`, `bcast`: one run |
| `ListenerDaemon` | listener half of `daemon.go`, reader goroutine of `advert.go` | `running`, `cur`, `recent`, `seen`: `d.listener`; `run`, `ad`: runListener; `reader`, `offer`: the goroutine of Listen |
| `Server` | `server.go` and the event consumer in `daemon.go` | `start`, `ln`, `stopped`, `conns`: Start and Server; `handler`, `sent`, `sock`: handleConn; `queue`: `s.events`; `consumer`, `hand`, `view`: consumeSenderEvents and `d.sender.connections` |
| `Component` | what the daemon promises of either half, as an abstract specification | `shown`: the run in `d.sender` or `d.listener`; `loading`: starts between check and installation; `doomed`: runs a stop has taken off and not cancelled yet; `down`: runs cancelled or over |
| `Daemon` | `main.go`, both halves under UpdateSettings, Reconcile and Shutdown, `internal/ipc`, kills and restarts | `phase`: main; `todo`: the calls main and each request have still to make; `enabled`, `running`, `lastError`, `haveFiles`: `Daemon`; `path`: the process whose socket has the endpoint's name |
| `Transfer` | handleConn, `protocol.go`, Download | `server`, `si`, `entries`, `sj`, `sent`: handleConn; `client`, `cj`: Download; `dest`, `part`: the output directory; `toServer`, `toClient`: the connection |
| `Delivery` | what a transfer promises, without the protocol, as an abstract specification | `promise`: the manifest; `settled`: how many of its entries are there; `src`, `dest`: the directories |
| `Downloads` | Download of one path by overlapping listener runs, down to inodes | `part`, `dest`: the files with the two names; `data`: what files contain; `file`, `offset`: the open file of each download |
| `Discovery` | `advert.go` in time, isOldAdvert and the loop around it | `ts`, `bcast`: an advert and its Broadcast; `net`: the multicast group; `reader`, `offer`: the goroutine of Listen; `loop`, `ad`, `seen`: runListener |
| `Tui` | `cmd/tui/main.go`, `internal/ipcapi` | `page`, `editing`, `detail`, `shown`, `dirty`: `model`; `req`: commands of keys and their requests; `poll`: chains of State requests and ticks; `daemon`: what a snapshot would show |
| `MCSenderDaemon`, `MCListenerDaemon`, `MCDaemon`, `MCTransfer`, `MCDownloads`, `MCDiscovery`, `MCTui` | values of the constants for TLC | |
| `SenderDaemonProofs`, `ListenerDaemonProofs`, `DaemonProofs`, `ServerProofs`, `TransferProofs`, `DownloadsProofs`, `DiscoveryProofs`, `TuiProofs` | theorems about the module each is named after | |

**Composition.** `SenderDaemon` and `ListenerDaemon` each have one half in full: requests, runs
and their goroutines. Both implement `Component`, and `Daemon` composes the halves at that
level: a half is its running flag, taken off by a stop or by a run that ends, set by an
installation that follows a check. The server that `SenderDaemon` starts and stops is in
`Server` with its connections; what one of its handlers says to one client is in `Transfer`,
which implements `Delivery`; several deliveries into one directory meet in `Downloads`.

**Refinement.** In `SenderDaemon` a run is *down* once its context is cancelled, because a stop,
a failed broadcast and the end of the server all go through that; in `ListenerDaemon` a run is
down when it is cancelled or over. `doomed` is what a stopping request holds and
has not cancelled. The two instances differ in one constant, `OwnOnly`: a sender run that ends
takes only itself off (markSenderStopped compares), a listener run also its successor. In
`Transfer` the promise is the manifest once the client has read it, and an entry is settled
when the client goes on to the next.

**Granularity.** A critical section under `d.mu` or `s.mu`, a channel operation, and a call
that other goroutines can observe (cancel, Stop, closing a socket, a step of a file
transfer) is one action. Code between two of those touches only locals and is part of the
action before or after it. What a function carries in locals across an unlock is a variable
of the caller.

**Abstractions.** `cancel` and `srv` of `d.sender` are always assigned together and are one
variable. A loss of an unsynchronised write (`s.ln`) is the same as reading before the write;
a read of half an interface value, which the race allows in principle, is not modelled.
In `SenderDaemon` `lastError` is whose error it is: a run's, a request's, or that of a connection whose
run was already cancelled (`LateError`). Each run's consumer writes the errors of its connections
there (`ApplyError`, `daemon.go:312`), in one step: an event taken long before it is recorded is as good
as one taken just then, since the select may take an event after the context is cancelled, and that
the consumer leaves shows in nothing but what it no longer does. So `ApplyError` stays possible as long
as there may be a consumer, which is until Start is known to be blocked on the full channel. Which
files are selected is left open there: any start may find none. Addresses, advert IDs and timestamps are
members of small sets. In `Server` what a handler reads and writes is one step per progress
event and one for the end; a failed write may report progress too (`WriteFails`). In `Transfer` a hash is the content itself (no collisions) and
the connection is a reliable byte stream until it breaks; one session at a time uses the
output directory (`Downloads` has the others, where the check of the hash reads the file as a
whole, and a write beyond the end of a truncated file leaves a gap; empty files are left out there,
because a file just truncated could not be told from one); two files of a list whose names differ only in
a trailing `.part`, so that one is written under the temporary name of the other, are left out; a file that changes while it is open may be read as it was, as it is, or
as a mixture. In `Discovery` an advert is the run that made it, signatures of the senders' adverts
verify, time is a counter, and a packet that was sent may arrive at any later time, again or
never. In `Tui` the text settings are one value (zero, the daemon's own, or one per edit), the
file list is a set, the daemon has some files (`Found`) when the terminal starts and both halves off, the
last connection that the consumer of an ended sender may add is left out, a request changes the daemon in one step and takes its snapshot in another,
and the components' inner steps are those of the daemon modules; normalizeSettings is left out,
so the zero value stands for settings that it has filled in where it does. The toggle of a
setting is modelled as `main.go:205` writes it; in the Bubble Tea release of `go.mod` the space
key is named `" "`, so the branch may never be taken there. In `Daemon` a half is its running flag and one bit for its error; a failed download, which
sets the listener's error and leaves it running, and errors of system calls other than a taken
endpoint are left out; a killed process loses its memory and leaves its socket.

`MaxRuns`, `MaxProcs`, `Budgets`, `MaxConns`, `MaxProgress`, `MaxEdits`, `MaxSessions`, `MaxTime`, `MaxJoins`, `MaxKeys`,
`MaxFailures`, `MaxEvents` and `Slot` bound behaviours, `QueueCap` and `RecentCap` are capacities that are 64 in the code.

## 3. Runs

Passing runs:

* `sender` (`SenderDaemon.cfg`): two requests in flight, one address, two runs. Two callers
  make every pair of operations overlap, two runs make old and new meet, one address makes
  them compete for the port. `LiveRunIsReachable` says exactly when a sender is lost: only
  if a second startSender passed its check before the first had installed its run.
  `ErrorIsOwn` names the four ways in which an old run's error comes to be shown beside a new run: the
  old one was taken while it was failing; it was displaced; its server and its broadcast both
  failed; or the error is that of a connection, which its consumer recorded after the run was
  cancelled. Each way is needed: without any one of them TLC finds a counterexample. `IsComponent` is the refinement of `Component`.
  `BroadcastFailureEndsRun` is a liveness property with two exceptions, both real: a request
  took the run over, or Start is blocked on the event channel.
* `listener` (`ListenerDaemon.cfg`): two requests, two runs, one advert ID with two
  timestamps (new, repeated, out of order), a log of two entries so that it overflows.
  `LoneRunIsReachable` holds for runs that were alone; `listener_disabled` shows what
  happens to the others. `IsComponent` is the refinement of `Component`.
* `daemon` (`Daemon.cfg`): two clients, and one of two budgets: one process with three requests
  and one run that ends by itself (an update, what changes under it, and what follows), or two
  processes, one after the other or both at once, with one request. Every process may be killed
  at every step. `SettledAgrees` speaks of processes at rest and excepts requests that overlapped
  since the last update made alone; that update repairs both halves even when it returns an
  error. It also says that a process whose flags could not be applied (`-sender-enabled`, as
  there are no files at boot) never serves. `LoneProcessIsReachable` is about the socket file;
  for processes that overlap it is false, they unlink each other's. `SignalEndsProcess` excepts
  requests in flight at the signal or between it and the end of Shutdown, which can start a
  half again. Deadlock is not checked: a process that was killed, with the budget used up, is
  the end of a behaviour.
* `server` (`Server.cfg`): two connections, one progress event each, a channel with one
  place: every send meets a full channel, with the consumer present and gone. Deadlock is
  not checked: a stopped server has nothing more to do.
* `transfer` (`Transfer.cfg`): two files and a directory at the end of the list, contents of
  zero to two bytes of which two have a common byte, one change of a source file at any
  moment, two sessions (the second on what the first left), a break or client failure at
  any step. `IsDelivery` is the refinement of `Delivery`: whole files of the promised size, of
  the promised content unless files changed meanwhile, each delivered only if it is not there yet, nothing left over from an older `.part`
  file, and complete when the session ends well. Deadlock is not checked, because sessions are
  bounded; `SessionEnds` says that neither side waits for ever.
* `downloads` (`Downloads.cfg`): a stopped listener and its successor, two contents of different
  length for one path, four downloads: two that collide, one that breaks off, one that finds what
  the others left. `TornOnlyBySharing` says when the name of the finished file can have a torn
  one: only if two downloads shared the `.part` file, and, if they were promised the same
  content, only while the last one to truncate it is still writing or after it broke off.
  `NothingIsLost` says that a rename that finds nothing was forestalled by one that placed the
  same file. Deadlock is not checked: downloads are bounded.

* `discovery` (`Discovery.cfg`): two sender runs, of one daemon or two with one ID or two, two
  starts of the listener, a skew of one second and three instants, so that an advert can be in
  time, on the edge and too old, and the listener's clock right, one second ahead or two behind, so
  that an advert can also be from a future that is rejected until time has passed.
  `HeardIsTried` names the only reasons why an advert that verified is not downloaded: another
  of that ID with the same or a later timestamp was (a restart within a second, or two daemons
  with the default ID), or the listener was stopped. `LateListenerHearsNothing` is how long a
  sender can be found: two minutes after its start, although it multicasts for ever. Deadlock
  is not checked: time and starts are bounded.
* `tui` (`Tui.cfg`): three keys that do something, two requests in flight, one failed request,
  one event in the daemon, which has no files at first (the theorems are for any). Three keys are enough for an edit, a w and an edit that crosses its
  answer, and for two file lists on their way at once; a failure makes the second chain of
  polls. Each invariant states exactly when the hazard behind it bites: `SelectionKept` a
  selection that is undone, `UnsentIsDirty` an edit lost to the answer of an earlier w,
  `NoBlankSettings` settings wiped by a terminal that has not seen them, `PollChains` the polls
  that failures leave behind.

Runs that show a disagreement between the code and what it says of itself:

* `listener_disabled`: one caller is enough. The listener is stopped while its run cannot look at
  its context (at its very start in TLC's trace, or during a download), started again, and the
  first run then ends: markListenerStopped clears the second run's
  `cancel` (it compares nothing, unlike markSenderStopped). Disabling the listener then does
  nothing, against `daemon.go:66` "Reconcile applies settings enabled flags to running
  components."
* `server_stop`: Stop before `s.ln` is assigned (`server.go:74`, `server.go:110`); Start
  never returns, against `server.go:68`. `StartReturnsOrBlocks` in `server` says that this
  and the full channel are the only two ways.
* `transfer_dir`: with a directory in front of the files, `files[i]` (`server.go:163`) is not
  the file of `entries[i]`. The counterexample ends with a download that reports success and
  has the first bytes of one file under the name of another.
* `tui_editor`: four keys. The user opens a connection, goes to the settings and edits; the
  sender is started again; the next snapshot has no such connection, and the user is on another
  page with the editor still open, against `main.go:422`.

**Fairness.** Weak fairness of every goroutine that can go on: the Go scheduler runs
runnable goroutines, and a closed socket or cancelled context wakes whoever waits on it. In
`ListenerDaemon`, strong fairness of the `ctx.Done` case of a select: Go chooses at random
among ready cases. No fairness for what the environment may never do: requests, packets,
quiet periods, clients that connect or answer, downloads that end, files that change, keys, failures, time. In `Daemon` every call of main and
of a request that can go on does, and nobody has to boot, signal or kill a process. `Component`
asks that what a stop took off is cancelled, `Delivery` that a session which began ends; the
fairness of the detailed modules implies both. In `Tui` the
API serves what reached it and Bubble Tea delivers every message. In `Transfer` both processes run, so neither peer is silent for ever; the code has no deadlines
and would wait for one that is.

## 4. Proofs

Every safety property of the passing runs is a theorem (`InStep` with a hypothesis on the list), and
so are the safety parts of the three refinements. The theorems hold for all values of the constants that the modules' assumptions allow
(finite sets, positive capacities, contents that are sequences) and for any bounds. In each module
the type invariant comes first, with what it needs to be inductive; the invariant of a property is
then proved over it. Each was checked with TLC on the instance of its run before it was proved. An
invariant is a conjunction of named parts, and a proof has a lemma for each handler or for steps
that leave the part alone.

**Sender.** `SenderDaemonProofs` proves, for any finite set of callers, any addresses and any `MaxRuns`
(`SenderAssumption`), that `SenderDaemon`'s five invariants hold: `SenderTypeCorrect`,
`SenderNeverShowsDead`, `SenderLiveRunIsReachable`, `SenderNoSilentEnd` and `SenderErrorIsOwn`;
and `SenderStoppedOnce`, that no run is held by two stops, which no run checks by itself.
None is inductive. The invariant `IInv` adds

* `RunsInOrder`: a run not started yet has left no trace, so the next run installed is not
  in `taken`, `displaced` or `held`;
* `CurIsNewest`: `d.sender` names the newest run or none, never one taken or ended;
* `HeldIsTaken`: what a stopSender holds it took itself, and alone;
* `EndIsCancelled`: `stopped`, the last steps of a run and the second half of a stop come
  after the cancellation of its context, so clearing `held` or `cur` loses no live run;
* `ErrorComesFirst`: the newest run, unless a request took it, is not cancelled before its
  error is recorded. This is the order of setSenderError and cancel in runSenderServer and
  runSenderBroadcast, and it is what `NoSilentEnd` rests on.

`SenderErrorIsOwn` rests on a second invariant over the first, `EInv`
(`SpecKeepsErrorInvariant`): `CancelHasReason`, a context is cancelled by a request that took the
run, by its broadcast at its end or by its server at its end; and `ErrorsInFlight`, an error that
a server or a broadcast is about to store is that of the run on show, or of one that was taken or
displaced, or of one whose server failed too. A connection's error needs no more: a run that is not
cancelled is on show, taken or displaced (`LiveRunIsReachable`), and the error of one that is cancelled
is a `LateError`.

`IInv` and `EInv` were checked with TLC on the instance of `sender` before they were proved. The proof has a
lemma for startSender's and for stopSender's critical section, which requests and reconciles
share, one for requests, one for the goroutines of a run, and a step per action.

**Listener.** `ListenerDaemonProofs` proves, for any finite set of callers, any adverts, any length of the log
and any `MaxRuns` (`ListenerAssumption`), `ListenerTypeCorrect` (the log stays within its length),
`ListenerNoRepeatedDownload`, `ListenerLoneRunIsReachable` and `ListenerRecentAgreesWithRuns`. Two
invariants carry them:

* `SeenIsLatest`: `seen` has the greatest timestamp tried. isOldAdvert compares with `seen`
  alone, so without this a new timestamp could be older than one tried before;
* `LifeInv`, in four parts. `RunsInOrder`: a run not started yet does nothing. `HoldersAgree`:
  `running` and the cancel function go together, and a request holds one exactly while it is
  about to call it, so a stop overwrites no cancel function that a request has still
  to call. `LoneRunIsAlone`: two runs that are both going on are both in `crowded`. So
  when markListenerStopped clears `d.listener` without a look at whose it is, a run that was
  alone is not in it unless it is the one that ends. `LoneRunIsReachable` is the fourth.

`RecentAgreesWithRuns` needs of these only `RunsInOrder` (the run that startListener installs was
idle, so no entry of it can say connecting); `LogShape` says that addListenerEvent puts the new entry
first and moves the others down, and cutting the log takes off the oldest.

**Server.** `ServerProofs`: `ServerTypeCorrect`, `ServerAtMostOneEscapes` (Stop),
`ServerViewOnlyAdvances` (the connection list) and `ServerKeepsResults` (a result is never lost on its
way to the list), for any number of connections and progress events and any capacity of the channel.

* `StopInv` carries the first. Stop closes what is in `conns`, so the invariant says where an open
  connection can be when it is not there: only in the hands of Start, between Accept and
  registration (`StopReaches`), and only one can be, since connections are accepted in order
  (`AcceptedInOrder`) and none after the listening socket is closed (`LineFollowsStart`).
* `EventsInv` carries the second. An event is applied long after it was sent, so the invariant speaks of
  all events under way, the one in the consumer's hand before those in the channel (`Stream`): those
  of one connection are in order (`EventsInOrder`), are ahead of what is shown and behind what the
  handler has done (`EventsFit`), and a connection that is served is shown as accepted or will be
  (`ViewFits`).
* `ResultIsKept` is inductive over `EventsInv`: a handler past its last event has left a result in
  the list or in `Stream`. It is the safety half of `ResultIsShown`, which adds that the consumer runs.

**Transfer.** `TransferProofs`, for any files, contents, list, number of changes and of sessions.
Without a hypothesis: `TransferTypeCorrect`; `TransferManifestFits`, that the manifest is the list's
regular files in order, with the files' contents if none changes; `TransferBytesInStep`, that both
sides agree on which byte belongs to which entry; `TransferNeverBothWait`, that client and server never wait
for each other at once; `TransferEndsTogether`, that the side that ends well first has read all it
will be sent, or has sent all the other needs; and `TransferWritesWhole`, that the output
directory only gets whole files of the announced sizes. So the wrong file that the server opens for
some lists (`transfer_dir`) brings wrong bytes, never the protocol out of step. The invariant is
`StepInv`:

* `WorkFits`, `ManifestFits`: who works on an entry has one, and the manifest is read once, when it is
  complete;
* `NothingSpare`: what the client has of a file and what is on the wire are at most the announced size;
* `Positions`: the client is ahead of the server by exactly the decisions on the wire, each of which
  is the one the client made for its entry, and what was carried of an entry is what the server has
  sent of it. An empty file is the hard case: the client renames it before the server has read the
  decision, so the server may be at work on an entry that the client has left (`Asked`).

Three theorems have the hypothesis `DirsLast`, that no directory comes before a file in the list:
`TransferInStep`, `TransferSessionDelivers` and `TransferImplementsDelivery`. It is needed: for other
lists the server opens another file than it announced, as `transfer_dir` shows, and a read error may
then end a session in which no file is missing. So within the model, which has no two names of a list
collide on a `.part` name, this finding is the only way to break the promise. Under it `PathsFit` holds, `files[i]` is `entries[i]`; then, as long as
no file changes, what is open is what was announced (`OpenedFits`), a session ends in an error at the
server only for a missing file (`MissingEnds`), what arrived and what is on the wire are the announced
bytes at their places (`ContentFits`), and what the client has passed is there (`SettledFits`).

**Downloads.** `DownloadsProofs`: `DownloadsTypeCorrect`, `DownloadsNothingIsLost` and
`DownloadsTornOnlyBySharing`, for any number of overlapping downloads. `FilesInv` follows a file
through its two names: a file in use is named `.part` or was placed by a rename (`KeptOrPlaced`, which
is what `NothingIsLost` rests on); a file that one download truncated and no other shared has what that
download wrote, and is whole and at rest when it has lost the name `.part` (`UnsharedIsSound`); a
shared file is right as far as the last download that truncated it has come, if all were promised the
same (`SameIsRepaired`).

**Daemon.** `DaemonProofs`: `DaemonTypeCorrect`, `DaemonLoneProcessIsReachable`,
`DaemonSettledAgrees` and `DaemonNothingRunsOn` (a shutdown leaves neither half running, unless a
request was in flight at the signal or came after it), for any number of processes, clients, requests
and runs that end.

* `PlanInv`: the calls that a goroutine has still to make come in one order (`ListsSorted`) and fit
  the phase of its process (`PlansFit`), so nobody removes or binds the endpoint after the boot.
* `ReachInv`: a process that has removed the socket file has only to bind it, and finds the name free
  if it met no other process (`RemovedIsFree`); two that live have met (`LivingHaveMet`); one whose
  reconcile failed never serves (`FailedOnlyInBoot`).
* `WorkFits`: as long as no requests overlapped since the last lone update, one goroutine at most works on
  the halves; each half agrees with the settings or is still to be dealt with by a call of that
  goroutine; and a call to be made fits the settings, unless they are read again after it.
* `EndFits`: once a signal has come and no request with it or after it, main alone works on the
  process, and a half that runs has its stop still on main's list. `NothingRunsOn` is the safety half of
  `SignalEndsProcess`, which adds that the process does end.

**Discovery.** `DiscoveryProofs`: `DiscoveryTypeCorrect`, `DiscoveryHeardIsTried` and
`DiscoveryLateListenerHearsNothing`, for any senders, IDs, clock offset, skew and number of starts, whatever the
network loses, repeats and delays. `SeenWasTried` says that the timestamp under an ID in `seen`
is that of an advert that was tried, so an advert refused as old has a reason to show;
`HeldWasFresh` that an advert in the listener's hands was fresh when this listener began, which
keeps the bound on how long a sender can be found through the channel and the checks.

**TUI.** `TuiProofs`: `TuiTypeCorrect`, `TuiPollChains`, `TuiSelectionKept`, `TuiUnsentIsDirty` and
`TuiNoBlankSettings`, for any number of keys, requests in flight and failures. `UnsentIsDirty` is
inductive with the types. The others need `RequestsFit` (the API is done with what it has answered),
`ChainsRun` (chains of polls are as many as failures and one), `SelectionSent` (until a selection is
lost, one list of files at most is unhandled, and the last one sent is the user's) and `NowhereBlank` (until
a terminal writes blindly, no request, snapshot or synced view has zero settings).

**Refinement.** `SenderImplementsComponent` and `ListenerImplementsComponent` show that initial
states and steps of the two halves are initial states and steps (or stutters) of `Component`
under the mapping of §2, from `IInv` and from `LifeInv`. The invariants are needed because
`Component` knows more than a guard says: a check that finds `running` unset has found no run
on show, a stop's `held` is a run, and a run that ends was started. `LoadingCounts`
says how the number of starts under way changes when a request moves on.

`TransferImplementsDelivery` does the same for `Transfer` and `Delivery`, action by action. Every step
of the server and every break is a stutter, because the manifest no longer changes once it is read;
reading it is `Announce`, by `EntriesFit` and `QuietFits`; a decision to skip is `Keep`; a rename is
`Deliver`, where `NothingSpare` gives the size, `ContentFits` the content, and `DueIsMissing` that the
file was not there; the rest is `Complete`,
`Fail` or a stutter.

Only model-checked: all liveness properties (`BroadcastFailureEndsRun`, `CancelledRunWindsUp`,
`ResultIsShown`, `HandlersEnd`, `StartReturnsOrBlocks`, `SessionEnds`, `ViewConverges`, `OfferIsTaken`,
`SignalEndsProcess`) and the fairness of the three refinements, which are out of the prover's reach. What can go wrong in
a single step of three of them is proved: `ServerKeepsResults` of `ResultIsShown`,
`TransferNeverBothWait` of `SessionEnds` and `DaemonNothingRunsOn` of `SignalEndsProcess`.
The properties of the runs that end in a violation are false, and `SessionDelivers` is false without
`DirsLast`.

## 5. Plan

1. Proofs: that `Daemon`'s halves take the steps of `Component`, with its running flag for the run on
   show. `Daemon` does not number the runs, so this needs a history variable that counts them.
2. Two runs' event consumers on one connection list (`daemon.go:291`): the code lets the old
   consumer's last event into the new run's list, so only the extent can be stated. For the errors
   that those events carry `ErrorIsOwn` states it.

## 6. Not modelled

* `internal/config`: construction of `tls.Config` values and loading of files, no state. Its
  failures are outcomes of `StartFails`.
* The signature scheme of adverts (`advert.go:209-244`) and certificates: functions of the crypto
  library over strings of bytes. `Discovery` assumes that the adverts of the senders verify. For
  ECDSA keys that is not always so (see the hazard at line 218).
* Addresses: an advert's callback is the sender's listen address as configured. That a
  listener on another host cannot dial `":8443"` is a hazard in `PROJECT.json` without a model.
* `relativePath`, the JSON and length header of a manifest, creation of directories; two
  paths that differ only in a leading separator are one path to the client.
* The TUI's drawing, cursors and file picker; `internal/ipc` on Windows, which returns an error.
* Socket deadlines: the code sets none for transfers, and the models assume that both
  processes run.
