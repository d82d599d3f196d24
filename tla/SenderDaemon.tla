---------------------------- MODULE SenderDaemon ----------------------------
(***************************************************************************)
(* The sender half of internal/senderdaemon/daemon.go: how concurrent IPC  *)
(* requests start, stop and reconfigure the sender, and how the goroutines *)
(* of each sender run (its TLS server and its multicast broadcast) report  *)
(* back to the daemon when they end.                                       *)
(*                                                                         *)
(* Every critical section under d.mu is one action.  What a function keeps *)
(* in local variables between two critical sections (the address it read,  *)
(* the cancel function and the server it took) is state of the caller, so  *)
(* every interleaving of requests and goroutines at those points is here.  *)
(*                                                                         *)
(* A run is one successful startSender: its context, its *server.Server    *)
(* and its three goroutines, of which the consumer writes the errors of    *)
(* the run's connections into lastError.  d.sender.cancel and d.sender.srv *)
(* always belong to the same run (they are assigned and cleared together), *)
(* so cur stands for both.  The connections themselves, the channel and    *)
(* the other events are in Server.tla.  Which files are selected is        *)
(* abstracted: any start may find none (Daemon.tla has SetSenderFiles).    *)
(***************************************************************************)
EXTENDS Naturals, FiniteSets

CONSTANTS
  Caller,    \* goroutines that serve IPC requests (net/http runs one per request)
  Addr,      \* the listen addresses that settings can carry
  MaxRuns    \* bound: how many sender runs one behaviour may start

ASSUME SenderAssumption ==
  /\ Caller # {} /\ IsFiniteSet(Caller)
  /\ Addr # {}
  /\ MaxRuns \in Nat

Run   == 1 .. MaxRuns
NoRun == 0

(* Whose error d.sender.lastError is: of a request, of a run, or of a        *)
(* connection of a run whose context was cancelled when it was recorded.     *)
NoError      == NoRun
RequestError == MaxRuns + 1
LateError    == MaxRuns + 2
Error        == Run \cup {NoError, RequestError, LateError}

VARIABLES
  enabled,    \* d.settings.Sender.Enabled
  addr,       \* d.settings.Sender.Addr
  running,    \* d.sender.running
  cur,        \* the run of d.sender.cancel and d.sender.srv, NoRun for nil
  lastError,  \* d.sender.lastError, known by whose error it is
  pc,         \* where each request is
  held,       \* the run whose cancel and srv a stopSender took out of d.sender
  resume,     \* stopSender was called by UpdateSettings, which reconciles next
  capAddr,    \* the address a startSender read under its first lock
  last,       \* the newest run, NoRun before the first
  addrOf,     \* the address a run listens on
  ctx,        \* the run's context is cancelled
  start,      \* where runSenderServer and Server.Start are
  ln,         \* the run's listening socket: nil, bound (listening, s.ln not yet
              \* assigned), open (s.ln assigned) or closed
  stopped,    \* the channel s.stopped is closed
  bcast,      \* where runSenderBroadcast is
  taken,      \* history: runs that an API call took out of d.sender to stop them
  displaced,  \* history: runs that were in d.sender when another was installed
  bothFailed  \* history: runs whose server and broadcast failed each before it
              \* could know of the other's failure

settingsVars == <<enabled, addr>>
senderVars   == <<running, cur, lastError>>
callVars     == <<pc, held, resume, capAddr>>
runVars      == <<last, addrOf, ctx, start, ln, stopped, bcast>>
historyVars  == <<taken, displaced, bothFailed>>
vars == <<settingsVars, senderVars, callVars, runVars, historyVars>>

CallPC  == {"idle", "start", "load", "stop", "restart", "stopCancel",
            "stopServer", "reconcile"}
StartPC == {"idle", "listen", "publish", "accept", "stuck", "check", "setError",
            "cancel", "mark", "done"}
BcastPC == {"idle", "run", "setError", "cancel", "done"}

TypeOK ==
  /\ enabled \in BOOLEAN /\ addr \in Addr
  /\ running \in BOOLEAN /\ cur \in Run \cup {NoRun} /\ lastError \in Error
  /\ pc \in [Caller -> CallPC]
  /\ held \in [Caller -> Run \cup {NoRun}]
  /\ resume \in [Caller -> BOOLEAN]
  /\ capAddr \in [Caller -> Addr]
  /\ last \in Run \cup {NoRun}
  /\ addrOf \in [Run -> Addr]
  /\ ctx \in [Run -> BOOLEAN]
  /\ start \in [Run -> StartPC]
  /\ ln \in [Run -> {"nil", "bound", "open", "closed"}]
  /\ stopped \in [Run -> BOOLEAN]
  /\ bcast \in [Run -> BcastPC]
  /\ taken \in SUBSET Run /\ displaced \in SUBSET Run
  /\ bothFailed \in SUBSET Run

(* The daemon once it serves IPC.  A sender enabled at boot has no files and *)
(* stops cmd/senderd before that (Daemon.tla), so the sender is disabled.    *)
Init ==
  /\ enabled = FALSE /\ addr \in Addr
  /\ running = FALSE /\ cur = NoRun /\ lastError = NoError
  /\ pc = [c \in Caller |-> "idle"]
  /\ held = [c \in Caller |-> NoRun]
  /\ resume = [c \in Caller |-> FALSE]
  /\ capAddr = [c \in Caller |-> addr]
  /\ last = NoRun
  /\ addrOf = [r \in Run |-> addr]
  /\ ctx = [r \in Run |-> FALSE]
  /\ start = [r \in Run |-> "idle"]
  /\ ln = [r \in Run |-> "nil"]
  /\ stopped = [r \in Run |-> FALSE]
  /\ bcast = [r \in Run |-> "idle"]
  /\ taken = {} /\ displaced = {} /\ bothFailed = {}

-----------------------------------------------------------------------------
(* Requests.  RoomForRun keeps a behaviour within MaxRuns: each request in   *)
(* progress can install at most one run.                                     *)

RoomForRun == last + Cardinality({c \in Caller : pc[c] # "idle"}) < MaxRuns

Goto(c, label) == pc' = [pc EXCEPT ![c] = label]

(* The first critical section of startSender, lines 186-205.                 *)
StartCheck(c, updateEnabled) ==
  /\ enabled' = (enabled \/ updateEnabled)
  /\ \/ running /\ Goto(c, "idle") /\ UNCHANGED capAddr
     \/ /\ ~running
        /\ capAddr' = [capAddr EXCEPT ![c] = addr]
        /\ Goto(c, "load")
  /\ UNCHANGED <<addr, senderVars, held, resume, runVars, historyVars>>

StartSender(c) ==
  /\ pc[c] = "idle" /\ RoomForRun
  /\ StartCheck(c, TRUE)

ReconcileStart(c) ==
  /\ pc[c] = "start"
  /\ StartCheck(c, FALSE)

(* No files, or certificates or an advert that cannot be built: the error is *)
(* recorded under the lock and Enabled keeps the value it was given.         *)
StartFails(c) ==
  /\ pc[c] = "load"
  /\ lastError' = RequestError
  /\ Goto(c, "idle")
  /\ UNCHANGED <<settingsVars, running, cur, held, resume, capAddr, runVars, historyVars>>

(* The second critical section of startSender and the goroutines it starts.  *)
(* running is not read again: another startSender may have installed a run.  *)
Install(c) ==
  /\ pc[c] = "load" /\ last < MaxRuns
  /\ LET r == last + 1 IN
     /\ last' = r /\ cur' = r
     /\ addrOf' = [addrOf EXCEPT ![r] = capAddr[c]]
     /\ start' = [start EXCEPT ![r] = "listen"]
     /\ bcast' = [bcast EXCEPT ![r] = "run"]
  /\ running' = TRUE /\ lastError' = NoError
  /\ displaced' = displaced \cup ({cur} \ {NoRun})
  /\ Goto(c, "idle")
  /\ UNCHANGED <<settingsVars, held, resume, capAddr, ctx, ln, stopped, taken, bothFailed>>

AfterStop(c) == IF resume[c] THEN "reconcile" ELSE "idle"

(* Mutant of StopCheck: the early return for a sender that is not running is *)
(* missing.                                                                  *)
StopCheckAlways(c, updateEnabled) ==
  /\ enabled' = (enabled /\ ~updateEnabled)
  /\ running' = FALSE /\ cur' = NoRun
  /\ held' = [held EXCEPT ![c] = cur]
  /\ taken' = taken \cup {cur}
  /\ Goto(c, "stopCancel")
  /\ UNCHANGED <<addr, lastError, resume, capAddr, runVars, displaced,
                 bothFailed>>

(* Mutant of StopCheck: cancel and srv stay in d.sender while they are used. *)
StopCheckKeeps(c, updateEnabled) ==
  /\ enabled' = (enabled /\ ~updateEnabled)
  /\ \/ /\ running
        /\ held' = [held EXCEPT ![c] = cur]
        /\ taken' = taken \cup {cur}
        /\ Goto(c, "stopCancel")
     \/ ~running /\ Goto(c, AfterStop(c)) /\ UNCHANGED <<held, taken>>
  /\ UNCHANGED <<addr, senderVars, resume, capAddr, runVars, displaced,
                 bothFailed>>

(* The critical section of stopSender, lines 245-259.                        *)
StopCheck(c, updateEnabled) ==
  /\ enabled' = (enabled /\ ~updateEnabled)
  /\ running' = FALSE /\ cur' = NoRun
  /\ \/ /\ running
        /\ held' = [held EXCEPT ![c] = cur]
        /\ taken' = taken \cup {cur}
        /\ Goto(c, "stopCancel")
     \/ ~running /\ Goto(c, AfterStop(c)) /\ UNCHANGED <<held, taken>>
  /\ UNCHANGED <<addr, lastError, resume, capAddr, runVars, displaced,
                 bothFailed>>

StopSender(c) ==
  /\ pc[c] = "idle"
  /\ StopCheck(c, TRUE)

ReconcileStop(c) ==
  /\ pc[c] \in {"stop", "restart"}
  /\ StopCheck(c, FALSE)

StopCancel(c) ==
  /\ pc[c] = "stopCancel"
  /\ ctx' = [ctx EXCEPT ![held[c]] = TRUE]
  /\ Goto(c, "stopServer")
  /\ UNCHANGED <<settingsVars, senderVars, held, resume, capAddr, last, addrOf, start,
                 ln, stopped, bcast, historyVars>>

(* Mutant of ServerStop: the socket is left open.                            *)
ServerStopKeepsSocket(r) ==
  stopped' = [stopped EXCEPT ![r] = TRUE] /\ UNCHANGED ln

(* Server.Stop: only the first call has an effect, and it closes the socket  *)
(* only if Start has assigned s.ln.  That assignment takes no lock, so a     *)
(* Stop from another goroutine may also miss one that was just made; that is *)
(* the same as the Stop coming first.                                        *)
ServerStop(r) ==
  /\ stopped' = [stopped EXCEPT ![r] = TRUE]
  /\ ln' = [ln EXCEPT ![r] = IF ~stopped[r] /\ @ = "open" THEN "closed" ELSE @]

StopServer(c) ==
  /\ pc[c] = "stopServer"
  /\ ServerStop(held[c])
  /\ held' = [held EXCEPT ![c] = NoRun]
  /\ Goto(c, AfterStop(c))
  /\ UNCHANGED <<settingsVars, senderVars, resume, capAddr, last, addrOf, ctx, start,
                 bcast, historyVars>>

(* UpdateSettings: store the settings and note whether a sender was running, *)
(* stop it if so, then Reconcile.  This is the sender's part of each step.   *)
UpdateSettings(c) ==
  /\ pc[c] = "idle" /\ RoomForRun
  /\ enabled' \in BOOLEAN /\ addr' \in Addr
  /\ resume' = [resume EXCEPT ![c] = running]
  /\ Goto(c, IF running THEN "restart" ELSE "reconcile")
  /\ UNCHANGED <<senderVars, held, capAddr, runVars, historyVars>>

Reconcile(c) ==
  /\ pc[c] = "reconcile"
  /\ resume' = [resume EXCEPT ![c] = FALSE]
  /\ Goto(c, IF enabled THEN "start" ELSE "stop")
  /\ UNCHANGED <<settingsVars, senderVars, held, capAddr, runVars, historyVars>>

-----------------------------------------------------------------------------
(* The goroutines of a run.                                                  *)

PortFree(a) == \A q \in Run : ln[q] \in {"bound", "open"} => addrOf[q] # a

(* tls.Listen, which fails while another run of this daemon holds the        *)
(* address, and may fail for any other reason.                               *)
Listen(r) ==
  /\ start[r] = "listen"
  /\ \/ /\ PortFree(addrOf[r])
        /\ ln' = [ln EXCEPT ![r] = "bound"]
        /\ start' = [start EXCEPT ![r] = "publish"]
     \/ start' = [start EXCEPT ![r] = "check"] /\ UNCHANGED ln
  /\ UNCHANGED <<settingsVars, senderVars, callVars, last, addrOf, ctx, stopped, bcast,
                 historyVars>>

(* s.ln = ln, and the goroutine that waits for ctx.Done is started.          *)
Publish(r) ==
  /\ start[r] = "publish"
  /\ ln' = [ln EXCEPT ![r] = "open"]
  /\ start' = [start EXCEPT ![r] = "accept"]
  /\ UNCHANGED <<settingsVars, senderVars, callVars, last, addrOf, ctx, stopped, bcast,
                 historyVars>>

(* That goroutine.  Its Stop does nothing when an earlier one has run.       *)
Watch(r) ==
  /\ ctx[r] /\ ~stopped[r] /\ ln[r] = "open"
  /\ ServerStop(r)
  /\ UNCHANGED <<settingsVars, senderVars, callVars, last, addrOf, ctx, start, bcast,
                 historyVars>>

(* Accept fails: always once the socket is closed, and at any time when the  *)
(* process is out of descriptors.  Start returns nil if Stop has run.        *)
AcceptFails(r) ==
  /\ start[r] = "accept"
  /\ start' = [start EXCEPT ![r] = IF stopped[r] THEN "cancel" ELSE "check"]
  /\ UNCHANGED <<settingsVars, senderVars, callVars, last, addrOf, ctx, ln, stopped,
                 bcast, historyVars>>

(* Start sends the accepted event of a new connection to a full channel, and *)
(* the consumer, which leaves when the context is cancelled, is gone.        *)
AnnounceBlocks(r) ==
  /\ start[r] = "accept" /\ ctx[r] /\ ln[r] = "open"
  /\ start' = [start EXCEPT ![r] = "stuck"]
  /\ UNCHANGED <<settingsVars, senderVars, callVars, last, addrOf, ctx, ln, stopped,
                 bcast, historyVars>>

(* runSenderServer after Start returned an error: ctx.Err, then the lock.    *)
CheckServerError(r) ==
  /\ start[r] = "check"
  /\ start' = [start EXCEPT ![r] = IF ctx[r] THEN "cancel" ELSE "setError"]
  /\ UNCHANGED <<settingsVars, senderVars, callVars, last, addrOf, ctx, ln, stopped,
                 bcast, historyVars>>

SetServerError(r) ==
  /\ start[r] = "setError"
  /\ lastError' = r
  /\ bothFailed' = bothFailed \cup (IF bcast[r] = "setError" THEN {r} ELSE {})
  /\ start' = [start EXCEPT ![r] = "cancel"]
  /\ UNCHANGED <<settingsVars, running, cur, callVars, last, addrOf, ctx, ln, stopped,
                 bcast, taken, displaced>>

CancelRun(r) ==
  /\ start[r] = "cancel"
  /\ ctx' = [ctx EXCEPT ![r] = TRUE]
  /\ start' = [start EXCEPT ![r] = "mark"]
  /\ UNCHANGED <<settingsVars, senderVars, callVars, last, addrOf, ln, stopped, bcast,
                 historyVars>>

(* Mutant of MarkSenderStopped: any run that ends clears d.sender.           *)
MarkUnconditionally(r) ==
  /\ start[r] = "mark"
  /\ running' = FALSE /\ cur' = NoRun
  /\ start' = [start EXCEPT ![r] = "done"]
  /\ UNCHANGED <<settingsVars, lastError, callVars, last, addrOf, ctx, ln, stopped,
                 bcast, historyVars>>

(* Mutant of MarkSenderStopped: the call is missing.                         *)
MarkNothing(r) ==
  /\ start[r] = "mark"
  /\ start' = [start EXCEPT ![r] = "done"]
  /\ UNCHANGED <<settingsVars, senderVars, callVars, last, addrOf, ctx, ln, stopped,
                 bcast, historyVars>>

(* markSenderStopped: only the run that d.sender holds clears it.            *)
MarkSenderStopped(r) ==
  /\ start[r] = "mark"
  /\ \/ cur = r /\ running' = FALSE /\ cur' = NoRun
     \/ cur # r /\ UNCHANGED <<running, cur>>
  /\ start' = [start EXCEPT ![r] = "done"]
  /\ UNCHANGED <<settingsVars, lastError, callVars, last, addrOf, ctx, ln, stopped,
                 bcast, historyVars>>

(* Mutant of BroadcastEnds: the run is cancelled before its error is noted.  *)
BroadcastEndsSilently(r) ==
  /\ bcast[r] = "run"
  /\ bcast' = [bcast EXCEPT ![r] = IF ctx[r] THEN "done" ELSE "cancel"]
  /\ UNCHANGED <<settingsVars, senderVars, callVars, last, addrOf, ctx, start, ln,
                 stopped, historyVars>>

(* Mutant of BroadcastEnds: the run is cancelled, then its error recorded.   *)
BroadcastCancelsFirst(r) ==
  /\ bcast[r] = "run"
  /\ bcast' = [bcast EXCEPT ![r] = IF ctx[r] THEN "done" ELSE "setError"]
  /\ ctx' = [ctx EXCEPT ![r] = TRUE]
  /\ UNCHANGED <<settingsVars, senderVars, callVars, last, addrOf, start, ln, stopped,
                 historyVars>>

(* runSenderBroadcast: Broadcast ends when the context is cancelled, or      *)
(* fails, which counts only if the context is still live.                    *)
BroadcastEnds(r) ==
  /\ bcast[r] = "run"
  /\ \/ ctx[r] /\ bcast' = [bcast EXCEPT ![r] = "done"] /\ UNCHANGED bothFailed
     \/ /\ ~ctx[r]
        /\ bcast' = [bcast EXCEPT ![r] = "setError"]
        /\ bothFailed' = bothFailed \cup (IF start[r] = "cancel" THEN {r} ELSE {})
  /\ UNCHANGED <<settingsVars, senderVars, callVars, last, addrOf, ctx, start, ln,
                 stopped, taken, displaced>>

SetBroadcastError(r) ==
  /\ bcast[r] = "setError"
  /\ lastError' = r
  /\ bcast' = [bcast EXCEPT ![r] = "cancel"]
  /\ UNCHANGED <<settingsVars, running, cur, callVars, last, addrOf, ctx, start, ln,
                 stopped, historyVars>>

CancelFromBroadcast(r) ==
  /\ bcast[r] = "cancel"
  /\ ctx' = [ctx EXCEPT ![r] = TRUE]
  /\ bcast' = [bcast EXCEPT ![r] = "done"]
  /\ UNCHANGED <<settingsVars, senderVars, callVars, last, addrOf, start, ln, stopped,
                 historyVars>>

(* consumeSenderEvents receives the error event of a connection, and         *)
(* applySenderEvent records it without asking whose d.sender is: the run may *)
(* have ended, and another may have been installed.  Connections can fail    *)
(* once Start got to Accept.  Receiving and recording are one step: an event *)
(* received long before it is recorded is as good as one received just then, *)
(* for the select may take either once the context is cancelled.  That the   *)
(* consumer leaves then shows in nothing but what it no longer does.         *)
ApplyError(r) ==
  /\ ln[r] \in {"open", "closed"} /\ start[r] # "stuck"
  /\ lastError' = IF ctx[r] THEN LateError ELSE r
  /\ UNCHANGED <<settingsVars, running, cur, callVars, runVars, historyVars>>

-----------------------------------------------------------------------------

CallStep(c) ==
  \/ ReconcileStart(c) \/ StartFails(c) \/ Install(c)
  \/ ReconcileStop(c) \/ StopCancel(c) \/ StopServer(c) \/ Reconcile(c)

Request(c) ==
  StartSender(c) \/ StopSender(c) \/ UpdateSettings(c)

ServerStep(r) ==
  \/ Listen(r) \/ Publish(r) \/ Watch(r) \/ AcceptFails(r) \/ AnnounceBlocks(r)
  \/ CheckServerError(r) \/ SetServerError(r) \/ CancelRun(r) \/ MarkSenderStopped(r)

BroadcastStep(r) ==
  BroadcastEnds(r) \/ SetBroadcastError(r) \/ CancelFromBroadcast(r)

Next ==
  \/ \E c \in Caller : Request(c) \/ CallStep(c)
  \/ \E r \in Run : ServerStep(r) \/ BroadcastStep(r) \/ ApplyError(r)

Spec == Init /\ [][Next]_vars

(* The Go scheduler runs every runnable goroutine.  New requests, failures   *)
(* of a live Accept or Broadcast, and blocking forever are never required;   *)
(* nothing waits for the consumer.                                           *)
Fairness ==
  /\ \A c \in Caller : WF_vars(CallStep(c))
  /\ \A r \in Run :
       /\ WF_vars(Listen(r)) /\ WF_vars(Publish(r)) /\ WF_vars(Watch(r))
       /\ WF_vars(ln[r] = "closed" /\ AcceptFails(r))
       /\ WF_vars(CheckServerError(r)) /\ WF_vars(SetServerError(r))
       /\ WF_vars(CancelRun(r)) /\ WF_vars(MarkSenderStopped(r))
       /\ WF_vars(ctx[r] /\ BroadcastEnds(r))
       /\ WF_vars(SetBroadcastError(r)) /\ WF_vars(CancelFromBroadcast(r))

FairSpec == Spec /\ Fairness

-----------------------------------------------------------------------------
(* d.sender never shows a sender that is over: whenever running is set it    *)
(* names a run whose server goroutine has still to report its end, and that  *)
(* no stopSender has already taken charge of.                                *)
NeverShowsDeadSender ==
  /\ running <=> cur # NoRun
  /\ running => /\ start[cur] # "done"
                /\ cur \notin taken

(* Each run is stopped by one request at most: a stopSender that took a      *)
(* run's cancel and srv out of d.sender is the only one that holds them, and *)
(* a run it holds is no longer the daemon's.                                 *)
StoppedOnce ==
  \A c \in Caller : held[c] # NoRun =>
    /\ held[c] # cur
    /\ \A d \in Caller \ {c} : held[d] # held[c]

(* The daemon loses a sender whose context is live only where a second       *)
(* startSender passed its first check before the first one was installed.    *)
(* In particular a run that ends never takes the run that replaced it out of *)
(* d.sender (markSenderStopped compares srv).                                *)
LiveRunIsReachable ==
  \A r \in 1 .. last :
    ctx[r] \/ cur = r \/ (\E c \in Caller : held[c] = r) \/ r \in displaced

(* A sender that stopped by itself left an error behind: if the newest run   *)
(* is not the daemon's any more and no request stopped it, lastError is set, *)
(* however the server's and the broadcast's ends interleave.                 *)
NoSilentEnd ==
  (last # NoRun /\ ~running /\ last \notin taken) => lastError # NoError

(* An error shown beside a running sender is its own, or that of a request.  *)
(* The error of an earlier run gets there, after the new run cleared         *)
(* lastError, only if that run was taken or displaced while it was failing,  *)
(* or if its server and its broadcast both failed, or if it is that of a     *)
(* connection, recorded by the run's consumer after the run was cancelled.   *)
ErrorIsOwn ==
  (running /\ lastError \notin {RequestError, NoError, cur}) =>
    lastError \in taken \cup displaced \cup bothFailed \cup {LateError}

(* A broadcast that fails takes its server down: the daemon stops showing    *)
(* the run and its socket is closed, unless a request had already taken the  *)
(* run, or Start is blocked on the event channel.                            *)
BroadcastFailureEndsRun ==
  \A r \in Run :
    (bcast[r] = "cancel") ~>
      \/ r \in taken
      \/ start[r] = "stuck"
      \/ cur # r /\ ln[r] \in {"nil", "closed"} /\ start[r] = "done"

(* The sender is a Component whose runs take off no run but themselves.  A   *)
(* run is down once its context is cancelled.                                *)
Sender == INSTANCE Component WITH
  OwnOnly <- TRUE,
  shown   <- cur,
  newest  <- last,
  loading <- Cardinality({c \in Caller : pc[c] = "load"}),
  doomed  <- {r \in Run : ~ctx[r] /\ \E c \in Caller : pc[c] = "stopCancel" /\ held[c] = r},
  down    <- {r \in Run : ctx[r]}

(* The interleavings of requests and ending runs show nothing that a         *)
(* Component does not allow, and what a stop has taken off it cancels.       *)
IsComponent == Sender!Spec

=============================================================================
