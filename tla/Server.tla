------------------------------- MODULE Server -------------------------------
(***************************************************************************)
(* internal/server/server.go, one Server from New to its end, with the     *)
(* goroutines around it: Start's accept loop, the goroutine that waits for *)
(* the context, one handleConn per connection, and the daemon's            *)
(* consumeSenderEvents, which turns the events into the connection list    *)
(* that Snapshot shows.                                                    *)
(*                                                                         *)
(* A connection is a number, in the order of acceptance.  What handleConn  *)
(* reads and writes is in Transfer.tla: here a handler runs, may report    *)
(* progress, and ends with a result.  Critical sections under s.mu and     *)
(* d.mu, channel operations and the closing of a socket are the actions.   *)
(***************************************************************************)
EXTENDS Naturals, Sequences, FiniteSets

CONSTANTS
  MaxConns,     \* bound: how many connections are accepted
  MaxProgress,  \* bound: how many progress events one handler has to send
  QueueCap      \* capacity of the events channel (64 in the code)

ASSUME ServerAssumption ==
  MaxConns \in Nat /\ MaxProgress \in Nat /\ QueueCap \in Nat \ {0}

Conn   == 1 .. MaxConns
Result == {"completed", "error"}
Event  == [conn : Conn, state : {"accepted", "progress"} \cup Result,
           sent : 0 .. MaxProgress]

VARIABLES
  ctx,         \* the run's context is cancelled
  caller,      \* the stopSender that has taken this server: cancel, then Stop
  start,       \* where Start is
  ln,          \* the listening socket: nil, bound (s.ln not assigned), open or
               \* closed
  stopped,     \* the channel s.stopped is closed
  newest,      \* the connection accepted last
  sock,        \* the state of each accepted socket
  conns,       \* the keys of s.connections
  handler,     \* where each handleConn is; a result: it has to send that event
  sent,        \* how far a handler is with its files
  queue,       \* s.events
  consumer,    \* where consumeSenderEvents is
  hand,        \* the event it received and has still to apply: at most one
  view         \* d.sender.connections: state and progress shown

startVars    == <<start, ln, stopped, newest>>
connVars     == <<sock, conns>>
handlerVars  == <<handler, sent>>
consumerVars == <<consumer, hand, view>>
vars == <<ctx, caller, startVars, connVars, handlerVars, queue, consumerVars>>

TypeOK ==
  /\ ctx \in BOOLEAN
  /\ caller \in {"idle", "stop", "done"}
  /\ start \in {"listen", "publish", "accept", "register", "announce", "returned"}
  /\ ln \in {"nil", "bound", "open", "closed"}
  /\ stopped \in BOOLEAN
  /\ newest \in Conn \cup {0}
  /\ sock \in [Conn -> {"none", "open", "closed"}]
  /\ conns \in SUBSET Conn
  /\ handler \in [Conn -> {"none", "run", "close", "delete", "done"} \cup Result]
  /\ sent \in [Conn -> 0 .. MaxProgress]
  /\ queue \in Seq(Event) /\ Len(queue) <= QueueCap
  /\ consumer \in {"select", "apply", "exit"}
  /\ hand \in Seq(Event) /\ (Len(hand) = 1 <=> consumer = "apply") /\ Len(hand) <= 1
  /\ view \in [Conn -> [state : {"absent", "accepted", "progress"} \cup Result,
                        sent : 0 .. MaxProgress]]

Init ==
  /\ ctx = FALSE /\ caller = "idle"
  /\ start = "listen" /\ ln = "nil" /\ stopped = FALSE /\ newest = 0
  /\ sock = [i \in Conn |-> "none"] /\ conns = {}
  /\ handler = [i \in Conn |-> "none"]
  /\ sent = [i \in Conn |-> 0]
  /\ queue = <<>>
  /\ consumer = "select" /\ hand = <<>>
  /\ view = [i \in Conn |-> [state |-> "absent", sent |-> 0]]

-----------------------------------------------------------------------------
(* Stop, and who calls it.                                                   *)

(* Mutant of Stop: the connections are left to end by themselves.            *)
StopKeepsConnections ==
  \/ stopped /\ UNCHANGED <<ln, stopped, connVars>>
  \/ /\ ~stopped
     /\ stopped' = TRUE
     /\ ln' = IF ln = "open" THEN "closed" ELSE ln
     /\ UNCHANGED connVars

(* Only the first call does anything.  It closes the socket that s.ln names, *)
(* if Start has got so far, and every connection in the map.  Start assigns  *)
(* s.ln without s.mu: a Stop that misses an assignment just made is the same *)
(* as one that comes before it.                                              *)
Stop ==
  \/ stopped /\ UNCHANGED <<ln, stopped, connVars>>
  \/ /\ ~stopped
     /\ stopped' = TRUE
     /\ ln' = IF ln = "open" THEN "closed" ELSE ln
     /\ sock' = [i \in Conn |-> IF i \in conns THEN "closed" ELSE sock[i]]
     /\ conns' = {}

(* stopSender: cancel() and then srv.Stop().                                 *)
CallerCancels ==
  /\ caller = "idle"
  /\ ctx' = TRUE /\ caller' = "stop"
  /\ UNCHANGED <<startVars, connVars, handlerVars, queue, consumerVars>>

CallerStops ==
  /\ caller = "stop"
  /\ Stop
  /\ caller' = "done"
  /\ UNCHANGED <<ctx, start, newest, handlerVars, queue, consumerVars>>

(* The broadcast of the same run fails, or Start has returned: runSender-    *)
(* Broadcast and runSenderServer cancel the context and call no Stop.        *)
RunCancels ==
  /\ ~ctx
  /\ ctx' = TRUE
  /\ UNCHANGED <<caller, startVars, connVars, handlerVars, queue, consumerVars>>

(* Mutant of Watch: Start leaves no goroutine behind.                        *)
NoWatch == FALSE /\ UNCHANGED vars

(* The goroutine Start leaves behind to wait for ctx.Done.                   *)
Watch ==
  /\ ctx /\ ~stopped /\ ln = "open"
  /\ Stop
  /\ UNCHANGED <<ctx, caller, start, newest, handlerVars, queue, consumerVars>>

-----------------------------------------------------------------------------
(* Start.                                                                    *)

Listen ==
  /\ start = "listen"
  /\ \/ ln' = "bound" /\ start' = "publish"
     \/ start' = "returned" /\ UNCHANGED ln
  /\ UNCHANGED <<ctx, caller, stopped, newest, connVars, handlerVars, queue,
                 consumerVars>>

(* s.ln = ln, and Watch's goroutine starts.  s.stopped is not looked at.     *)
Publish ==
  /\ start = "publish"
  /\ ln' = "open" /\ start' = "accept"
  /\ UNCHANGED <<ctx, caller, stopped, newest, connVars, handlerVars, queue,
                 consumerVars>>

Accept ==
  /\ start = "accept" /\ ln = "open" /\ newest < MaxConns
  /\ newest' = newest + 1
  /\ sock' = [sock EXCEPT ![newest'] = "open"]
  /\ start' = "register"
  /\ UNCHANGED <<ctx, caller, ln, stopped, conns, handlerVars, queue, consumerVars>>

(* On a closed socket, or out of descriptors.                                *)
AcceptFails ==
  /\ start = "accept"
  /\ start' = "returned"
  /\ UNCHANGED <<ctx, caller, ln, stopped, newest, connVars, handlerVars, queue,
                 consumerVars>>

(* Mutant of Register: the handler is started before accepted is sent.       *)
RegisterAndServe ==
  /\ start = "register"
  /\ conns' = conns \cup {newest}
  /\ handler' = [handler EXCEPT ![newest] = "run"]
  /\ start' = "announce"
  /\ UNCHANGED <<ctx, caller, ln, stopped, newest, sock, sent, queue,
                 consumerVars>>

Register ==
  /\ start = "register"
  /\ conns' = conns \cup {newest}
  /\ start' = "announce"
  /\ UNCHANGED <<ctx, caller, ln, stopped, newest, sock, handlerVars, queue,
                 consumerVars>>

(* Mutant of QueueFull: one event too many fits.                             *)
QueueOverfull == Len(queue) > QueueCap

QueueFull == Len(queue) = QueueCap

Enqueue(i, state) ==
  queue' = Append(queue, [conn |-> i, state |-> state, sent |-> sent[i]])

(* Blocks while the channel is full; then the handler is started.            *)
Announce ==
  /\ start = "announce" /\ ~QueueFull
  /\ Enqueue(newest, "accepted")
  /\ handler' = [handler EXCEPT ![newest] = "run"]
  /\ start' = "accept"
  /\ UNCHANGED <<ctx, caller, ln, stopped, newest, connVars, sent, consumerVars>>

-----------------------------------------------------------------------------
(* handleConn.                                                               *)

(* progressWriter: the event is dropped if the channel is full.              *)
ReportProgress(i) ==
  queue' = IF QueueFull THEN queue
           ELSE Append(queue, [conn |-> i, state |-> "progress", sent |-> sent'[i]])

(* A write succeeds; the socket may be closed before this is reported.       *)
Progress(i) ==
  /\ handler[i] = "run" /\ sent[i] < MaxProgress
  /\ sent' = [sent EXCEPT ![i] = @ + 1]
  /\ ReportProgress(i)
  /\ UNCHANGED <<ctx, caller, startVars, connVars, handler, consumerVars>>

(* A write that fails is reported as well, with what was written of it.      *)
WriteFails(i) ==
  /\ handler[i] = "run"
  /\ sent' \in {sent, [sent EXCEPT ![i] = @ + 1]} /\ sent'[i] <= MaxProgress
  /\ ReportProgress(i)
  /\ handler' = [handler EXCEPT ![i] = "error"]
  /\ UNCHANGED <<ctx, caller, startVars, connVars, consumerVars>>

(* Mutant of HandlerEnds: a read or write that fails is tried again.         *)
HandlerPersists(i) ==
  /\ handler[i] = "run" /\ sock[i] = "open"
  /\ \E res \in Result : handler' = [handler EXCEPT ![i] = res]
  /\ UNCHANGED <<ctx, caller, startVars, connVars, sent, queue, consumerVars>>

(* Everything was sent, or something failed; on a closed socket it must.     *)
HandlerEnds(i) ==
  /\ handler[i] = "run"
  /\ \E res \in Result :
       /\ res = "completed" => sock[i] = "open"
       /\ handler' = [handler EXCEPT ![i] = res]
  /\ UNCHANGED <<ctx, caller, startVars, connVars, sent, queue, consumerVars>>

(* Mutant of Report: the last event is dropped if the channel is full.       *)
ReportOrDrop(i) ==
  /\ handler[i] \in Result
  /\ IF QueueFull THEN UNCHANGED queue ELSE Enqueue(i, handler[i])
  /\ handler' = [handler EXCEPT ![i] = "close"]
  /\ UNCHANGED <<ctx, caller, startVars, connVars, sent, consumerVars>>

(* Blocks while the channel is full, with the socket still open.             *)
Report(i) ==
  /\ handler[i] \in Result /\ ~QueueFull
  /\ Enqueue(i, handler[i])
  /\ handler' = [handler EXCEPT ![i] = "close"]
  /\ UNCHANGED <<ctx, caller, startVars, connVars, sent, consumerVars>>

HandlerCloses(i) ==
  /\ handler[i] = "close"
  /\ sock' = [sock EXCEPT ![i] = "closed"]
  /\ handler' = [handler EXCEPT ![i] = "delete"]
  /\ UNCHANGED <<ctx, caller, startVars, conns, sent, queue, consumerVars>>

HandlerDeletes(i) ==
  /\ handler[i] = "delete"
  /\ conns' = conns \ {i}
  /\ handler' = [handler EXCEPT ![i] = "done"]
  /\ UNCHANGED <<ctx, caller, startVars, sock, sent, queue, consumerVars>>

-----------------------------------------------------------------------------
(* consumeSenderEvents.                                                      *)

ConsumerExits ==
  /\ consumer = "select" /\ ctx
  /\ consumer' = "exit"
  /\ UNCHANGED <<ctx, caller, startVars, connVars, handlerVars, queue, hand, view>>

Receive ==
  /\ consumer = "select" /\ queue # <<>>
  /\ hand' = <<Head(queue)>> /\ queue' = Tail(queue)
  /\ consumer' = "apply"
  /\ UNCHANGED <<ctx, caller, startVars, connVars, handlerVars, view>>

(* applySenderEvent: a progress event leaves the state of a known connection *)
(* alone, any other event leaves its progress alone.                         *)
Apply ==
  /\ consumer = "apply"
  /\ LET e == Head(hand)  old == view[e.conn] IN
     view' = [view EXCEPT ![e.conn] =
       IF e.state = "progress"
         THEN [state |-> IF old.state = "absent" THEN "progress" ELSE old.state,
               sent |-> e.sent]
         ELSE [old EXCEPT !.state = e.state]]
  /\ hand' = <<>> /\ consumer' = "select"
  /\ UNCHANGED <<ctx, caller, startVars, connVars, handlerVars, queue>>

-----------------------------------------------------------------------------

StartStep == Listen \/ Publish \/ Register \/ Announce

HandlerStep(i) == Report(i) \/ HandlerCloses(i) \/ HandlerDeletes(i)

ConsumerStep == Receive \/ Apply \/ ConsumerExits

Next ==
  \/ CallerCancels \/ CallerStops \/ RunCancels \/ Watch
  \/ Accept \/ AcceptFails \/ StartStep
  \/ \E i \in Conn : Progress(i) \/ WriteFails(i) \/ HandlerEnds(i) \/ HandlerStep(i)
  \/ ConsumerStep

Spec == Init /\ [][Next]_vars

(* Every runnable goroutine runs, and a socket that is closed wakes whoever  *)
(* reads, writes or accepts on it.  Clients need not ever connect, answer or *)
(* leave, and nobody has to stop the sender.                                 *)
Fairness ==
  /\ WF_vars(CallerStops) /\ WF_vars(Watch) /\ WF_vars(StartStep)
  /\ WF_vars(ln = "closed" /\ AcceptFails)
  /\ WF_vars(start = "returned" /\ RunCancels)
  /\ \A i \in Conn : /\ WF_vars(sock[i] = "closed" /\ HandlerEnds(i))
                     /\ WF_vars(HandlerStep(i))
  /\ WF_vars(ConsumerStep)

FairSpec == Spec /\ Fairness

-----------------------------------------------------------------------------
(* The shown state of a connection only advances: it appears as accepted,    *)
(* its progress never goes back, and after completed or error nothing about  *)
(* it changes, although two goroutines send its events and some are dropped. *)
ConnectionAdvances(old, new) ==
  \/ old.state = "absent" /\ new = [state |-> "accepted", sent |-> 0]
  \/ /\ old.state = "accepted"
     /\ new.state \in {"accepted"} \cup Result
     /\ new.sent >= old.sent

ViewOnlyAdvances ==
  [][\A i \in Conn : view'[i] = view[i] \/ ConnectionAdvances(view[i], view'[i])]_vars

(* Stop reaches the connections: until it has run every open connection but  *)
(* one that Start has just accepted is in the map; once it has closed the    *)
(* listening socket at most one is left open, the one Start was about to     *)
(* register.                                                                 *)
AtMostOneEscapes ==
  LET open == {i \in Conn : sock[i] = "open"} IN
  /\ ~stopped => open \ conns \subseteq (IF start = "register" THEN {newest} ELSE {})
  /\ ln = "closed" => Cardinality(open) <= 1

(* The consumer is gone and nobody empties the full channel any more.        *)
Wedged == QueueFull /\ consumer = "exit"

(* The result of every connection gets into the list, unless the run is      *)
(* cancelled first: the last event is never dropped, however full the        *)
(* channel was.                                                              *)
ResultIsShown ==
  \A i \in Conn : (handler[i] \in Result) ~> (view[i].state \in Result \/ ctx)

(* A handler whose socket is closed ends, unless it or Start is blocked on   *)
(* the channel that nobody empties.                                          *)
HandlersEnd ==
  \A i \in Conn : (sock[i] = "closed") ~> (handler[i] = "done" \/ Wedged)

(* Cancelling the context ends Start, except in two cases: Stop came before  *)
(* s.ln was assigned, or Start is blocked on the channel.                    *)
StartReturnsOrBlocks ==
  ctx ~> (start = "returned" \/ (stopped /\ ln = "open")
                             \/ (start = "announce" /\ Wedged))

(* "Start begins listening and serving until ctx is cancelled or Stop is     *)
(* called": once the context is cancelled, Start returns.                    *)
StartReturns == ctx ~> start = "returned"

=============================================================================
