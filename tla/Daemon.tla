------------------------------- MODULE Daemon -------------------------------
(***************************************************************************)
(* senderd as a whole: cmd/senderd/main.go, both halves of daemon.go under *)
(* UpdateSettings, Reconcile and Shutdown, and the unix socket of          *)
(* internal/ipc.  Processes start one after another on one endpoint, may   *)
(* overlap, and may be killed at any moment, which leaves the socket file  *)
(* behind.  Nothing else survives a process.                               *)
(*                                                                         *)
(* A goroutine is main or one that serves a request.  todo holds the calls *)
(* it has still to make, so other goroutines come between any two critical *)
(* sections under d.mu.  A half is its running flag here: the runs behind  *)
(* it, and what stopping one takes, are in SenderDaemon and ListenerDaemon. *)
(***************************************************************************)
EXTENDS Naturals, Sequences

CONSTANTS
  Caller,    \* clients, each with one request at a time
  MaxProcs,  \* bound: how many processes are started
  Budgets    \* bounds, of which a behaviour has one: how many processes are
             \* started, requests made and runs ended by themselves

ASSUME DaemonAssumption ==
  /\ Caller # {} /\ Caller \cap Nat = {}
  /\ MaxProcs \in Nat \ {0}
  /\ Budgets \subseteq [procs : 0 .. MaxProcs, requests : Nat, ends : Nat]

Proc   == 1 .. MaxProcs
Nobody == 0
Half   == {"sender", "listener"}
Thread == Proc \cup Caller    \* main of each process, and the requests

Call(name, h, set) == [name |-> name, half |-> h, set |-> set]
Plain(name)   == Call(name, "sender", FALSE)

CallName == {"start", "refuse", "load", "stop", "reconcile",
             "remove", "bind", "close", "drain", "unlink"}

VARIABLES
  phase,      \* where each process is
  todo,       \* the calls each goroutine has still to make
  failed,     \* the Reconcile of main has an error to return
  at,         \* the process that a client's connection leads to
  enabled,    \* d.settings.{Sender,Listener}.Enabled
  running,    \* d.{sender,listener}.running
  lastError,  \* d.{sender,listener}.lastError # ""
  haveFiles,  \* len(d.senderFiles) > 0
  path,       \* the process whose socket the endpoint names, alive or not
  budget,     \* what is left of the bounds
  crossed,    \* history: requests overlapped since the last update made alone
  lapsed,     \* history: processes whose listener's last run ended by itself
  late,       \* history: processes that had a request after the signal
  met         \* history: the processes that lived while this one did

threadVars  == <<todo, failed, at>>
daemonVars  == <<enabled, running, lastError, haveFiles>>
historyVars == <<crossed, lapsed, late, met>>
vars == <<phase, threadVars, daemonVars, path, budget, historyVars>>

Over   == {"fatal", "noEndpoint", "exited", "killed"}
Living == {p \in Proc : phase[p] \notin Over \cup {"off"}}

TypeOK ==
  /\ phase \in [Proc -> Over \cup {"off", "boot", "serve", "stop", "drain"}]
  /\ todo \in [Thread -> Seq([name : CallName, half : Half, set : BOOLEAN])]
  /\ \A p \in Proc : phase[p] = "serve" => todo[p] = <<>>
  /\ failed \in [Proc -> BOOLEAN]
  /\ at \in [Caller -> Proc \cup {Nobody}]
  /\ enabled \in [Proc -> [Half -> BOOLEAN]]
  /\ running \in [Proc -> [Half -> BOOLEAN]]
  /\ lastError \in [Proc -> [Half -> BOOLEAN]]
  /\ haveFiles \in [Proc -> BOOLEAN]
  /\ path \in Proc \cup {Nobody}
  /\ budget \in [procs : Nat, requests : Nat, ends : Nat]
  /\ crossed \in [Proc -> BOOLEAN]
  /\ lapsed \in SUBSET Proc /\ late \in SUBSET Proc
  /\ met \in [Proc -> SUBSET Proc]

Neither == [h \in Half |-> FALSE]

Init ==
  /\ phase = [p \in Proc |-> "off"]
  /\ todo = [g \in Thread |-> <<>>] /\ failed = [p \in Proc |-> FALSE]
  /\ at = [c \in Caller |-> Nobody]
  /\ enabled = [p \in Proc |-> Neither] /\ running = [p \in Proc |-> Neither]
  /\ lastError = [p \in Proc |-> Neither] /\ haveFiles = [p \in Proc |-> FALSE]
  /\ path = Nobody
  /\ budget \in Budgets
  /\ crossed = [p \in Proc |-> FALSE] /\ lapsed = {} /\ late = {}
  /\ met = [p \in Proc |-> {}]

-----------------------------------------------------------------------------
(* Calls into daemon.go, made by main and by requests alike.                 *)

Spend(what) ==
  budget[what] > 0 /\ budget' = [budget EXCEPT ![what] = @ - 1]

Host(g) == IF g \in Proc THEN g ELSE at[g]

Making(g, name) == todo[g] # <<>> /\ Head(todo[g]).name = name

Then(g, calls) == todo' = [todo EXCEPT ![g] = calls \o Tail(@)]

(* The first critical section of startSender and of startListener.           *)
StartCheck(g) ==
  /\ Making(g, "start")
  /\ LET p == Host(g)  h == Head(todo[g]).half IN
     /\ enabled' = [enabled EXCEPT ![p][h] = @ \/ Head(todo[g]).set]
     /\ Then(g, IF running[p][h] THEN <<>>
                ELSE IF h = "sender" /\ ~haveFiles[p] THEN <<Call("refuse", h, FALSE)>>
                ELSE <<Call("load", h, FALSE)>>)
  /\ UNCHANGED <<phase, failed, at, running, lastError, haveFiles, path, budget,
                 historyVars>>

(* No files, or certificates that cannot be loaded.                          *)
StartFails(g) ==
  /\ Making(g, "refuse") \/ Making(g, "load")
  /\ lastError' = [lastError EXCEPT ![Host(g)][Head(todo[g]).half] = TRUE]
  /\ failed' = [p \in Proc |-> failed[p] \/ p = g]
  /\ Then(g, <<>>)
  /\ UNCHANGED <<phase, at, enabled, running, haveFiles, path, budget,
                 historyVars>>

(* The second critical section: running is not read again.                   *)
Install(g) ==
  /\ Making(g, "load")
  /\ LET p == Host(g)  h == Head(todo[g]).half IN
     /\ running' = [running EXCEPT ![p][h] = TRUE]
     /\ lastError' = [lastError EXCEPT ![p][h] = FALSE]
     /\ lapsed' = IF h = "listener" THEN lapsed \ {p} ELSE lapsed
  /\ Then(g, <<>>)
  /\ UNCHANGED <<phase, failed, at, enabled, haveFiles, path, budget, crossed, late, met>>

(* stopSender and stopListener.                                              *)
StopHalf(g) ==
  /\ Making(g, "stop")
  /\ LET p == Host(g)  h == Head(todo[g]).half IN
     /\ enabled' = [enabled EXCEPT ![p][h] = @ /\ ~Head(todo[g]).set]
     /\ running' = [running EXCEPT ![p][h] = FALSE]
  /\ Then(g, <<>>)
  /\ UNCHANGED <<phase, failed, at, lastError, haveFiles, path, budget,
                 historyVars>>

(* Mutant of Reconcile: the listener's turn comes only if the sender is off. *)
ReconcileOne(g) ==
  /\ Making(g, "reconcile")
  /\ LET on == enabled[Host(g)]
         apply(h) == Call(IF on[h] THEN "start" ELSE "stop", h, FALSE) IN
     Then(g, IF on["sender"] THEN <<apply("sender")>>
             ELSE <<apply("sender"), apply("listener")>>)
  /\ UNCHANGED <<phase, failed, at, daemonVars, path, budget, historyVars>>

(* Reconcile reads the settings once.  The error of one half does not keep   *)
(* it from the other.                                                        *)
Reconcile(g) ==
  /\ Making(g, "reconcile")
  /\ LET on == enabled[Host(g)]
         apply(h) == Call(IF on[h] THEN "start" ELSE "stop", h, FALSE) IN
     Then(g, <<apply("sender"), apply("listener")>>)
  /\ UNCHANGED <<phase, failed, at, daemonVars, path, budget, historyVars>>

CallStep(g) ==
  StartCheck(g) \/ StartFails(g) \/ Install(g) \/ StopHalf(g) \/ Reconcile(g)

(* A run ends by itself.  A sender leaves an error (NoSilentEnd of           *)
(* SenderDaemon); a listener may not, and may have been a stopped one that   *)
(* takes its successor's place in d.listener with it.                        *)
RunEnds(p, h) ==
  /\ Spend("ends")
  /\ p \in Living /\ running[p][h]
  /\ running' = [running EXCEPT ![p][h] = FALSE]
  /\ \/ h = "sender" /\ lastError' = [lastError EXCEPT ![p][h] = TRUE] /\ UNCHANGED lapsed
     \/ h = "listener" /\ lapsed' = lapsed \cup {p} /\ UNCHANGED lastError
  /\ UNCHANGED <<phase, threadVars, enabled, haveFiles, path, crossed, late, met>>

-----------------------------------------------------------------------------
(* Requests.  A client dials the path, or uses the connection it has.        *)

InFlight(p) == {c \in Caller : at[c] = p /\ todo[c] # <<>>}

Accepting(p) == phase[p] \in {"serve", "stop"}

Request(c, p) ==
  /\ Spend("requests")
  /\ todo[c] = <<>> /\ Accepting(p) /\ p \in {at[c], path}
  /\ at' = [at EXCEPT ![c] = p]
  /\ late' = IF phase[p] = "stop" THEN late \cup {p} ELSE late
  /\ UNCHANGED <<phase, failed, running, lastError, path, lapsed, met>>

Crossing(p) == crossed' = [crossed EXCEPT ![p] = @ \/ InFlight(p) # {}]

StartOrStop(c, p) ==
  /\ Request(c, p) /\ Crossing(p)
  /\ \E h \in Half, name \in {"start", "stop"} :
       todo' = [todo EXCEPT ![c] = <<Call(name, h, TRUE)>>]
  /\ UNCHANGED <<enabled, haveFiles>>

SetSenderFiles(c, p) ==
  /\ Request(c, p) /\ Crossing(p)
  /\ haveFiles' = [haveFiles EXCEPT ![p] = ~@]
  /\ UNCHANGED <<todo, enabled>>

(* UpdateSettings up to its unlock, and what it will do next: stop what ran, *)
(* and reconcile.                                                            *)
UpdateSettings(c, p) ==
  /\ Request(c, p)
  /\ \E on \in [Half -> BOOLEAN] : enabled' = [enabled EXCEPT ![p] = on]
  /\ LET stop(h) == IF running[p][h] THEN <<Call("stop", h, FALSE)>> ELSE <<>> IN
     todo' = [todo EXCEPT ![c] = stop("sender") \o stop("listener") \o <<Plain("reconcile")>>]
  /\ crossed' = [crossed EXCEPT ![p] = InFlight(p) # {}]
  /\ UNCHANGED haveFiles

-----------------------------------------------------------------------------
(* main.                                                                     *)

(* The flags can ask for any of the two halves; no files can be selected.    *)
Boot(p) ==
  /\ Spend("procs")
  /\ phase[p] = "off" /\ \A q \in 1 .. p - 1 : phase[q] # "off"
  /\ phase' = [phase EXCEPT ![p] = "boot"]
  /\ \E on \in [Half -> BOOLEAN] : enabled' = [enabled EXCEPT ![p] = on]
  /\ todo' = [todo EXCEPT ![p] = <<Plain("reconcile"), Plain("remove"), Plain("bind")>>]
  /\ met' = [q \in Proc |-> IF q = p THEN Living
                            ELSE IF q \in Living THEN met[q] \cup {p} ELSE met[q]]
  /\ UNCHANGED <<failed, at, running, lastError, haveFiles, path,
                 crossed, lapsed, late>>

(* The end of a process, and of all it had in memory.                        *)
End(p, how) ==
  /\ phase' = [phase EXCEPT ![p] = how]
  /\ todo' = [g \in Thread |-> IF Host(g) = p THEN <<>> ELSE todo[g]]
  /\ failed' = [failed EXCEPT ![p] = FALSE]
  /\ at' = [c \in Caller |-> IF at[c] = p THEN Nobody ELSE at[c]]
  /\ enabled' = [enabled EXCEPT ![p] = Neither]
  /\ running' = [running EXCEPT ![p] = Neither]
  /\ lastError' = [lastError EXCEPT ![p] = Neither]
  /\ haveFiles' = [haveFiles EXCEPT ![p] = FALSE]
  /\ crossed' = [crossed EXCEPT ![p] = FALSE] /\ lapsed' = lapsed \ {p} /\ late' = late \ {p}
  /\ UNCHANGED <<budget, met>>

(* log.Fatalf when Reconcile returned an error.                              *)
BootFails(p) ==
  /\ Making(p, "remove") /\ failed[p]
  /\ End(p, "fatal")
  /\ UNCHANGED path

(* Mutant of RemoveStale: a socket that is left behind stays.                *)
RemoveNothing(p) ==
  /\ Making(p, "remove") /\ ~failed[p]
  /\ Then(p, <<>>)
  /\ UNCHANGED <<phase, failed, at, daemonVars, path, budget, historyVars>>

(* ipc.Listen: remove what is at the path, whoever it belongs to, and bind,  *)
(* which fails if something is there again.  Other errors of these calls are *)
(* left out.                                                                 *)
RemoveStale(p) ==
  /\ Making(p, "remove") /\ ~failed[p]
  /\ path' = Nobody
  /\ Then(p, <<>>)
  /\ UNCHANGED <<phase, failed, at, daemonVars, budget, historyVars>>

(* Mutant of Bind: main listens once more.                                   *)
BindTwice(p) ==
  /\ Making(p, "bind") /\ path = Nobody
  /\ path' = p
  /\ phase' = [phase EXCEPT ![p] = "serve"]
  /\ UNCHANGED <<threadVars, daemonVars, budget, historyVars>>

Bind(p) ==
  /\ Making(p, "bind") /\ path = Nobody
  /\ path' = p
  /\ Then(p, <<>>)
  /\ phase' = [phase EXCEPT ![p] = "serve"]
  /\ UNCHANGED <<failed, at, daemonVars, budget, historyVars>>

BindFails(p) ==
  /\ Making(p, "bind") /\ path # Nobody
  /\ End(p, "noEndpoint")
  /\ UNCHANGED path

(* Mutant of Signal: the HTTP server is stopped, the listener is not.        *)
SignalKeepsListener(p) ==
  /\ phase[p] = "serve"
  /\ phase' = [phase EXCEPT ![p] = "stop"]
  /\ todo' = [todo EXCEPT ![p] = <<Call("stop", "sender", FALSE), Plain("close"),
                                   Plain("drain"), Plain("unlink")>>]
  /\ late' = IF InFlight(p) # {} THEN late \cup {p} ELSE late
  /\ UNCHANGED <<failed, at, daemonVars, path, budget, crossed, lapsed, met>>

(* SIGINT or SIGTERM: Shutdown's two calls, then httpServer.Shutdown, which  *)
(* closes the listener and waits for the requests, then the deferred Remove. *)
Signal(p) ==
  /\ phase[p] = "serve"
  /\ phase' = [phase EXCEPT ![p] = "stop"]
  /\ todo' = [todo EXCEPT ![p] = <<Call("stop", "sender", FALSE), Call("stop", "listener", FALSE),
                                   Plain("close"), Plain("drain"), Plain("unlink")>>]
  /\ late' = IF InFlight(p) # {} THEN late \cup {p} ELSE late
  /\ UNCHANGED <<failed, at, daemonVars, path, budget, crossed, lapsed, met>>

(* Closing a unix listener unlinks its path by name.                         *)
CloseListener(p) ==
  /\ Making(p, "close")
  /\ path' = Nobody
  /\ Then(p, <<>>)
  /\ phase' = [phase EXCEPT ![p] = "drain"]
  /\ UNCHANGED <<failed, at, daemonVars, budget, historyVars>>

Drain(p) ==
  /\ Making(p, "drain") /\ InFlight(p) = {}
  /\ Then(p, <<>>)
  /\ UNCHANGED <<phase, failed, at, daemonVars, path, budget, historyVars>>

Exit(p) ==
  /\ Making(p, "unlink")
  /\ path' = Nobody
  /\ End(p, "exited")

(* SIGKILL, a signal before main asked for it, or a Serve that fails.        *)
Kill(p) ==
  /\ p \in Living
  /\ End(p, "killed")
  /\ UNCHANGED path

MainStep(p) ==
  \/ BootFails(p) \/ RemoveStale(p) \/ Bind(p) \/ BindFails(p)
  \/ CloseListener(p) \/ Drain(p) \/ Exit(p)

-----------------------------------------------------------------------------

Next ==
  \/ \E c \in Caller, p \in Proc :
       StartOrStop(c, p) \/ SetSenderFiles(c, p) \/ UpdateSettings(c, p)
  \/ \E g \in Thread : CallStep(g)
  \/ \E p \in Proc : Boot(p) \/ MainStep(p) \/ Signal(p) \/ Kill(p)
  \/ \E p \in Proc, h \in Half : RunEnds(p, h)

Spec == Init /\ [][Next]_vars

(* Every goroutine that can go on does.  Nobody has to make a request, start *)
(* or signal a process, and no run has to end.                               *)
Fairness ==
  /\ \A g \in Thread : WF_vars(CallStep(g))
  /\ \A p \in Proc : WF_vars(MainStep(p))

FairSpec == Spec /\ Fairness

-----------------------------------------------------------------------------
(* Settings and components agree whenever a process rests, from its boot on  *)
(* and whatever failed in between, except after requests that overlapped: a  *)
(* component that runs is enabled, and one that is enabled runs, has left an *)
(* error or was a listener that ended by itself.  An update made alone       *)
(* restores this for both halves, also when it returns an error.  A process  *)
(* whose flags could not be applied never comes to serve.                    *)
Agrees(p, h) ==
  /\ running[p][h] => enabled[p][h]
  /\ enabled[p][h] => running[p][h] \/ lastError[p][h] \/ (h = "listener" /\ p \in lapsed)

SettledAgrees ==
  \A p \in Proc : phase[p] = "serve" =>
    /\ ~failed[p]
    /\ (InFlight(p) = {} /\ ~crossed[p]) => \A h \in Half : Agrees(p, h)

(* A process that is alone on its endpoint gets through ipc.Listen and can   *)
(* be reached until it is told to stop, whatever the one before left behind, *)
(* killed or not.  (Two that overlap may unlink each other's socket.)        *)
LoneProcessIsReachable ==
  \A p \in Proc : met[p] = {} =>
    /\ phase[p] # "noEndpoint"
    /\ phase[p] = "serve" => path = p

(* A signal ends the process although requests keep coming in, and unless    *)
(* one was in flight then or came after it, with nothing left running.       *)
SignalEndsProcess ==
  \A p \in Proc : (phase[p] = "stop") ~>
    \/ phase[p] = "killed"
    \/ /\ Making(p, "unlink")
       /\ p \in late \/ running[p] = Neither
=============================================================================
