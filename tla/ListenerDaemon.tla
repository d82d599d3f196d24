--------------------------- MODULE ListenerDaemon ---------------------------
(***************************************************************************)
(* The listener half of internal/senderdaemon/daemon.go: how concurrent    *)
(* IPC requests start and stop the listener, and what each listener run    *)
(* does with the adverts that its multicast reader hands it (the goroutine *)
(* of discovery.Listen, over an unbuffered channel).                       *)
(*                                                                         *)
(* Every critical section under d.mu is one action; what lies between two  *)
(* of them is another.  A run is one successful startListener.  It may     *)
(* outlive its stop: client.Download looks at the context only until it is *)
(* connected, so a cancelled run stays in its download.                    *)
(*                                                                         *)
(* The network may deliver any advert at any time, in any order, again, or *)
(* not at all.  What is in an advert and how it is verified is not modelled *)
(* here, nor is what a download does to the output directory.              *)
(***************************************************************************)
EXTENDS Naturals, Sequences, FiniteSets

CONSTANTS
  Caller,     \* goroutines that serve IPC requests
  Id,         \* advert IDs
  Time,       \* advert timestamps
  RecentCap,  \* how many entries d.listener.recent keeps (64 in the code)
  MaxRuns     \* bound: how many listener runs one behaviour may start

ASSUME ListenerAssumption ==
  /\ Caller # {} /\ IsFiniteSet(Caller)
  /\ Id # {} /\ Time # {} /\ Time \subseteq Nat \ {0}
  /\ RecentCap \in Nat \ {0} /\ MaxRuns \in Nat \ {0}

Run    == 1 .. MaxRuns
NoRun  == 0
Advert == [id : Id, ts : Time]
NoAd   == [id |-> CHOOSE i \in Id : TRUE, ts |-> 0]
Never  == 0

VARIABLES
  enabled,    \* d.settings.Listener.Enabled
  running,    \* d.listener.running
  cur,        \* the run of d.listener.cancel, NoRun for nil
  lastError,  \* d.listener.lastError # ""
  recent,     \* d.listener.recent, newest first
  seen,       \* d.listener.seen, Never for an absent key
  pc,         \* where each request is
  held,       \* the run whose cancel a stopListener took out of d.listener
  resume,     \* stopListener was called by UpdateSettings, which reconciles next
  last,       \* the newest run
  ctx,        \* the run's context is cancelled
  run,        \* where runListener is
  ad,         \* the advert runListener has still to check, NoAd otherwise
  reader,     \* where the reader goroutine of the run is
  offer,      \* the advert the reader has on offer, NoAd otherwise
  tried,      \* history: the timestamps downloaded from, in order, of each ID
  crowded     \* history: runs that were not alone from their start to their end

settingsVars == <<enabled>>
listenerVars == <<running, cur, lastError, recent, seen>>
callVars     == <<pc, held, resume>>
readerVars   == <<reader, offer>>
runVars      == <<last, ctx, run, ad>>
historyVars  == <<tried, crowded>>
vars == <<settingsVars, listenerVars, callVars, readerVars, runVars, historyVars>>

CallPC   == {"idle", "start", "load", "stop", "restart", "cancel", "reconcile"}
RunPC    == {"idle", "join", "joinError", "select", "check", "connect", "download",
             "setError", "logError", "logDone", "mark", "done"}
ReaderPC == {"idle", "read", "offer", "closed"}
Entry    == [run : Run, status : {"connecting", "error", "completed"}]

TypeOK ==
  /\ enabled \in BOOLEAN
  /\ running \in BOOLEAN /\ cur \in Run \cup {NoRun} /\ lastError \in BOOLEAN
  /\ recent \in Seq(Entry) /\ Len(recent) <= RecentCap
  /\ seen \in [Id -> Time \cup {Never}]
  /\ pc \in [Caller -> CallPC]
  /\ held \in [Caller -> Run \cup {NoRun}]
  /\ resume \in [Caller -> BOOLEAN]
  /\ last \in Run \cup {NoRun}
  /\ ctx \in [Run -> BOOLEAN]
  /\ run \in [Run -> RunPC]
  /\ ad \in [Run -> Advert \cup {NoAd}]
  /\ reader \in [Run -> ReaderPC]
  /\ offer \in [Run -> Advert \cup {NoAd}]
  /\ tried \in [Id -> Seq(Time)]
  /\ crowded \in SUBSET Run

(* cmd/senderd reconciles once before it serves IPC, so the listener may be  *)
(* running already.                                                          *)
Init ==
  /\ enabled \in BOOLEAN
  /\ running = enabled
  /\ cur  = IF enabled THEN 1 ELSE NoRun
  /\ last = IF enabled THEN 1 ELSE NoRun
  /\ run = [r \in Run |-> IF r = last THEN "join" ELSE "idle"]
  /\ lastError = FALSE /\ recent = <<>>
  /\ seen = [i \in Id |-> Never]
  /\ pc = [c \in Caller |-> "idle"]
  /\ held = [c \in Caller |-> NoRun]
  /\ resume = [c \in Caller |-> FALSE]
  /\ ctx = [r \in Run |-> FALSE]
  /\ ad = [r \in Run |-> NoAd]
  /\ reader = [r \in Run |-> "idle"]
  /\ offer = [r \in Run |-> NoAd]
  /\ tried = [i \in Id |-> <<>>]
  /\ crowded = {}

-----------------------------------------------------------------------------
(* Requests.  RoomForRun keeps a behaviour within MaxRuns.                   *)

RoomForRun == last + Cardinality({c \in Caller : pc[c] # "idle"}) < MaxRuns

Goto(c, label) == pc' = [pc EXCEPT ![c] = label]

(* The first critical section of startListener.                              *)
StartCheck(c, updateEnabled) ==
  /\ enabled' = (enabled \/ updateEnabled)
  /\ Goto(c, IF running THEN "idle" ELSE "load")
  /\ UNCHANGED <<listenerVars, held, resume, readerVars, runVars, historyVars>>

StartListener(c) ==
  /\ pc[c] = "idle" /\ RoomForRun
  /\ StartCheck(c, TRUE)

ReconcileStart(c) ==
  /\ pc[c] = "start"
  /\ StartCheck(c, FALSE)

(* The certificates cannot be loaded.                                        *)
StartFails(c) ==
  /\ pc[c] = "load"
  /\ lastError' = TRUE
  /\ Goto(c, "idle")
  /\ UNCHANGED <<settingsVars, running, cur, recent, seen, held, resume, readerVars,
                 runVars, historyVars>>

Live == {q \in 1 .. last : run[q] # "done"}

(* The second critical section of startListener; running is not read again.  *)
Install(c) ==
  /\ pc[c] = "load" /\ last < MaxRuns
  /\ LET r == last + 1 IN
     /\ last' = r /\ cur' = r
     /\ run' = [run EXCEPT ![r] = "join"]
     /\ crowded' = crowded \cup (IF Live = {} THEN {} ELSE Live \cup {r})
  /\ running' = TRUE /\ lastError' = FALSE
  /\ Goto(c, "idle")
  /\ UNCHANGED <<settingsVars, recent, seen, held, resume, ctx, ad, readerVars, tried>>

AfterStop(c) == IF resume[c] THEN "reconcile" ELSE "idle"

(* Mutant of StopCheck: d.listener.cancel is cleared before it is read.      *)
StopCheckForgets(c, updateEnabled) ==
  /\ enabled' = (enabled /\ ~updateEnabled)
  /\ running' = FALSE /\ cur' = NoRun
  /\ Goto(c, AfterStop(c))
  /\ UNCHANGED <<lastError, recent, seen, held, resume, readerVars, runVars, historyVars>>

(* The critical section of stopListener.                                     *)
StopCheck(c, updateEnabled) ==
  /\ enabled' = (enabled /\ ~updateEnabled)
  /\ running' = FALSE /\ cur' = NoRun
  /\ \/ running  /\ held' = [held EXCEPT ![c] = cur] /\ Goto(c, "cancel")
     \/ ~running /\ Goto(c, AfterStop(c)) /\ UNCHANGED held
  /\ UNCHANGED <<lastError, recent, seen, resume, readerVars, runVars, historyVars>>

StopListener(c) ==
  /\ pc[c] = "idle"
  /\ StopCheck(c, TRUE)

ReconcileStop(c) ==
  /\ pc[c] \in {"stop", "restart"}
  /\ StopCheck(c, FALSE)

StopCancel(c) ==
  /\ pc[c] = "cancel"
  /\ ctx' = [ctx EXCEPT ![held[c]] = TRUE]
  /\ held' = [held EXCEPT ![c] = NoRun]
  /\ Goto(c, AfterStop(c))
  /\ UNCHANGED <<settingsVars, listenerVars, resume, last, run, ad, readerVars,
                 historyVars>>

(* The listener's part of UpdateSettings and of the Reconcile it ends with.  *)
UpdateSettings(c) ==
  /\ pc[c] = "idle" /\ RoomForRun
  /\ enabled' \in BOOLEAN
  /\ resume' = [resume EXCEPT ![c] = running]
  /\ Goto(c, IF running THEN "restart" ELSE "reconcile")
  /\ UNCHANGED <<listenerVars, held, readerVars, runVars, historyVars>>

Reconcile(c) ==
  /\ pc[c] = "reconcile"
  /\ resume' = [resume EXCEPT ![c] = FALSE]
  /\ Goto(c, IF enabled THEN "start" ELSE "stop")
  /\ UNCHANGED <<settingsVars, listenerVars, held, readerVars, runVars, historyVars>>

-----------------------------------------------------------------------------
(* The reader goroutine of discovery.Listen.                                 *)

(* A packet that parses and verifies.  Others leave the reader where it is,  *)
(* without a look at the context: it is read only after 5 quiet seconds or   *)
(* while an advert is on offer.                                              *)
ReaderReceives(r) ==
  /\ reader[r] = "read"
  /\ \E a \in Advert : offer' = [offer EXCEPT ![r] = a]
  /\ reader' = [reader EXCEPT ![r] = "offer"]
  /\ UNCHANGED <<settingsVars, listenerVars, callVars, runVars, historyVars>>

(* The read deadline passes with the context cancelled, or the read fails.   *)
ReaderEnds(r) ==
  /\ reader[r] = "read"
  /\ reader' = [reader EXCEPT ![r] = "closed"]
  /\ UNCHANGED <<settingsVars, listenerVars, callVars, offer, runVars, historyVars>>

OfferCancelled(r) ==
  /\ reader[r] = "offer" /\ ctx[r]
  /\ reader' = [reader EXCEPT ![r] = "closed"]
  /\ offer' = [offer EXCEPT ![r] = NoAd]
  /\ UNCHANGED <<settingsVars, listenerVars, callVars, runVars, historyVars>>

-----------------------------------------------------------------------------
(* runListener.                                                              *)

At(r, from, to) == run[r] = from /\ run' = [run EXCEPT ![r] = to]

(* discovery.Listen resolves the address and joins the group, or fails.      *)
Join(r) ==
  /\ \/ At(r, "join", "select") /\ reader' = [reader EXCEPT ![r] = "read"]
     \/ At(r, "join", "joinError") /\ UNCHANGED reader
  /\ UNCHANGED <<settingsVars, listenerVars, callVars, last, ctx, ad, offer, historyVars>>

JoinError(r) ==
  /\ At(r, "joinError", "mark")
  /\ lastError' = TRUE
  /\ UNCHANGED <<settingsVars, running, cur, recent, seen, callVars, last, ctx, ad,
                 readerVars, historyVars>>

(* Mutant of SelectDone: the loop waits for the channel alone.               *)
SelectIgnoresDone(r) ==
  /\ ctx[r] /\ reader[r] = "closed" /\ At(r, "select", "mark")
  /\ UNCHANGED <<settingsVars, listenerVars, callVars, last, ctx, ad, readerVars,
                 historyVars>>

(* The select in the loop.  Go picks at random among the cases that are ready. *)
SelectDone(r) ==
  /\ ctx[r] /\ At(r, "select", "mark")
  /\ UNCHANGED <<settingsVars, listenerVars, callVars, last, ctx, ad, readerVars,
                 historyVars>>

SelectClosed(r) ==
  /\ reader[r] = "closed" /\ At(r, "select", "mark")
  /\ UNCHANGED <<settingsVars, listenerVars, callVars, last, ctx, ad, readerVars,
                 historyVars>>

SelectAdvert(r) ==
  /\ reader[r] = "offer" /\ At(r, "select", "check")
  /\ ad' = [ad EXCEPT ![r] = offer[r]]
  /\ reader' = [reader EXCEPT ![r] = "read"]
  /\ offer' = [offer EXCEPT ![r] = NoAd]
  /\ UNCHANGED <<settingsVars, listenerVars, callVars, last, ctx, historyVars>>

(* Mutant of IsOldAdvert: an advert with the timestamp last seen is new.     *)
IsOlderAdvert(r) ==
  LET a == ad[r] IN
  /\ \/ /\ a.ts < seen[a.id]
        /\ At(r, "check", "select")
        /\ UNCHANGED <<seen, tried>>
     \/ /\ a.ts >= seen[a.id]
        /\ At(r, "check", "connect")
        /\ seen' = [seen EXCEPT ![a.id] = a.ts]
        /\ tried' = [tried EXCEPT ![a.id] = Append(@, a.ts)]
  /\ ad' = [ad EXCEPT ![r] = NoAd]
  /\ UNCHANGED <<settingsVars, running, cur, lastError, recent, callVars, last, ctx,
                 readerVars, crowded>>

(* isOldAdvert: look the ID up and record the timestamp in one section.  It  *)
(* is recorded whatever becomes of the download.                             *)
IsOldAdvert(r) ==
  LET a == ad[r] IN
  /\ \/ /\ a.ts <= seen[a.id]
        /\ At(r, "check", "select")
        /\ UNCHANGED <<seen, tried>>
     \/ /\ a.ts > seen[a.id]
        /\ At(r, "check", "connect")
        /\ seen' = [seen EXCEPT ![a.id] = a.ts]
        /\ tried' = [tried EXCEPT ![a.id] = Append(@, a.ts)]
  /\ ad' = [ad EXCEPT ![r] = NoAd]
  /\ UNCHANGED <<settingsVars, running, cur, lastError, recent, callVars, last, ctx,
                 readerVars, crowded>>

(* Mutant of AddListenerEvent: the oldest entries are kept.                  *)
AppendListenerEvent(r, status) ==
  recent' = SubSeq(Append(recent, [run |-> r, status |-> status]), 1,
                   IF Len(recent) < RecentCap THEN Len(recent) + 1 ELSE RecentCap)

(* Mutant of AddListenerEvent: the log is not cut.                           *)
AddWithoutCut(r, status) ==
  recent' = <<[run |-> r, status |-> status]>> \o recent

AddListenerEvent(r, status) ==
  recent' = SubSeq(<<[run |-> r, status |-> status]>> \o recent, 1,
                   IF Len(recent) < RecentCap THEN Len(recent) + 1 ELSE RecentCap)

Log(r, from, status, to) ==
  /\ At(r, from, to)
  /\ AddListenerEvent(r, status)
  /\ UNCHANGED <<settingsVars, running, cur, lastError, seen, callVars, last, ctx, ad,
                 readerVars, historyVars>>

Connecting(r)   == Log(r, "connect", "connecting", "download")
LogError(r)     == Log(r, "logError", "error", "select")
LogCompleted(r) == Log(r, "logDone", "completed", "select")

(* client.Download returns.  It need not ever: it sets no deadline.          *)
DownloadEnds(r) ==
  /\ \/ At(r, "download", "logDone")
     \/ At(r, "download", "setError")
  /\ UNCHANGED <<settingsVars, listenerVars, callVars, last, ctx, ad, readerVars,
                 historyVars>>

DownloadError(r) ==
  /\ At(r, "setError", "logError")
  /\ lastError' = TRUE
  /\ UNCHANGED <<settingsVars, running, cur, recent, seen, callVars, last, ctx, ad,
                 readerVars, historyVars>>

(* Mutant of MarkListenerStopped: the cancel function is left in place.      *)
MarkKeepsCancel(r) ==
  /\ At(r, "mark", "done")
  /\ running' = FALSE
  /\ UNCHANGED <<settingsVars, cur, lastError, recent, seen, callVars, last, ctx, ad,
                 readerVars, historyVars>>

(* markListenerStopped does not look at whose listener it clears.            *)
MarkListenerStopped(r) ==
  /\ At(r, "mark", "done")
  /\ running' = FALSE /\ cur' = NoRun
  /\ UNCHANGED <<settingsVars, lastError, recent, seen, callVars, last, ctx, ad,
                 readerVars, historyVars>>

-----------------------------------------------------------------------------

Request(c) == StartListener(c) \/ StopListener(c) \/ UpdateSettings(c)

CallStep(c) ==
  \/ ReconcileStart(c) \/ StartFails(c) \/ Install(c)
  \/ ReconcileStop(c) \/ StopCancel(c) \/ Reconcile(c)

ReaderStep(r) == ReaderReceives(r) \/ ReaderEnds(r) \/ OfferCancelled(r)

(* What runListener does without waiting for the network.                    *)
LocalStep(r) ==
  \/ JoinError(r) \/ SelectClosed(r) \/ IsOldAdvert(r) \/ Connecting(r)
  \/ DownloadError(r) \/ LogError(r) \/ LogCompleted(r) \/ MarkListenerStopped(r)

RunStep(r) ==
  \/ Join(r) \/ SelectDone(r) \/ SelectAdvert(r) \/ DownloadEnds(r) \/ LocalStep(r)

Next ==
  \/ \E c \in Caller : Request(c) \/ CallStep(c)
  \/ \E r \in Run : ReaderStep(r) \/ RunStep(r)

Spec == Init /\ [][Next]_vars

(* Every runnable goroutine runs.  A random select cannot pass over a case   *)
(* that stays ready for ever, hence SF for SelectDone.  No packet ever has   *)
(* to arrive, no quiet 5 seconds has to come, no download has to end.        *)
Fairness ==
  /\ \A c \in Caller : WF_vars(CallStep(c))
  /\ \A r \in Run : /\ WF_vars(Join(r)) /\ WF_vars(LocalStep(r))
                    /\ WF_vars(OfferCancelled(r))
                    /\ SF_vars(SelectDone(r))

FairSpec == Spec /\ Fairness

-----------------------------------------------------------------------------
(* The listener downloads from an advert of one sender at most once, and     *)
(* never from one older than another it already tried: isOldAdvert checks    *)
(* and records in one section, so this holds for two overlapping runs and    *)
(* across restarts, for adverts that come again and out of order.            *)
NoRepeatedDownload ==
  \A i \in Id : \A m, n \in 1 .. Len(tried[i]) : m < n => tried[i][m] < tried[i][n]

(* A run that was alone from its start cannot be lost: while its context is  *)
(* live the daemon holds its cancel function, or a request is about to call  *)
(* it, or the run is over.                                                   *)
LoneRunIsReachable ==
  \A r \in (1 .. last) \ crowded :
    ctx[r] \/ cur = r \/ run[r] = "done" \/ \E c \in Caller : held[c] = r

(* The recent log agrees with the runs: the newest entry of a run that the   *)
(* log still holds is connecting exactly while its download is in progress   *)
(* or its result has still to be logged, however two runs interleave.        *)
RecentAgreesWithRuns ==
  \A r \in Run, k \in 1 .. Len(recent) :
    (recent[k].run = r /\ \A j \in 1 .. k - 1 : recent[j].run # r) =>
      (recent[k].status = "connecting" <=>
         run[r] \in {"download", "setError", "logError", "logDone"})

(* A run whose context is cancelled stops for good, or sits in its download, *)
(* even if the multicast group never falls silent; and its reader does not   *)
(* stay blocked on an advert that nobody takes.                              *)
CancelledRunWindsUp ==
  \A r \in Run :
    ctx[r] ~> [](run[r] \in {"done", "download"} /\ reader[r] # "offer")

(* Settings that disable the listener stop it: with no request in progress   *)
(* and the listener disabled, every run left has a cancelled context.        *)
DisabledListenerIsStopped ==
  (~enabled /\ \A c \in Caller : pc[c] = "idle") =>
    \A r \in 1 .. last : run[r] = "done" \/ ctx[r]

(* The listener is a Component whose runs, when they end, may take off their *)
(* successors.  A run is down once it is over or its context is cancelled.   *)
Listener == INSTANCE Component WITH
  OwnOnly <- FALSE,
  shown   <- cur,
  newest  <- last,
  loading <- Cardinality({c \in Caller : pc[c] = "load"}),
  doomed  <- {r \in Run : /\ ~ctx[r] /\ run[r] # "done"
                          /\ \E c \in Caller : pc[c] = "cancel" /\ held[c] = r},
  down    <- {r \in Run : ctx[r] \/ run[r] = "done"}

(* The interleavings of requests and ending runs show nothing that such a    *)
(* Component does not allow, and what a stop has taken off it cancels.       *)
IsComponent == Listener!Spec

=============================================================================
