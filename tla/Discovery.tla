----------------------------- MODULE Discovery -----------------------------
(***************************************************************************)
(* Discovery in time (internal/discovery/advert.go): senders that stamp    *)
(* and sign one advert when they start and multicast it for as long as     *)
(* they run, a network that loses, delays, repeats and reorders it, and a  *)
(* listener that rejects what is too old or too new, offers the rest over  *)
(* an unbuffered channel and tries each sender's newest advert.            *)
(*                                                                         *)
(* Time is counted in units of the advert's timestamp (seconds).  The      *)
(* listener's clock may differ from the senders'.  Senders are daemons;    *)
(* two of them may have one ID (sender-1 is the default of -sender-id).    *)
(* An advert is named by the run that made it; that its signature and      *)
(* certificate verify is assumed.  ListenerDaemon has what the listener    *)
(* does under the daemon's lock, and overlapping listener runs.            *)
(*                                                                         *)
(* The network may deliver an advert that was sent once as late and as     *)
(* often as it likes, so how often Broadcast sends it makes no difference. *)
(***************************************************************************)
EXTENDS Integers, FiniteSets

CONSTANTS
  Sender,     \* daemons that send
  Id,         \* sender IDs
  Skew,       \* Verify's maxSkew (two minutes)
  Offset,     \* how far the listener's clock may be ahead
  MaxTime,    \* bound: the clock
  MaxRuns,    \* bound: sender starts
  MaxJoins    \* bound: listener starts

ASSUME DiscoveryAssumption ==
  /\ Sender # {} /\ IsFiniteSet(Sender) /\ Id # {}
  /\ Skew \in Nat \ {0}
  /\ Offset \subseteq Int /\ Offset # {}
  /\ MaxTime \in Nat /\ MaxRuns \in Nat \ {0} /\ MaxJoins \in Nat \ {0}

Run   == 1 .. MaxRuns
NoRun == 0
Clock == 0 .. MaxTime

VARIABLES
  now,      \* the senders' clock
  offset,   \* the listener's clock less the senders'
  id,       \* each sender's ID
  last,     \* sender runs so far
  owner,    \* the sender of a run
  ts,       \* the timestamp of the run's advert
  bcast,    \* where Broadcast of the run is
  net,      \* adverts the network may deliver, again and again
  state,    \* the listener: off, on, or on with its context cancelled
  joined,   \* when the listener started
  joins,    \* how often
  reader,   \* the goroutine of Listen
  offer,    \* the advert it has on offer
  loop,     \* runListener
  ad,       \* the advert runListener works on
  seen,     \* d.listener.seen: the newest timestamp tried of each ID, -1 for none
  heard,    \* history: adverts that verified, and had not been tried at the time
  dropped,  \* history: adverts on offer when the listener was stopped
  tried     \* history: the start of the listener run that tried the advert, -1 for none

clockVars    == <<now, offset, id>>
senderVars   == <<last, owner, ts, bcast>>
listenVars   == <<reader, offer>>
loopVars     == <<loop, ad, seen>>
runVars      == <<state, joined, joins>>
historyVars  == <<heard, dropped, tried>>
vars == <<clockVars, senderVars, net, listenVars, loopVars, runVars, historyVars>>

TypeOK ==
  /\ now \in Clock /\ offset \in Offset /\ id \in [Sender -> Id]
  /\ last \in 0 .. MaxRuns
  /\ owner \in [Run -> Sender] /\ ts \in [Run -> Clock]
  /\ bcast \in [Run -> {"none", "dial", "send", "ended"}]
  /\ net \subseteq 1 .. last
  /\ state \in {"off", "on", "cancelled"} /\ joined \in Clock /\ joins \in 0 .. MaxJoins
  /\ reader \in {"off", "read", "offer"} /\ offer \in Run \cup {NoRun}
  /\ (reader = "offer") <=> (offer # NoRun)
  /\ loop \in {"off", "select", "check", "download"} /\ ad \in Run \cup {NoRun}
  /\ (loop \in {"check", "download"}) <=> (ad # NoRun)
  /\ seen \in [Id -> Clock \cup {-1}]
  /\ heard \subseteq Run /\ dropped \subseteq Run
  /\ tried \in [Run -> Clock \cup {-1}]

Init ==
  /\ now = 0 /\ offset \in Offset /\ id \in [Sender -> Id]
  /\ last = 0
  /\ owner = [r \in Run |-> CHOOSE s \in Sender : TRUE]
  /\ ts = [r \in Run |-> 0] /\ bcast = [r \in Run |-> "none"]
  /\ net = {}
  /\ state = "off" /\ joined = 0 /\ joins = 0
  /\ reader = "off" /\ offer = NoRun /\ loop = "off" /\ ad = NoRun
  /\ seen = [i \in Id |-> -1]
  /\ heard = {} /\ dropped = {} /\ tried = [r \in Run |-> -1]

IdOf(r) == id[owner[r]]

-----------------------------------------------------------------------------
(* Senders.                                                                  *)

Active(s) == \E r \in 1 .. last : owner[r] = s /\ bcast[r] # "ended"

(* startSender makes the advert and starts Broadcast.                        *)
NewAdvert(s) ==
  /\ last < MaxRuns /\ ~Active(s)
  /\ LET r == last + 1 IN
     /\ last' = r
     /\ owner' = [owner EXCEPT ![r] = s]
     /\ ts' = [ts EXCEPT ![r] = now]
     /\ bcast' = [bcast EXCEPT ![r] = "dial"]
  /\ UNCHANGED <<clockVars, net, listenVars, loopVars, runVars, historyVars>>

(* Broadcast resolves the group and dials it.                                *)
Dial(r) ==
  /\ bcast[r] = "dial"
  /\ bcast' = [bcast EXCEPT ![r] = "send"]
  /\ UNCHANGED <<clockVars, last, owner, ts, net, listenVars, loopVars, runVars, historyVars>>

(* conn.Write, once more with every tick: always the same payload.           *)
Write(r) ==
  /\ bcast[r] = "send"
  /\ net' = net \cup {r}
  /\ UNCHANGED <<clockVars, senderVars, listenVars, loopVars, runVars, historyVars>>

(* Broadcast ends: it cannot dial, cannot write, or the run is over.         *)
BroadcastEnds(r) ==
  /\ bcast[r] \in {"dial", "send"}
  /\ bcast' = [bcast EXCEPT ![r] = "ended"]
  /\ UNCHANGED <<clockVars, last, owner, ts, net, listenVars, loopVars, runVars, historyVars>>

Second ==
  /\ now < MaxTime /\ now' = now + 1
  /\ UNCHANGED <<offset, id, senderVars, net, listenVars, loopVars, runVars, historyVars>>

-----------------------------------------------------------------------------
(* The reader.                                                               *)

(* Mutant of Fresh: adverts from the past are not rejected.                  *)
NotFromTheFuture(r) == ts[r] - (now + offset) <= Skew

(* The time check of Verify, by the listener's clock.                        *)
Fresh(r) == now + offset - ts[r] <= Skew /\ ts[r] - (now + offset) <= Skew

Untried(r) == tried[r] = -1

(* A packet arrives and verifies.  One that does not is dropped.             *)
Receive(r) ==
  /\ reader = "read" /\ r \in net /\ Fresh(r)
  /\ reader' = "offer" /\ offer' = r
  /\ heard' = IF Untried(r) THEN heard \cup {r} ELSE heard
  /\ dropped' = dropped \ {r}
  /\ UNCHANGED <<clockVars, senderVars, net, loopVars, runVars, tried>>

(* Mutant of ReaderEnds: the advert on offer is not withdrawn.               *)
ReaderKeepsOffer ==
  /\ state = "cancelled" /\ reader # "off"
  /\ reader' = "off"
  /\ UNCHANGED <<clockVars, senderVars, net, offer, loopVars, runVars, historyVars>>

(* The reader sees the end of its context: while it has an advert on offer,  *)
(* or when 5 seconds pass without a packet.                                  *)
ReaderEnds ==
  /\ state = "cancelled" /\ reader # "off"
  /\ reader' = "off" /\ offer' = NoRun
  /\ dropped' = dropped \cup (IF reader = "offer" THEN {offer} ELSE {})
  /\ UNCHANGED <<clockVars, senderVars, net, loopVars, runVars, heard, tried>>

ReadFails ==
  /\ reader = "read"
  /\ reader' = "off"
  /\ UNCHANGED <<clockVars, senderVars, net, offer, loopVars, runVars, historyVars>>

-----------------------------------------------------------------------------
(* runListener, and its start and stop with one run at a time.               *)

StartListener ==
  /\ state = "off" /\ joins < MaxJoins
  /\ state' = "on" /\ joined' = now /\ joins' = joins + 1
  /\ reader' = "read" /\ loop' = "select"
  /\ UNCHANGED <<clockVars, senderVars, net, offer, ad, seen, historyVars>>

StopListener ==
  /\ state = "on"
  /\ state' = "cancelled"
  /\ UNCHANGED <<clockVars, senderVars, net, listenVars, loopVars, joined, joins,
                 historyVars>>

(* The context is cancelled, or the reader closed the channel.               *)
SelectDone ==
  /\ loop = "select" /\ (state = "cancelled" \/ reader = "off")
  /\ loop' = "off"
  /\ UNCHANGED <<clockVars, senderVars, net, listenVars, ad, seen, runVars, historyVars>>

ListenerOff ==
  /\ state # "off" /\ loop = "off" /\ reader = "off"
  /\ state' = "off"
  /\ UNCHANGED <<clockVars, senderVars, net, listenVars, loopVars, joined, joins,
                 historyVars>>

SelectAdvert ==
  /\ loop = "select" /\ reader = "offer"
  /\ loop' = "check" /\ ad' = offer
  /\ reader' = "read" /\ offer' = NoRun
  /\ UNCHANGED <<clockVars, senderVars, net, seen, runVars, historyVars>>

(* Mutant of IsOldAdvert: an old advert ends the loop.                       *)
OldAdvertEndsLoop ==
  /\ loop = "check"
  /\ \/ /\ ts[ad] <= seen[IdOf(ad)]
        /\ loop' = "off" /\ ad' = NoRun
        /\ UNCHANGED <<seen, tried>>
     \/ /\ ts[ad] > seen[IdOf(ad)]
        /\ loop' = "download"
        /\ seen' = [seen EXCEPT ![IdOf(ad)] = ts[ad]]
        /\ tried' = [tried EXCEPT ![ad] = joined]
        /\ UNCHANGED ad
  /\ UNCHANGED <<clockVars, senderVars, net, listenVars, runVars, heard, dropped>>

(* Mutant of IsOldAdvert: one timestamp for all IDs.                         *)
OneTimestamp ==
  /\ loop = "check"
  /\ \/ /\ \E i \in Id : ts[ad] <= seen[i]
        /\ loop' = "select" /\ ad' = NoRun
        /\ UNCHANGED <<seen, tried>>
     \/ /\ \A i \in Id : ts[ad] > seen[i]
        /\ loop' = "download"
        /\ seen' = [seen EXCEPT ![IdOf(ad)] = ts[ad]]
        /\ tried' = [tried EXCEPT ![ad] = joined]
        /\ UNCHANGED ad
  /\ UNCHANGED <<clockVars, senderVars, net, listenVars, runVars, heard, dropped>>

(* isOldAdvert, and the download begins.                                     *)
IsOldAdvert ==
  /\ loop = "check"
  /\ \/ /\ ts[ad] <= seen[IdOf(ad)]
        /\ loop' = "select" /\ ad' = NoRun
        /\ UNCHANGED <<seen, tried>>
     \/ /\ ts[ad] > seen[IdOf(ad)]
        /\ loop' = "download"
        /\ seen' = [seen EXCEPT ![IdOf(ad)] = ts[ad]]
        /\ tried' = [tried EXCEPT ![ad] = joined]
        /\ UNCHANGED ad
  /\ UNCHANGED <<clockVars, senderVars, net, listenVars, runVars, heard, dropped>>

(* The download succeeds or fails; nothing is taken back.                    *)
DownloadEnds ==
  /\ loop = "download"
  /\ loop' = "select" /\ ad' = NoRun
  /\ UNCHANGED <<clockVars, senderVars, net, listenVars, seen, runVars, historyVars>>

-----------------------------------------------------------------------------

SenderStep(r) == Dial(r) \/ Write(r) \/ BroadcastEnds(r)

LoopStep == SelectDone \/ SelectAdvert \/ IsOldAdvert \/ ListenerOff

Next ==
  \/ Second
  \/ \E s \in Sender : NewAdvert(s)
  \/ \E r \in Run : SenderStep(r) \/ Receive(r)
  \/ StartListener \/ StopListener \/ ReaderEnds \/ ReadFails \/ LoopStep \/ DownloadEnds

Spec == Init /\ [][Next]_vars

(* The listener's goroutines go on when they can.  Nothing is assumed of the *)
(* network, of the senders, of time, or of a download.                       *)
Fairness == WF_vars(LoopStep) /\ WF_vars(ReaderEnds)

FairSpec == Spec /\ Fairness

-----------------------------------------------------------------------------
(* r comes too late: an advert of the same ID with the same or a later       *)
(* timestamp was tried, perhaps of another daemon with that ID, perhaps of a *)
(* run of the same daemon within the same second.                            *)
Superseded(r) ==
  \E q \in (1 .. last) \ {r} : ~Untried(q) /\ IdOf(q) = IdOf(r) /\ ts[q] >= ts[r]

(* An advert that verified is not lost on its way to the download: it is     *)
(* tried, or superseded, or on its way, or it was on offer when the listener *)
(* was stopped; adverts of other IDs, old ones and restarts do not matter.   *)
HeardIsTried ==
  \A r \in heard : ~Untried(r) \/ Superseded(r) \/ r \in {offer, ad} \/ r \in dropped

(* An advert is never renewed (advert.go:54, advert.go:198): a listener that *)
(* starts when the advert is older than Skew, by its own clock, never        *)
(* downloads from that sender run, however long that goes on.                *)
LateListenerHearsNothing ==
  \A r \in 1 .. last : ~Untried(r) => tried[r] + offset <= ts[r] + Skew

(* Nor does it wait for ever: an advert on offer is tried or found old, or   *)
(* the listener was stopped, or sits in a download that does not end.        *)
OfferIsTaken ==
  \A r \in Run :
    offer = r ~> \/ ~Untried(r) \/ Superseded(r) \/ state # "on" \/ loop = "download"

=============================================================================
