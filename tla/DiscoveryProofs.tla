--------------------------- MODULE DiscoveryProofs ---------------------------
(***************************************************************************)
(* The safety of discovery, for any senders, IDs, clocks and time windows, *)
(* whatever the network loses, delays, repeats and reorders.               *)
(***************************************************************************)
EXTENDS Discovery, TLAPS

(* Only adverts that were made are anywhere, and a listener that is off has  *)
(* no goroutine left.                                                        *)
KnownRuns ==
  /\ \A r \in Run : bcast[r] # "none" \/ ~Untried(r) => r <= last
  /\ offer \in (1 .. last) \cup {NoRun} /\ ad \in (1 .. last) \cup {NoRun}
  /\ heard \subseteq 1 .. last

OffIsQuiet == state = "off" => reader = "off" /\ loop = "off"

TypeInv == TypeOK /\ KnownRuns /\ OffIsQuiet

(* The newest timestamp of an ID is that of an advert that was tried, and    *)
(* what is being downloaded is tried.                                        *)
SeenWasTried ==
  \A k \in Id : seen[k] # -1 =>
    \E q \in 1 .. last : ~Untried(q) /\ IdOf(q) = k /\ ts[q] = seen[k]

DownloadIsTried == loop = "download" => ~Untried(ad)

HeardInv == SeenWasTried /\ DownloadIsTried /\ HeardIsTried

(* An advert in the listener's hands was fresh when that listener ran.       *)
HeldWasFresh ==
  /\ joined <= now
  /\ \A r \in 1 .. last : r \in {offer, ad} => joined + offset <= ts[r] + Skew

FreshInv == HeldWasFresh /\ LateListenerHearsNothing

-----------------------------------------------------------------------------
(* Types.                                                                    *)

LEMMA RunType == \A r \in Run : r \in Nat /\ r # NoRun /\ NoRun \notin Run
  BY DiscoveryAssumption DEF Run, NoRun

LEMMA InitTypes == Init => TypeInv
<1> SUFFICES ASSUME Init PROVE TypeInv
  OBVIOUS
<1>1. 0 \in Clock /\ 0 \in 0 .. MaxRuns /\ 0 \in 0 .. MaxJoins
  BY DiscoveryAssumption DEF Clock
<1>2. owner \in [Run -> Sender]
  BY DiscoveryAssumption DEF Init
<1>3. TypeOK
  BY <1>1, <1>2, RunType DEF Init, TypeOK
<1>4. KnownRuns /\ OffIsQuiet
  BY DEF Init, KnownRuns, OffIsQuiet, Untried
<1> QED
  BY <1>3, <1>4 DEF TypeInv

(* The steps of senders, and time.                                           *)
LEMMA SenderStepKeepsTypes ==
  ASSUME TypeInv,
         Second \/ (\E s \in Sender : NewAdvert(s)) \/ (\E r \in Run : SenderStep(r))
  PROVE  TypeInv'
<1> USE DEF clockVars, senderVars, listenVars, loopVars, runVars, historyVars
<1> USE DiscoveryAssumption
<1>1. CASE Second
  <2>1. now' \in Clock
    BY <1>1 DEF Second, TypeInv, TypeOK, Clock
  <2> QED
    BY <1>1, <2>1 DEF Second, TypeInv, TypeOK, KnownRuns, OffIsQuiet, Untried
<1>2. ASSUME NEW s \in Sender, NewAdvert(s) PROVE TypeInv'
  <2>1. /\ last \in 0 .. MaxRuns /\ last < MaxRuns /\ last' = last + 1 /\ last + 1 \in Run
        /\ last' \in 0 .. MaxRuns /\ 1 .. last \subseteq 1 .. last'
    BY <1>2 DEF NewAdvert, TypeInv, TypeOK, Run
  <2>2. /\ owner' = [owner EXCEPT ![last + 1] = s] /\ ts' = [ts EXCEPT ![last + 1] = now]
        /\ bcast' = [bcast EXCEPT ![last + 1] = "dial"]
        /\ UNCHANGED <<clockVars, net, listenVars, loopVars, runVars, historyVars>>
    BY <1>2, <2>1 DEF NewAdvert
  <2>3. TypeOK'
    BY <2>1, <2>2 DEF TypeInv, TypeOK
  <2>4. \A r \in Run \ {last + 1} : bcast'[r] = bcast[r]
    BY <2>2 DEF TypeInv, TypeOK
  <2>5. \A r \in Run : bcast'[r] # "none" \/ ~Untried(r)' => r <= last'
    BY <2>1, <2>2, <2>4, RunType DEF TypeInv, KnownRuns, Untried
  <2>6. KnownRuns' /\ OffIsQuiet'
    BY <2>1, <2>2, <2>5 DEF TypeInv, KnownRuns, OffIsQuiet
  <2> QED
    BY <2>3, <2>6 DEF TypeInv
<1>3. ASSUME NEW r \in Run, SenderStep(r) PROVE TypeInv'
  <2>1. bcast[r] # "none" /\ r \in 1 .. last
    BY <1>3, RunType DEF SenderStep, Dial, Write, BroadcastEnds, TypeInv, KnownRuns, Run
  <2>2. /\ bcast' \in [Run -> {"none", "dial", "send", "ended"}] /\ net' \subseteq 1 .. last
        /\ \A q \in Run : bcast'[q] # "none" => bcast[q] # "none"
    BY <1>3, <2>1, ZenonT(60) DEF SenderStep, Dial, Write, BroadcastEnds, TypeInv, TypeOK
  <2>3. UNCHANGED <<clockVars, last, owner, ts, listenVars, loopVars, runVars, historyVars>>
    BY <1>3 DEF SenderStep, Dial, Write, BroadcastEnds
  <2> QED
    BY <2>2, <2>3 DEF TypeInv, TypeOK, KnownRuns, OffIsQuiet, Untried
<1> QED
  BY <1>1, <1>2, <1>3

(* The steps of the listener.                                                *)
ListenerStep ==
  \/ \E r \in Run : Receive(r)
  \/ StartListener \/ StopListener \/ ReaderEnds \/ ReadFails \/ LoopStep \/ DownloadEnds

LEMMA ListenerStepKeepsTypes ==
  ASSUME TypeInv, ListenerStep
  PROVE  TypeInv'
<1> USE DEF clockVars, senderVars, listenVars, loopVars, runVars, historyVars
<1>1. ASSUME NEW r \in Run, Receive(r) PROVE TypeInv'
  <2>1. r \in 1 .. last /\ r # NoRun
    BY <1>1, RunType DEF Receive, TypeInv, TypeOK
  <2>2. /\ reader' = "offer" /\ offer' = r /\ heard' \subseteq heard \cup {r}
        /\ dropped' \subseteq dropped /\ reader = "read"
        /\ UNCHANGED <<clockVars, senderVars, net, loopVars, runVars, tried>>
    BY <1>1 DEF Receive
  <2>3. TypeOK'
    BY <2>1, <2>2 DEF TypeInv, TypeOK
  <2>4. KnownRuns' /\ OffIsQuiet'
    BY <2>1, <2>2 DEF TypeInv, KnownRuns, OffIsQuiet, Untried
  <2> QED
    BY <2>3, <2>4 DEF TypeInv
<1>2. CASE StartListener
  <2>1. joins' \in 0 .. MaxJoins
    BY <1>2, DiscoveryAssumption DEF StartListener, TypeInv, TypeOK
  <2> QED
    BY <1>2, <2>1 DEF StartListener, TypeInv, TypeOK, KnownRuns, OffIsQuiet, Untried
<1>3. CASE StopListener \/ ReadFails \/ SelectDone \/ ListenerOff \/ DownloadEnds
  BY <1>3, ZenonT(60) DEF StopListener, ReadFails, SelectDone, ListenerOff, DownloadEnds,
              TypeInv, TypeOK, KnownRuns, OffIsQuiet, Untried
<1>4. CASE ReaderEnds
  BY <1>4 DEF ReaderEnds, TypeInv, TypeOK, KnownRuns, OffIsQuiet, Untried
<1>5. CASE SelectAdvert
  BY <1>5 DEF SelectAdvert, TypeInv, TypeOK, KnownRuns, OffIsQuiet, Untried
<1>6. CASE IsOldAdvert
  <2>1. ad \in Run /\ ad \in 1 .. last /\ IdOf(ad) \in Id /\ ts[ad] \in Clock
    BY <1>6 DEF IsOldAdvert, IdOf, TypeInv, TypeOK, KnownRuns
  <2>2. \/ loop' = "select" /\ ad' = NoRun /\ UNCHANGED <<seen, tried>>
        \/ /\ loop' = "download" /\ ad' = ad
           /\ seen' = [seen EXCEPT ![IdOf(ad)] = ts[ad]]
           /\ tried' = [tried EXCEPT ![ad] = joined]
    BY <1>6 DEF IsOldAdvert
  <2>3. UNCHANGED <<clockVars, senderVars, net, listenVars, runVars, heard, dropped>>
    BY <1>6 DEF IsOldAdvert
  <2>4. seen' \in [Id -> Clock \cup {-1}] /\ tried' \in [Run -> Clock \cup {-1}]
    BY <2>1, <2>2 DEF TypeInv, TypeOK
  <2>5. (loop' \in {"check", "download"}) <=> (ad' # NoRun)
    BY <2>1, <2>2, RunType
  <2>6. TypeOK'
    BY <2>1, <2>2, <2>3, <2>4, <2>5 DEF TypeInv, TypeOK
  <2>7. \A r \in Run : bcast'[r] # "none" \/ ~Untried(r)' => r <= last'
    BY <2>1, <2>2, <2>3, RunType DEF TypeInv, TypeOK, KnownRuns, Untried
  <2>8. state # "off"
    BY <1>6 DEF IsOldAdvert, TypeInv, OffIsQuiet
  <2>9. KnownRuns' /\ OffIsQuiet'
    BY <2>1, <2>2, <2>3, <2>7, <2>8 DEF TypeInv, KnownRuns, OffIsQuiet
  <2> QED
    BY <2>6, <2>9 DEF TypeInv
<1> QED
  BY <1>1, <1>2, <1>3, <1>4, <1>5, <1>6 DEF ListenerStep, LoopStep

LEMMA StepKeepsTypes == TypeInv /\ [Next]_vars => TypeInv'
<1> SUFFICES ASSUME TypeInv, [Next]_vars PROVE TypeInv'
  OBVIOUS
<1>1. CASE UNCHANGED vars
  BY <1>1 DEF vars, clockVars, senderVars, listenVars, loopVars, runVars, historyVars,
              TypeInv, TypeOK, KnownRuns, OffIsQuiet, Untried
<1>2. CASE Next
  BY <1>2, SenderStepKeepsTypes, ListenerStepKeepsTypes DEF Next, ListenerStep
<1> QED
  BY <1>1, <1>2

LEMMA TypesAlways == Spec => []TypeInv
<1>1. Init => TypeInv
  BY InitTypes
<1>2. TypeInv /\ [Next]_vars => TypeInv'
  BY StepKeepsTypes
<1> QED
  BY <1>1, <1>2, PTL DEF Spec

(* The variables keep their types: the network, the channel and the loop     *)
(* hold adverts of sender runs that were begun, the reader has an advert on  *)
(* offer exactly when it waits to hand it over, and the loop has one exactly *)
(* while it checks or downloads it.                                          *)
THEOREM DiscoveryTypeCorrect == Spec => []TypeOK
<1>1. TypeInv => TypeOK
  BY DEF TypeInv
<1> QED
  BY <1>1, TypesAlways, PTL

-----------------------------------------------------------------------------
(* An advert that verified is not lost.                                      *)

(* What a new sender run leaves as it was: all about the runs before it.     *)
LEMMA OlderRunsStay ==
  ASSUME TypeInv, NEW s \in Sender, NewAdvert(s)
  PROVE  /\ last' = last + 1 /\ 1 .. last' = (1 .. last) \cup {last + 1} /\ last + 1 \in Run
         /\ Untried(last + 1)
         /\ \A r \in 1 .. last : /\ r \in Run /\ r # last + 1 /\ ts'[r] = ts[r]
                                 /\ IdOf(r)' = IdOf(r) /\ Untried(r)' = Untried(r)
         /\ UNCHANGED <<clockVars, net, listenVars, loopVars, runVars, historyVars>>
<1>1. /\ last \in 0 .. MaxRuns /\ last < MaxRuns /\ last' = last + 1
      /\ owner' = [owner EXCEPT ![last + 1] = s] /\ ts' = [ts EXCEPT ![last + 1] = now]
      /\ UNCHANGED <<clockVars, net, listenVars, loopVars, runVars, historyVars>>
  BY DEF NewAdvert, TypeInv, TypeOK
<1>2. last \in Nat /\ last + 1 \in Run /\ 1 .. last' = (1 .. last) \cup {last + 1}
  BY <1>1, DiscoveryAssumption DEF Run
<1>3. Untried(last + 1)
  BY <1>2 DEF TypeInv, KnownRuns
<1>4. \A r \in 1 .. last : r \in Run /\ r # last + 1
  BY <1>1, <1>2, DiscoveryAssumption DEF Run
<1>5. ASSUME NEW r \in 1 .. last
      PROVE  ts'[r] = ts[r] /\ owner'[r] = owner[r]
  BY <1>1, <1>4 DEF TypeInv, TypeOK
<1>6. \A r \in 1 .. last : IdOf(r)' = IdOf(r) /\ Untried(r)' = Untried(r)
  BY <1>1, <1>5 DEF IdOf, Untried, clockVars, historyVars
<1> QED
  BY <1>1, <1>2, <1>3, <1>4, <1>5, <1>6

LEMMA InitHeard == Init => HeardInv
  BY DEF Init, HeardInv, SeenWasTried, DownloadIsTried, HeardIsTried

LEMMA NewAdvertKeepsHeard ==
  ASSUME TypeInv, HeardInv, NEW s \in Sender, NewAdvert(s)
  PROVE  HeardInv'
<1>1. /\ last' = last + 1 /\ 1 .. last' = (1 .. last) \cup {last + 1}
      /\ \A r \in 1 .. last : /\ r \in Run /\ r # last + 1 /\ ts'[r] = ts[r]
                              /\ IdOf(r)' = IdOf(r) /\ Untried(r)' = Untried(r)
  BY OlderRunsStay
<1>2. UNCHANGED <<offer, loop, ad, seen, heard, dropped, tried>>
  BY OlderRunsStay DEF listenVars, loopVars, historyVars
<1>3. SeenWasTried'
  BY <1>1, <1>2 DEF HeardInv, SeenWasTried
<1>4. DownloadIsTried'
  BY <1>2 DEF HeardInv, DownloadIsTried, Untried
<1>5. HeardIsTried'
  <2> SUFFICES ASSUME NEW r \in heard, Untried(r), r \notin {offer, ad}, r \notin dropped
               PROVE  Superseded(r)'
    BY <1>2 DEF HeardIsTried, Untried
  <2>1. r \in 1 .. last
    BY DEF TypeInv, KnownRuns
  <2>2. PICK q \in (1 .. last) \ {r} : ~Untried(q) /\ IdOf(q) = IdOf(r) /\ ts[q] >= ts[r]
    BY DEF HeardInv, HeardIsTried, Superseded
  <2> QED
    BY <1>1, <2>1, <2>2 DEF Superseded
<1> QED
  BY <1>3, <1>4, <1>5 DEF HeardInv

(* All but a new advert and the try of one.                                  *)
LEMMA OthersKeepHeard ==
  ASSUME TypeInv, HeardInv, UNCHANGED <<id, last, owner, ts, seen, tried>>,
         loop' = "download" => loop = "download" /\ ad' = ad,
         \A r \in heard' : \/ r \in heard /\ (r \in dropped => r \in dropped' \cup {offer'})
                                          /\ (r \in {offer, ad} => r \in {offer', ad'} \cup dropped'
                                                                   \/ ~Untried(r) \/ Superseded(r))
                           \/ r = offer'
  PROVE  HeardInv'
<1>1. \A r \in Run : IdOf(r)' = IdOf(r) /\ (Untried(r)' <=> Untried(r))
                     /\ (Superseded(r)' <=> Superseded(r))
  BY DEF IdOf, Untried, Superseded
<1>2. SeenWasTried'
  BY DEF HeardInv, SeenWasTried, IdOf, Untried
<1>3. DownloadIsTried'
  BY DEF HeardInv, DownloadIsTried, Untried
<1>4. HeardIsTried'
  <2> SUFFICES ASSUME NEW r \in heard'
               PROVE  ~Untried(r)' \/ Superseded(r)' \/ r \in {offer', ad'} \/ r \in dropped'
    BY DEF HeardIsTried
  <2>1. r \in heard \/ r = offer'
    OBVIOUS
  <2>2. CASE r # offer'
    <3>1. r \in heard /\ r \in Run
      BY <2>1, <2>2 DEF TypeInv, TypeOK
    <3>2. ~Untried(r) \/ Superseded(r) \/ r \in {offer, ad} \/ r \in dropped
      BY <3>1 DEF HeardInv, HeardIsTried
    <3> QED
      BY <1>1, <2>2, <3>1, <3>2
  <2> QED
    BY <2>2
<1> QED
  BY <1>2, <1>3, <1>4 DEF HeardInv

LEMMA TryKeepsHeard ==
  ASSUME TypeInv, HeardInv, IsOldAdvert
  PROVE  HeardInv'
<1> USE DEF clockVars, senderVars, listenVars, runVars
<1>1. ad \in Run /\ ad \in 1 .. last /\ IdOf(ad) \in Id /\ ts[ad] \in Clock /\ joined \in Clock
  BY DEF IsOldAdvert, IdOf, TypeInv, TypeOK, KnownRuns
<1>2. UNCHANGED <<id, last, owner, ts, offer, heard, dropped>> /\ loop = "check"
  BY DEF IsOldAdvert
<1>3. CASE /\ ts[ad] <= seen[IdOf(ad)] /\ loop' = "select" /\ ad' = NoRun
           /\ UNCHANGED <<seen, tried>>
  <2>1. seen[IdOf(ad)] # -1
    BY <1>1, <1>3 DEF Clock
  <2>2. PICK q \in 1 .. last : ~Untried(q) /\ IdOf(q) = IdOf(ad) /\ ts[q] = seen[IdOf(ad)]
    BY <1>1, <2>1 DEF HeardInv, SeenWasTried
  <2>3. ts[q] >= ts[ad]
    <3>1. ts[ad] \in Int /\ ts[q] \in Int
      BY <1>1, <2>2 DEF TypeInv, TypeOK, Clock, Run
    <3> QED
      BY <1>3, <2>2, <3>1
  <2>4. ~Untried(ad) \/ Superseded(ad)
    BY <2>2, <2>3 DEF Superseded
  <2> QED
    BY <1>2, <1>3, <2>4, OthersKeepHeard
<1>4. CASE /\ loop' = "download" /\ ad' = ad
           /\ seen' = [seen EXCEPT ![IdOf(ad)] = ts[ad]]
           /\ tried' = [tried EXCEPT ![ad] = joined]
  <2>1. /\ ~Untried(ad)' /\ \A r \in Run : ~Untried(r) => ~Untried(r)'
        /\ \A r : IdOf(r)' = IdOf(r)
    <3>1. /\ tried'[ad] = joined /\ joined # -1
          /\ \A r \in Run : r # ad => tried'[r] = tried[r]
      BY <1>1, <1>4, DiscoveryAssumption DEF TypeInv, TypeOK, Clock
    <3>2. \A r : IdOf(r)' = IdOf(r)
      BY <1>2 DEF IdOf
    <3> QED
      BY <1>4, <3>1, <3>2 DEF Untried
  <2>2. 1 .. last \subseteq Run
    BY DiscoveryAssumption DEF TypeInv, TypeOK, Run
  <2>3. SeenWasTried'
    <3> SUFFICES ASSUME NEW k \in Id, seen'[k] # -1
                 PROVE  \E q \in 1 .. last : ~Untried(q)' /\ IdOf(q)' = k /\ ts[q] = seen'[k]
      BY <1>2 DEF SeenWasTried
    <3>1. CASE k = IdOf(ad)
      BY <1>1, <1>4, <2>1, <3>1 DEF TypeInv, TypeOK
    <3>2. CASE k # IdOf(ad)
      <4>1. seen'[k] = seen[k]
        BY <1>4, <3>2 DEF TypeInv, TypeOK
      <4>2. PICK q \in 1 .. last : ~Untried(q) /\ IdOf(q) = k /\ ts[q] = seen[k]
        BY <4>1 DEF HeardInv, SeenWasTried
      <4> QED
        BY <2>1, <2>2, <4>1, <4>2
    <3> QED
      BY <3>1, <3>2
  <2>4. DownloadIsTried'
    BY <1>4, <2>1 DEF DownloadIsTried, Untried
  <2>5. HeardIsTried'
    <3> SUFFICES ASSUME NEW r \in heard
                 PROVE  ~Untried(r)' \/ Superseded(r)' \/ r \in {offer, ad} \/ r \in dropped
      BY <1>2, <1>4 DEF HeardIsTried
    <3>1. r \in Run
      BY DEF TypeInv, TypeOK
    <3>2. Superseded(r) => Superseded(r)'
      BY <1>2, <2>1, <2>2 DEF Superseded
    <3> QED
      BY <2>1, <3>1, <3>2 DEF HeardInv, HeardIsTried
  <2> QED
    BY <2>3, <2>4, <2>5 DEF HeardInv
<1> QED
  BY <1>3, <1>4 DEF IsOldAdvert

LEMMA StepKeepsHeard == TypeInv /\ HeardInv /\ [Next]_vars => HeardInv'
<1> SUFFICES ASSUME TypeInv, HeardInv, [Next]_vars PROVE HeardInv'
  OBVIOUS
<1> USE DEF clockVars, senderVars, listenVars, loopVars, runVars, historyVars
<1>1. CASE UNCHANGED vars \/ Second \/ StartListener \/ StopListener \/ SelectDone \/ ListenerOff
  <2>1. UNCHANGED <<id, last, owner, ts, offer, ad, seen, heard, dropped, tried>>
        /\ (loop' = "download" => loop = "download")
    BY <1>1 DEF vars, Second, StartListener, StopListener, SelectDone, ListenerOff
  <2> QED
    BY <2>1, OthersKeepHeard
<1>2. CASE ReadFails \/ \E r \in Run : SenderStep(r)
  <2>1. UNCHANGED <<id, last, owner, ts, offer, loop, ad, seen, heard, dropped, tried>>
    BY <1>2 DEF ReadFails, SenderStep, Dial, Write, BroadcastEnds
  <2> QED
    BY <2>1, OthersKeepHeard
<1>3. ASSUME NEW s \in Sender, NewAdvert(s) PROVE HeardInv'
  BY <1>3, NewAdvertKeepsHeard
<1>4. ASSUME NEW r \in Run, Receive(r) PROVE HeardInv'
  <2>1. /\ UNCHANGED <<id, last, owner, ts, loop, ad, seen, tried>>
        /\ offer' = r /\ heard' \subseteq heard \cup {r} /\ dropped' = dropped \ {r}
    BY <1>4 DEF Receive
  <2>2. offer = NoRun /\ NoRun \notin heard
    BY <1>4, RunType DEF Receive, TypeInv, TypeOK
  <2> QED
    BY <2>1, <2>2, OthersKeepHeard
<1>5. CASE ReaderEnds
  <2>1. /\ UNCHANGED <<id, last, owner, ts, loop, ad, seen, tried, heard>>
        /\ offer' = NoRun
        /\ dropped' = dropped \cup (IF reader = "offer" THEN {offer} ELSE {})
    BY <1>5 DEF ReaderEnds
  <2>2. NoRun \notin heard /\ (offer # NoRun => reader = "offer")
    BY RunType DEF TypeInv, TypeOK
  <2> QED
    BY <2>1, <2>2, OthersKeepHeard
<1>6. CASE SelectAdvert
  <2>1. /\ UNCHANGED <<id, last, owner, ts, seen, tried, heard, dropped>>
        /\ ad' = offer /\ loop' = "check" /\ loop = "select"
    BY <1>6 DEF SelectAdvert
  <2>2. NoRun \notin heard /\ ad = NoRun
    BY <2>1, RunType DEF TypeInv, TypeOK
  <2> QED
    BY <2>1, <2>2, OthersKeepHeard
<1>7. CASE IsOldAdvert
  BY <1>7, TryKeepsHeard
<1>8. CASE DownloadEnds
  <2>1. /\ UNCHANGED <<id, last, owner, ts, offer, seen, tried, heard, dropped>>
        /\ loop = "download" /\ loop' = "select" /\ ad' = NoRun
    BY <1>8 DEF DownloadEnds
  <2>2. ~Untried(ad)
    BY <2>1 DEF HeardInv, DownloadIsTried
  <2> QED
    BY <2>1, <2>2, OthersKeepHeard
<1> QED
  BY <1>1, <1>2, <1>3, <1>4, <1>5, <1>6, <1>7, <1>8 DEF Next, LoopStep

(* No advert that verified is lost between the reader and the download: it   *)
(* is tried, or one of its ID that is as new was, or it is in the channel or *)
(* being checked, or it was on offer when the listener was stopped.  The     *)
(* newest timestamp of an ID is always that of an advert that was tried, so  *)
(* isOldAdvert rejects only what is superseded.                              *)
THEOREM DiscoveryHeardIsTried == Spec => []HeardIsTried
<1>1. Init => HeardInv
  BY InitHeard
<1>2. TypeInv /\ HeardInv /\ [Next]_vars => HeardInv'
  BY StepKeepsHeard
<1>3. HeardInv => HeardIsTried
  BY DEF HeardInv
<1> QED
  BY <1>1, <1>2, <1>3, TypesAlways, PTL DEF Spec

-----------------------------------------------------------------------------
(* A listener that comes late.                                               *)

LEMMA InitFresh == Init => FreshInv
  BY DEF Init, FreshInv, HeldWasFresh, LateListenerHearsNothing

LEMMA StepKeepsFresh == TypeInv /\ FreshInv /\ [Next]_vars => FreshInv'
<1> SUFFICES ASSUME TypeInv, FreshInv, [Next]_vars PROVE FreshInv'
  OBVIOUS
<1> USE DEF clockVars, senderVars, listenVars, loopVars, runVars, historyVars
<1>1. /\ now \in Nat /\ joined \in Nat /\ offset \in Int /\ Skew \in Nat /\ last \in Nat
      /\ 1 .. last \subseteq Run
      /\ \A r \in Run : ts[r] \in Nat /\ tried[r] \in Int
  BY DiscoveryAssumption DEF TypeInv, TypeOK, Clock, Run
<1>2. CASE UNCHANGED vars \/ StopListener \/ SelectDone \/ ListenerOff \/ ReadFails
           \/ (\E r \in Run : SenderStep(r))
  <2>1. UNCHANGED <<now, offset, last, ts, joined, offer, ad, tried>>
    BY <1>2
    DEF vars, StopListener, SelectDone, ListenerOff, ReadFails, SenderStep, Dial, Write, BroadcastEnds
  <2> QED
    BY <2>1 DEF FreshInv, HeldWasFresh, LateListenerHearsNothing, Untried
<1>3. CASE Second
  <2>1. UNCHANGED <<offset, last, ts, joined, offer, ad, tried>> /\ now' = now + 1
    BY <1>3 DEF Second
  <2> QED
    BY <1>1, <2>1 DEF FreshInv, HeldWasFresh, LateListenerHearsNothing, Untried
<1>4. CASE StartListener
  <2>1. /\ UNCHANGED <<now, offset, last, ts, offer, ad, tried>> /\ joined' = now
        /\ offer = NoRun /\ ad = NoRun /\ NoRun \notin Run
    BY <1>4, RunType DEF StartListener, TypeInv, TypeOK, OffIsQuiet
  <2> QED
    BY <1>1, <2>1 DEF FreshInv, HeldWasFresh, LateListenerHearsNothing, Untried
<1>5. ASSUME NEW s \in Sender, NewAdvert(s) PROVE FreshInv'
  <2>1. /\ last' = last + 1 /\ 1 .. last' = (1 .. last) \cup {last + 1} /\ Untried(last + 1)
        /\ \A r \in 1 .. last : r # last + 1 /\ ts'[r] = ts[r] /\ Untried(r)' = Untried(r)
        /\ UNCHANGED <<now, offset, joined, offer, ad, tried>>
    BY <1>5, OlderRunsStay
  <2>2. last + 1 \notin {offer, ad}
    BY <1>1, RunType DEF TypeInv, KnownRuns, NoRun
  <2>3. HeldWasFresh'
    BY <2>1, <2>2 DEF FreshInv, HeldWasFresh
  <2>4. LateListenerHearsNothing'
    BY <2>1 DEF FreshInv, LateListenerHearsNothing, Untried
  <2> QED
    BY <2>3, <2>4 DEF FreshInv
<1>6. ASSUME NEW r \in Run, Receive(r) PROVE FreshInv'
  <2>1. /\ UNCHANGED <<now, offset, last, ts, joined, ad, tried>>
        /\ offer' = r /\ now + offset - ts[r] <= Skew
    BY <1>6 DEF Receive, Fresh
  <2>2. joined + offset <= ts[r] + Skew
    BY <1>1, <2>1 DEF FreshInv, HeldWasFresh
  <2> QED
    BY <2>1, <2>2 DEF FreshInv, HeldWasFresh, LateListenerHearsNothing, Untried
<1>7. CASE ReaderEnds \/ SelectAdvert \/ DownloadEnds
  <2>1. /\ UNCHANGED <<now, offset, last, ts, joined, tried>>
        /\ {offer', ad'} \subseteq {offer, ad, NoRun} /\ NoRun \notin Run
    BY <1>7, RunType DEF ReaderEnds, SelectAdvert, DownloadEnds
  <2> QED
    BY <1>1, <2>1 DEF FreshInv, HeldWasFresh, LateListenerHearsNothing, Untried
<1>8. CASE IsOldAdvert
  <2>1. /\ UNCHANGED <<now, offset, last, ts, joined, offer>> /\ ad' \in {ad, NoRun}
        /\ tried' = tried \/ tried' = [tried EXCEPT ![ad] = joined]
        /\ NoRun \notin Run /\ loop = "check"
    BY <1>8, RunType DEF IsOldAdvert
  <2>2. ad \in 1 .. last
    BY <2>1 DEF TypeInv, TypeOK, KnownRuns
  <2>3. joined + offset <= ts[ad] + Skew
    BY <2>2 DEF FreshInv, HeldWasFresh
  <2>4. HeldWasFresh'
    BY <1>1, <2>1 DEF FreshInv, HeldWasFresh
  <2>5. \A r \in 1 .. last : tried'[r] = tried[r] \/ (r = ad /\ tried'[r] = joined)
    BY <1>1, <2>1 DEF TypeInv, TypeOK
  <2>6. LateListenerHearsNothing'
    BY <2>1, <2>3, <2>5 DEF FreshInv, LateListenerHearsNothing, Untried
  <2> QED
    BY <2>4, <2>6 DEF FreshInv
<1> QED
  BY <1>2, <1>3, <1>4, <1>5, <1>6, <1>7, <1>8 DEF Next, LoopStep

(* A listener that starts when an advert is older than Skew by its own clock *)
(* never downloads from that sender run: whatever it tries was fresh when it *)
(* was received, by the clock of a listener run that had started by then.    *)
THEOREM DiscoveryLateListenerHearsNothing == Spec => []LateListenerHearsNothing
<1>1. Init => FreshInv
  BY InitFresh
<1>2. TypeInv /\ FreshInv /\ [Next]_vars => FreshInv'
  BY StepKeepsFresh
<1>3. FreshInv => LateListenerHearsNothing
  BY DEF FreshInv
<1> QED
  BY <1>1, <1>2, <1>3, TypesAlways, PTL DEF Spec

=============================================================================
