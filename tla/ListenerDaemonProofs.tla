------------------------ MODULE ListenerDaemonProofs ------------------------
(***************************************************************************)
(* The safety of the listener's life cycle, for any number of requests in  *)
(* progress, any adverts, any size of the log and any number of runs.      *)
(***************************************************************************)
EXTENDS ListenerDaemon, SequenceTheorems, FiniteSetTheorems, TLAPS

(* A run that was not started yet does nothing.                              *)
RunsInOrder == \A r \in Run : r > last => run[r] = "idle"

(* d.listener and the requests name runs that were started; running and the  *)
(* cancel function go together; a request holds a run while it is about to   *)
(* cancel it.                                                                *)
HoldersAgree ==
  /\ cur <= last /\ (running <=> cur # NoRun)
  /\ \A c \in Caller : pc[c] = "cancel" <=> held[c] # NoRun

(* Two runs that are both going on know it: either is crowded.               *)
LoneRunIsAlone ==
  \A r, q \in 1 .. last :
    r # q /\ run[r] # "done" /\ run[q] # "done" => r \in crowded

LifeInv == RunsInOrder /\ HoldersAgree /\ LoneRunIsAlone /\ LoneRunIsReachable

(* seen has the greatest timestamp tried.                                    *)
SeenIsLatest == \A i \in Id : \A n \in 1 .. Len(tried[i]) : tried[i][n] <= seen[i]

-----------------------------------------------------------------------------
(* Types.                                                                    *)

LEMMA InitTypes == Init => TypeOK
<1> SUFFICES ASSUME Init PROVE TypeOK
  OBVIOUS
<1>1. <<>> \in Seq(Entry) /\ Len(<<>>) <= RecentCap
  BY ListenerAssumption
<1>2. NoAd \in Advert \cup {NoAd}
  OBVIOUS
<1>3. recent \in Seq(Entry) /\ Len(recent) <= RecentCap
  BY <1>1 DEF Init
<1>4. /\ seen \in [Id -> Time \cup {Never}] /\ tried \in [Id -> Seq(Time)]
      /\ ad \in [Run -> Advert \cup {NoAd}] /\ offer \in [Run -> Advert \cup {NoAd}]
  BY <1>2 DEF Init
<1>5. /\ pc \in [Caller -> CallPC] /\ held \in [Caller -> Run \cup {NoRun}]
      /\ resume \in [Caller -> BOOLEAN]
  BY DEF Init, CallPC
<1>6. /\ run \in [Run -> RunPC] /\ reader \in [Run -> ReaderPC] /\ ctx \in [Run -> BOOLEAN]
  BY DEF Init, RunPC, ReaderPC
<1>7. /\ cur \in Run \cup {NoRun} /\ last \in Run \cup {NoRun}
      /\ enabled \in BOOLEAN /\ running \in BOOLEAN /\ lastError \in BOOLEAN
      /\ crowded \in SUBSET Run
  <2>1. enabled \in BOOLEAN /\ running \in BOOLEAN /\ lastError \in BOOLEAN /\ crowded = {}
    BY DEF Init
  <2>2. cur \in {1, NoRun} /\ last \in {1, NoRun}
    BY DEF Init
  <2> QED
    BY <2>1, <2>2, ListenerAssumption DEF Run
<1> QED
  BY <1>3, <1>4, <1>5, <1>6, <1>7 DEF TypeOK

LEMMA CallKeepsTypes ==
  ASSUME TypeOK, NEW c \in Caller, Request(c) \/ CallStep(c)
  PROVE  TypeOK'
<1> USE DEF TypeOK, Run, NoRun, CallPC, Goto, AfterStop, settingsVars, listenerVars,
        readerVars, runVars, historyVars
<1>1. ASSUME NEW b \in BOOLEAN, StartCheck(c, b) PROVE TypeOK'
  BY <1>1 DEF StartCheck
<1>2. ASSUME NEW b \in BOOLEAN, StopCheck(c, b) PROVE TypeOK'
  <2>1. CASE running
    BY <1>2, <2>1, ZenonT(60) DEF StopCheck
  <2>2. CASE ~running
    BY <1>2, <2>2 DEF StopCheck
  <2> QED
    BY <2>1, <2>2
<1>3. ASSUME StartFails(c) PROVE TypeOK'
  BY <1>3 DEF StartFails
<1>4. ASSUME Install(c) PROVE TypeOK'
  <2>1. last + 1 \in Run
    BY <1>4, ListenerAssumption DEF Install
  <2>2. crowded' \in SUBSET Run
    <3>1. \A q \in 1 .. last : q \in Run
      BY <2>1, ListenerAssumption
    <3>2. Live \cup {last + 1} \subseteq Run
      BY <2>1, <3>1 DEF Live
    <3> QED
      BY <1>4, <3>2 DEF Install
  <2>3. run' \in [Run -> RunPC]
    BY <1>4, <2>1 DEF Install, RunPC
  <2> QED
    BY <1>4, <2>1, <2>2, <2>3 DEF Install
<1>5. ASSUME StopCancel(c) PROVE TypeOK'
  BY <1>5 DEF StopCancel
<1>6. ASSUME UpdateSettings(c) PROVE TypeOK'
  BY <1>6 DEF UpdateSettings
<1>7. ASSUME Reconcile(c) PROVE TypeOK'
  BY <1>7 DEF Reconcile
<1> QED
  BY <1>1, <1>2, <1>3, <1>4, <1>5, <1>6, <1>7
     DEF Request, CallStep, StartListener, ReconcileStart, StopListener, ReconcileStop

LEMMA ReaderKeepsTypes ==
  ASSUME TypeOK, NEW r \in Run, ReaderStep(r)
  PROVE  TypeOK'
<1> USE DEF TypeOK, ReaderPC, settingsVars, listenerVars, callVars, runVars, historyVars
<1>1. ASSUME ReaderReceives(r) PROVE TypeOK'
  BY <1>1 DEF ReaderReceives
<1>2. ASSUME ReaderEnds(r) PROVE TypeOK'
  BY <1>2 DEF ReaderEnds
<1>3. ASSUME OfferCancelled(r) PROVE TypeOK'
  BY <1>3 DEF OfferCancelled
<1> QED
  BY <1>1, <1>2, <1>3 DEF ReaderStep

(* The log stays a sequence of entries and within its size.                  *)
LEMMA LogType ==
  ASSUME recent \in Seq(Entry), NEW r \in Run,
         NEW s \in {"connecting", "error", "completed"}, AddListenerEvent(r, s)
  PROVE  recent' \in Seq(Entry) /\ Len(recent') <= RecentCap
<1> DEFINE e == [run |-> r, status |-> s]
           n == IF Len(recent) < RecentCap THEN Len(recent) + 1 ELSE RecentCap
<1>1. Len(recent) \in Nat /\ RecentCap \in Nat \ {0}
  BY ListenerAssumption
<1>2. e \in Entry
  BY DEF Entry
<1>3. <<e>> \in Seq(Entry) /\ Len(<<e>>) = 1
  BY <1>2
<1>4. /\ <<e>> \o recent \in Seq(Entry)
      /\ Len(<<e>> \o recent) = Len(recent) + 1
  BY <1>3, ConcatProperties
<1>5. n \in Nat /\ n <= RecentCap /\ n <= Len(recent) + 1
  BY <1>1
<1>6. recent' = SubSeq(<<e>> \o recent, 1, n)
  BY DEF AddListenerEvent
<1> HIDE DEF e, n
<1>7. \A k \in 1 .. n : (<<e>> \o recent)[k] \in Entry
  BY <1>4, <1>5, <1>1, ElementOfSeq
<1>8. SubSeq(<<e>> \o recent, 1, n) \in Seq(Entry)
      /\ Len(SubSeq(<<e>> \o recent, 1, n)) = IF 1 <= n THEN n - 1 + 1 ELSE 0
  BY <1>5, <1>7, SubSeqProperties
<1> QED
  BY <1>1, <1>5, <1>6, <1>8

LEMMA RunKeepsTypes ==
  ASSUME TypeOK, NEW r \in Run, RunStep(r)
  PROVE  TypeOK'
<1> USE DEF TypeOK, Run, NoRun, RunPC, ReaderPC, At, settingsVars, listenerVars, callVars,
        readerVars, historyVars
<1>1. ASSUME Join(r) PROVE TypeOK'
  BY <1>1, ZenonT(60) DEF Join
<1>2. ASSUME JoinError(r) PROVE TypeOK'
  BY <1>2 DEF JoinError
<1>3. ASSUME SelectDone(r) \/ SelectClosed(r) PROVE TypeOK'
  BY <1>3, ZenonT(60) DEF SelectDone, SelectClosed
<1>4. ASSUME SelectAdvert(r) PROVE TypeOK'
  BY <1>4 DEF SelectAdvert
<1>5. ASSUME IsOldAdvert(r) PROVE TypeOK'
  <2> DEFINE a == ad[r]
  <2>1. a.id \in Id
    BY ListenerAssumption DEF Advert, NoAd
  <2>2. ad' \in [Run -> Advert \cup {NoAd}] /\ run' \in [Run -> RunPC]
    BY <1>5 DEF IsOldAdvert
  <2>3. CASE a.ts <= seen[a.id] /\ UNCHANGED <<seen, tried>>
    BY <1>5, <2>2, <2>3 DEF IsOldAdvert
  <2>4. CASE /\ a.ts > seen[a.id]
             /\ seen' = [seen EXCEPT ![a.id] = a.ts]
             /\ tried' = [tried EXCEPT ![a.id] = Append(@, a.ts)]
    <3>1. seen[a.id] \in Nat
      <4>1. seen[a.id] \in Time \cup {Never}
        BY <2>1
      <4>2. Time \cup {Never} \subseteq Nat
        BY ListenerAssumption DEF Never
      <4> QED
        BY <4>1, <4>2
    <3>2. a \in Advert \cup {NoAd} /\ NoAd.ts = 0 /\ a.ts # 0
      BY <2>4, <3>1 DEF NoAd
    <3>3. a.ts \in Time
      BY <3>2 DEF Advert
    <3> HIDE DEF a
    <3>4. seen' \in [Id -> Time \cup {Never}]
      BY <2>1, <2>4, <3>3
    <3>5. tried' \in [Id -> Seq(Time)]
      BY <2>1, <2>4, <3>3
    <3> QED
      BY <1>5, <2>2, <3>4, <3>5 DEF IsOldAdvert
  <2> QED
    BY <1>5, <2>3, <2>4 DEF IsOldAdvert
<1>6. ASSUME Connecting(r) \/ LogError(r) \/ LogCompleted(r) PROVE TypeOK'
  <2>1. PICK s \in {"connecting", "error", "completed"} : AddListenerEvent(r, s)
    BY <1>6 DEF Connecting, LogError, LogCompleted, Log
  <2>2. recent' \in Seq(Entry) /\ Len(recent') <= RecentCap
    BY <2>1, LogType
  <2>3. PICK from \in RunPC, to \in RunPC : At(r, from, to)
    <3>1. At(r, "connect", "download") \/ At(r, "logError", "select") \/ At(r, "logDone", "select")
      BY <1>6 DEF Connecting, LogError, LogCompleted, Log
    <3> QED
      BY <3>1 DEF RunPC
  <2> QED
    BY <1>6, <2>2, <2>3 DEF Connecting, LogError, LogCompleted, Log
<1>7. ASSUME DownloadEnds(r) PROVE TypeOK'
  BY <1>7 DEF DownloadEnds
<1>8. ASSUME DownloadError(r) PROVE TypeOK'
  BY <1>8 DEF DownloadError
<1>9. ASSUME MarkListenerStopped(r) PROVE TypeOK'
  BY <1>9 DEF MarkListenerStopped
<1> QED
  BY <1>1, <1>2, <1>3, <1>4, <1>5, <1>6, <1>7, <1>8, <1>9 DEF RunStep, LocalStep

LEMMA StepKeepsTypes == TypeOK /\ [Next]_vars => TypeOK'
<1>1. ASSUME TypeOK, UNCHANGED vars PROVE TypeOK'
  BY <1>1 DEF TypeOK, vars, settingsVars, listenerVars, callVars, readerVars, runVars,
     historyVars
<1> QED
  BY <1>1, CallKeepsTypes, ReaderKeepsTypes, RunKeepsTypes DEF Next

(* Type correctness for any constants.                                       *)
THEOREM ListenerTypeCorrect == Spec => []TypeOK
BY InitTypes, StepKeepsTypes, PTL DEF Spec

-----------------------------------------------------------------------------
(* Adverts.                                                                  *)

AdvertInv == SeenIsLatest /\ NoRepeatedDownload

(* The only step that touches seen and tried is isOldAdvert, and it appends  *)
(* a timestamp greater than all before it.                                   *)
LEMMA IsOldAdvertKeepsOrder ==
  ASSUME TypeOK, AdvertInv, NEW r \in Run, IsOldAdvert(r)
  PROVE  AdvertInv'
<1> DEFINE a == ad[r]
<1>1. a.id \in Id
  BY ListenerAssumption DEF TypeOK, Advert, NoAd
<1>2. \A i \in Id : /\ seen[i] \in Nat
                    /\ tried[i] \in Seq(Time)
                    /\ \A n \in 1 .. Len(tried[i]) : tried[i][n] \in Nat
  <2>1. Time \subseteq Nat /\ Time \cup {Never} \subseteq Nat
    BY ListenerAssumption DEF Never
  <2>2. ASSUME NEW i \in Id
        PROVE  seen[i] \in Time \cup {Never} /\ tried[i] \in Seq(Time)
    BY DEF TypeOK
  <2>3. ASSUME NEW i \in Id, NEW n \in 1 .. Len(tried[i]) PROVE tried[i][n] \in Time
    BY <2>2, ElementOfSeq
  <2> QED
    BY <2>1, <2>2, <2>3
<1>3. CASE UNCHANGED <<seen, tried>>
  BY <1>3 DEF AdvertInv, SeenIsLatest, NoRepeatedDownload
<1>4. CASE /\ a.ts > seen[a.id]
           /\ seen' = [seen EXCEPT ![a.id] = a.ts]
           /\ tried' = [tried EXCEPT ![a.id] = Append(@, a.ts)]
  <2>1. a.ts \in Nat
    <3>1. a \in Advert \cup {NoAd}
      BY DEF TypeOK
    <3>2. NoAd.ts = 0 /\ Time \subseteq Nat
      BY ListenerAssumption DEF NoAd
    <3> HIDE DEF a
    <3>3. CASE a \in Advert
      BY <3>2, <3>3 DEF Advert
    <3>4. CASE a = NoAd
      BY <3>2, <3>4
    <3> QED
      BY <3>1, <3>3, <3>4
  <2>2. /\ seen'[a.id] = a.ts
        /\ tried'[a.id] = Append(tried[a.id], a.ts)
        /\ \A i \in Id \ {a.id} : seen'[i] = seen[i] /\ tried'[i] = tried[i]
    BY <1>1, <1>4 DEF TypeOK
  <2> HIDE DEF a
  <2> DEFINE t == tried[a.id]
             u == Append(t, a.ts)
  <2>3. /\ Len(t) \in Nat /\ Len(u) = Len(t) + 1
        /\ \A n \in 1 .. Len(t) : u[n] = t[n] /\ t[n] \in Nat /\ t[n] <= seen[a.id]
        /\ u[Len(t) + 1] = a.ts
    BY <1>1, <1>2, SMTT(60) DEF AdvertInv, SeenIsLatest
  <2> HIDE DEF t, u
  <2>4. \A n \in 1 .. Len(u) : u[n] <= a.ts
    BY <1>1, <1>2, <1>4, <2>1, <2>3, SMTT(60)
  <2>5. \A m, n \in 1 .. Len(u) : m < n => u[m] < u[n]
    <3> SUFFICES ASSUME NEW m \in 1 .. Len(u), NEW n \in 1 .. Len(u), m < n
                 PROVE  u[m] < u[n]
      OBVIOUS
    <3>1. CASE n <= Len(t)
      <4>1. t[m] < t[n]
        BY <3>1, <2>3, <1>1, SMTT(60) DEF t, AdvertInv, NoRepeatedDownload
      <4> QED
        BY <4>1, <3>1, <2>3
    <3>2. CASE n = Len(t) + 1
      BY <3>2, <1>1, <1>2, <1>4, <2>1, <2>3, SMTT(60)
    <3>3. n <= Len(t) \/ n = Len(t) + 1
      <4>1. Len(t) \in Nat /\ n \in 1 .. Len(t) + 1
        BY <2>3
      <4> QED
        BY <4>1
    <3> QED
      BY <3>1, <3>2, <3>3, Zenon
  <2>6. tried'[a.id] = u
    BY <2>2 DEF t, u
  <2>7. SeenIsLatest'
    BY <2>2, <2>4, <2>6 DEF AdvertInv, SeenIsLatest
  <2>8. NoRepeatedDownload'
    BY <2>2, <2>5, <2>6 DEF AdvertInv, NoRepeatedDownload
  <2> QED
    BY <2>7, <2>8 DEF AdvertInv
<1> QED
  BY <1>3, <1>4 DEF IsOldAdvert

LEMMA OthersKeepAdverts ==
  ASSUME [Next]_vars, \A r \in Run : ~IsOldAdvert(r)
  PROVE  UNCHANGED <<seen, tried>>
<1> USE DEF settingsVars, listenerVars, callVars, readerVars, runVars, historyVars
<1>1. ASSUME NEW c \in Caller, Request(c) \/ CallStep(c) PROVE UNCHANGED <<seen, tried>>
  BY <1>1 DEF Request, CallStep, StartListener, ReconcileStart, StartCheck, StartFails,
     Install, StopListener, ReconcileStop, StopCheck, StopCancel, UpdateSettings, Reconcile
<1>2. ASSUME NEW r \in Run, ReaderStep(r) PROVE UNCHANGED <<seen, tried>>
  BY <1>2 DEF ReaderStep, ReaderReceives, ReaderEnds, OfferCancelled
<1>3. ASSUME NEW r \in Run, RunStep(r) PROVE UNCHANGED <<seen, tried>>
  BY <1>3 DEF RunStep, LocalStep, Join, JoinError, SelectDone, SelectClosed, SelectAdvert,
     Connecting, LogError, LogCompleted, Log, DownloadEnds, DownloadError,
     MarkListenerStopped
<1> QED
  BY <1>1, <1>2, <1>3 DEF Next, vars

(* Two runs that overlap and runs that follow each other never download      *)
(* twice from one advert, nor from one that is older than another.           *)
THEOREM ListenerNoRepeatedDownload == Spec => []NoRepeatedDownload
<1>1. Init => AdvertInv
  BY DEF Init, AdvertInv, SeenIsLatest, NoRepeatedDownload
<1>2. TypeOK /\ AdvertInv /\ [Next]_vars => AdvertInv'
  <2>1. ASSUME AdvertInv, UNCHANGED <<seen, tried>> PROVE AdvertInv'
    BY <2>1 DEF AdvertInv, SeenIsLatest, NoRepeatedDownload
  <2> QED
    BY <2>1, IsOldAdvertKeepsOrder, OthersKeepAdverts
<1>3. AdvertInv => NoRepeatedDownload
  BY DEF AdvertInv
<1> QED
  BY <1>1, <1>2, <1>3, ListenerTypeCorrect, PTL DEF Spec

-----------------------------------------------------------------------------
(* The life cycle.                                                           *)

LEMMA InitLife == Init => LifeInv
<1> SUFFICES ASSUME Init PROVE LifeInv
  OBVIOUS
<1>1. /\ last \in {0, 1} /\ cur = last /\ (running <=> cur # NoRun) /\ NoRun = 0
      /\ \A c \in Caller : pc[c] = "idle" /\ held[c] = NoRun
  BY DEF Init, NoRun
<1>2. RunsInOrder
  BY <1>1 DEF Init, RunsInOrder, Run
<1>3. HoldersAgree
  BY <1>1 DEF HoldersAgree
<1>4. LoneRunIsAlone /\ LoneRunIsReachable
  BY <1>1 DEF LoneRunIsAlone, LoneRunIsReachable
<1> QED
  BY <1>2, <1>3, <1>4 DEF LifeInv

(* Steps that touch neither d.listener nor a context, and end no run.        *)
LEMMA QuietStep ==
  ASSUME LifeInv, TypeOK, UNCHANGED <<running, cur, held, last, ctx, crowded>>,
         \A c \in Caller : pc'[c] = "cancel" <=> pc[c] = "cancel",
         \A q \in Run : /\ run'[q] = "done" <=> run[q] = "done"
                        /\ run'[q] = "idle" <=> run[q] = "idle"
  PROVE  LifeInv'
<1>1. \A q \in 1 .. last : q \in Run
  BY ListenerAssumption DEF TypeOK, Run, NoRun
<1>2. RunsInOrder' /\ HoldersAgree'
  BY DEF LifeInv, RunsInOrder, HoldersAgree
<1>3. LoneRunIsAlone'
  BY <1>1 DEF LifeInv, LoneRunIsAlone
<1>4. LoneRunIsReachable'
  BY <1>1 DEF LifeInv, LoneRunIsReachable
<1> QED
  BY <1>2, <1>3, <1>4 DEF LifeInv

LEMMA StopCheckKeepsLife ==
  ASSUME LifeInv, TypeOK, NEW c \in Caller, NEW b \in BOOLEAN,
         pc[c] \in {"idle", "stop", "restart"}, StopCheck(c, b)
  PROVE  LifeInv'
<1> USE DEF StopCheck, AfterStop, Goto, runVars, historyVars, TypeOK, LifeInv, HoldersAgree
<1>1. held[c] = NoRun /\ UNCHANGED <<last, run, ctx, crowded>> /\ cur' = NoRun /\ ~running'
  BY DEF NoRun
<1>2. RunsInOrder' /\ LoneRunIsAlone'
  BY <1>1 DEF RunsInOrder, LoneRunIsAlone
<1>3. NoRun <= last
  BY ListenerAssumption DEF NoRun, Run
<1>4. CASE running
  <2>1. /\ cur # NoRun /\ held' = [held EXCEPT ![c] = cur]
        /\ pc' = [pc EXCEPT ![c] = "cancel"]
    BY <1>4
  <2>2. HoldersAgree'
    BY <1>1, <1>3, <2>1
  <2>3. LoneRunIsReachable'
    BY <1>1, <2>1 DEF LoneRunIsReachable
  <2> QED
    BY <1>2, <2>2, <2>3
<1>5. CASE ~running
  <2>1. /\ cur = NoRun /\ held' = held
        /\ pc' = [pc EXCEPT ![c] = IF resume[c] THEN "reconcile" ELSE "idle"]
    BY <1>5
  <2>2. HoldersAgree'
    BY <1>1, <1>3, <2>1
  <2>3. LoneRunIsReachable'
    BY <1>1, <2>1 DEF LoneRunIsReachable
  <2> QED
    BY <1>2, <2>2, <2>3
<1> QED
  BY <1>4, <1>5

(* A new run that meets one that is going on makes both crowded.             *)
LEMMA InstallKeepsLife ==
  ASSUME LifeInv, TypeOK, NEW c \in Caller, Install(c)
  PROVE  LifeInv'
<1> DEFINE r == last + 1
<1>1. /\ r \in Run /\ last \in Nat /\ last' = r /\ cur' = r /\ r # NoRun /\ running'
      /\ run' = [run EXCEPT ![r] = "join"] /\ UNCHANGED <<held, ctx>>
      /\ pc[c] = "load" /\ pc' = [pc EXCEPT ![c] = "idle"]
      /\ crowded' = crowded \cup (IF Live = {} THEN {} ELSE Live \cup {r})
  BY ListenerAssumption DEF Install, Goto, TypeOK, Run, NoRun
<1>2. \A q \in 1 .. last : q \in Run /\ q \in 1 .. r /\ q # r /\ run'[q] = run[q]
  BY <1>1, ListenerAssumption DEF Run, TypeOK
<1>3. \A q \in 1 .. r : q \in 1 .. last \/ q = r
  BY <1>1
<1>4. \A q \in 1 .. last : run[q] # "done" => q \in crowded' /\ r \in crowded'
  BY <1>1 DEF Live
<1>5. RunsInOrder'
  <2>1. \A q \in Run : q > r => q > last /\ q # r
    BY <1>1 DEF Run
  <2> QED
    BY <1>1, <2>1 DEF LifeInv, RunsInOrder, TypeOK
<1>6. HoldersAgree'
  BY <1>1 DEF LifeInv, HoldersAgree, TypeOK
<1>7. LoneRunIsAlone'
  BY <1>1, <1>2, <1>3, <1>4 DEF LifeInv, LoneRunIsAlone
<1>8. LoneRunIsReachable'
  BY <1>1, <1>2, <1>3, <1>4 DEF LoneRunIsReachable
<1> QED
  BY <1>5, <1>6, <1>7, <1>8 DEF LifeInv

LEMMA StopCancelKeepsLife ==
  ASSUME LifeInv, TypeOK, NEW c \in Caller, StopCancel(c)
  PROVE  LifeInv'
<1>1. /\ pc[c] = "cancel" /\ held[c] \in Run /\ UNCHANGED <<running, cur, last, run, crowded>>
      /\ ctx' = [ctx EXCEPT ![held[c]] = TRUE] /\ held' = [held EXCEPT ![c] = NoRun]
      /\ pc' = [pc EXCEPT ![c] = AfterStop(c)]
  BY DEF StopCancel, Goto, listenerVars, historyVars, TypeOK, LifeInv, HoldersAgree
<1>2. RunsInOrder' /\ LoneRunIsAlone'
  BY <1>1 DEF LifeInv, RunsInOrder, LoneRunIsAlone
<1>3. HoldersAgree'
  BY <1>1 DEF LifeInv, HoldersAgree, TypeOK, AfterStop
<1>4. LoneRunIsReachable'
  <2>1. \A q \in 1 .. last : q \in Run
    BY ListenerAssumption DEF TypeOK, Run, NoRun
  <2>2. ctx'[held[c]] /\ \A q \in Run : ctx[q] => ctx'[q]
    BY <1>1 DEF TypeOK
  <2>3. \A d \in Caller : d # c => held'[d] = held[d]
    BY <1>1 DEF TypeOK
  <2> QED
    BY <1>1, <2>1, <2>2, <2>3 DEF LifeInv, LoneRunIsReachable
<1> QED
  BY <1>2, <1>3, <1>4 DEF LifeInv

(* The end of a run clears d.listener, whoever is in it.  A lone run that is *)
(* not over cannot be in it then, unless it is the one that ends.            *)
LEMMA MarkKeepsLife ==
  ASSUME LifeInv, TypeOK, NEW r \in Run, MarkListenerStopped(r)
  PROVE  LifeInv'
<1>1. /\ run[r] = "mark" /\ run' = [run EXCEPT ![r] = "done"] /\ cur' = NoRun /\ ~running'
      /\ UNCHANGED <<pc, held, last, ctx, crowded>>
  BY DEF MarkListenerStopped, At, callVars, historyVars
<1>2. r \in 1 .. last /\ \A q \in 1 .. last : q \in Run
  BY <1>1, ListenerAssumption DEF LifeInv, RunsInOrder, TypeOK, Run, NoRun
<1>3. /\ run'[r] = "done" /\ \A q \in Run : q # r => run'[q] = run[q]
  BY <1>1 DEF TypeOK
<1>4. RunsInOrder'
  BY <1>1, <1>2, <1>3 DEF LifeInv, RunsInOrder
<1>5. HoldersAgree'
  BY <1>1, ListenerAssumption DEF LifeInv, HoldersAgree, TypeOK, Run, NoRun
<1>6. LoneRunIsAlone'
  BY <1>1, <1>2, <1>3 DEF LifeInv, LoneRunIsAlone
<1>7. LoneRunIsReachable'
  BY <1>1, <1>2, <1>3 DEF LifeInv, LoneRunIsAlone, LoneRunIsReachable
<1> QED
  BY <1>4, <1>5, <1>6, <1>7 DEF LifeInv

LEMMA CallKeepsLife ==
  ASSUME LifeInv, TypeOK, NEW c \in Caller, Request(c) \/ CallStep(c)
  PROVE  LifeInv'
<1> USE DEF Goto, listenerVars, runVars, historyVars
<1>1. ASSUME StopListener(c) \/ ReconcileStop(c) PROVE LifeInv'
  BY <1>1, StopCheckKeepsLife DEF StopListener, ReconcileStop
<1>2. ASSUME NEW b \in BOOLEAN, StartCheck(c, b), pc[c] \in {"idle", "start"} PROVE LifeInv'
  BY <1>2, QuietStep DEF StartCheck, TypeOK
<1>3. ASSUME StartFails(c) \/ UpdateSettings(c) \/ Reconcile(c) PROVE LifeInv'
  BY <1>3, QuietStep DEF StartFails, UpdateSettings, Reconcile, TypeOK
<1> QED
  BY <1>1, <1>2, <1>3, InstallKeepsLife, StopCancelKeepsLife
     DEF Request, CallStep, StartListener, ReconcileStart

LEMMA RunKeepsLife ==
  ASSUME LifeInv, TypeOK, NEW r \in Run, ReaderStep(r) \/ RunStep(r)
  PROVE  LifeInv'
<1> USE DEF settingsVars, listenerVars, callVars, runVars, readerVars, historyVars
<1>1. ASSUME ReaderStep(r) PROVE LifeInv'
  BY <1>1, QuietStep DEF ReaderStep, ReaderReceives, ReaderEnds, OfferCancelled
<1>2. ASSUME RunStep(r), ~MarkListenerStopped(r) PROVE LifeInv'
  <2>1. UNCHANGED <<running, cur, pc, held, last, ctx, crowded>>
    BY <1>2 DEF RunStep, LocalStep, Join, JoinError, SelectDone, SelectClosed, SelectAdvert,
       IsOldAdvert, Connecting, LogError, LogCompleted, Log, DownloadEnds, DownloadError
  <2>2. \E to \in RunPC \ {"idle", "done"} :
          run[r] \notin {"idle", "done"} /\ run' = [run EXCEPT ![r] = to]
    BY <1>2 DEF RunStep, LocalStep, Join, JoinError, SelectDone, SelectClosed, SelectAdvert,
       IsOldAdvert, Connecting, LogError, LogCompleted, Log, DownloadEnds, DownloadError,
       At, RunPC
  <2>3. \A q \in Run : /\ run'[q] = "done" <=> run[q] = "done"
                       /\ run'[q] = "idle" <=> run[q] = "idle"
    BY <2>2 DEF TypeOK
  <2> QED
    BY <2>1, <2>3, QuietStep, SMTT(60)
<1> QED
  BY <1>1, <1>2, MarkKeepsLife

(* d.listener, the requests that stop a run and the runs that are going on   *)
(* agree, at every critical section of startListener, stopListener and       *)
(* markListenerStopped.                                                      *)
THEOREM SpecKeepsLife == Spec => []LifeInv
<1>1. LifeInv /\ TypeOK /\ [Next]_vars => LifeInv'
  <2>1. ASSUME LifeInv, TypeOK, UNCHANGED vars PROVE LifeInv'
    BY <2>1, QuietStep DEF vars, listenerVars, callVars, runVars, historyVars
  <2> QED
    BY <2>1, CallKeepsLife, RunKeepsLife DEF Next
<1> QED
  BY InitLife, <1>1, ListenerTypeCorrect, PTL DEF Spec

(* A listener run that no other overlaps can always be stopped.              *)
THEOREM ListenerLoneRunIsReachable == Spec => []LoneRunIsReachable
BY SpecKeepsLife, PTL DEF LifeInv

-----------------------------------------------------------------------------
(* The listener implements Component, as far as its steps go.                *)

Loading == {c \in Caller : pc[c] = "load"}
Doomed  == {q \in Run : /\ ~ctx[q] /\ run[q] # "done"
                        /\ \E c \in Caller : pc[c] = "cancel" /\ held[c] = q}
Down    == {q \in Run : ctx[q] \/ run[q] = "done"}

(* The number of starts under way, when one caller moves on.                 *)
LEMMA LoadingCounts ==
  ASSUME TypeOK, NEW c \in Caller, NEW label, pc' = [pc EXCEPT ![c] = label]
  PROVE  /\ (label = "load" /\ pc[c] # "load") =>
              Cardinality(Loading') = Cardinality(Loading) + 1
         /\ (label # "load" /\ pc[c] = "load") =>
              /\ Cardinality(Loading) > 0
              /\ Cardinality(Loading') = Cardinality(Loading) - 1
         /\ (label = "load" <=> pc[c] = "load") => Loading' = Loading
<1>1. IsFiniteSet(Loading) /\ Cardinality(Loading) \in Nat
  BY ListenerAssumption, FS_Subset, FS_CardinalityType DEF Loading
<1>2. ASSUME label = "load", pc[c] # "load"
      PROVE  Cardinality(Loading') = Cardinality(Loading) + 1
  <2>1. Loading' = Loading \cup {c} /\ c \notin Loading
    BY <1>2 DEF Loading, TypeOK
  <2> QED
    BY <1>1, <2>1, FS_AddElement
<1>3. ASSUME label # "load", pc[c] = "load"
      PROVE  /\ Cardinality(Loading) > 0
             /\ Cardinality(Loading') = Cardinality(Loading) - 1
  <2>1. Loading' = Loading \ {c} /\ c \in Loading
    BY <1>3 DEF Loading, TypeOK
  <2>2. Cardinality(Loading) # 0
    BY <1>1, <2>1, FS_EmptySet
  <2> QED
    BY <1>1, <2>1, <2>2, FS_RemoveElement, SMTT(60)
<1>4. ASSUME label = "load" <=> pc[c] = "load" PROVE Loading' = Loading
  BY <1>4 DEF Loading, TypeOK
<1> QED
  BY <1>2, <1>3, <1>4

LEMMA ComponentInit == Init => Listener!Init
<1> SUFFICES ASSUME Init PROVE Listener!Init
  OBVIOUS
<1>1. cur \in {0, 1} /\ last = cur
  BY DEF Init, NoRun
<1>2. Loading = {} /\ Doomed = {} /\ Down = {}
  BY DEF Init, Loading, Doomed, Down
<1>3. Cardinality(Loading) = 0
  BY <1>2, FS_EmptySet
<1> QED
  BY <1>1, <1>2, <1>3 DEF Listener!Init, Listener!NoRun, Loading, Doomed, Down

(* What Component sees of a step.                                            *)
Stutters == UNCHANGED <<cur, last, Cardinality(Loading), Doomed, Down>>

LEMMA CallImplementsComponent ==
  ASSUME TypeOK, LifeInv, NEW c \in Caller, Request(c) \/ CallStep(c)
  PROVE  Listener!Next \/ UNCHANGED Listener!vars
<1> USE DEF Goto, listenerVars, runVars, historyVars
<1>1. ASSUME NEW b \in BOOLEAN, StartCheck(c, b), pc[c] \in {"idle", "start"}
      PROVE  Listener!Check \/ Stutters
  <2>1. UNCHANGED <<cur, last, ctx, run, held>>
    BY <1>1 DEF StartCheck
  <2>2. Doomed' = Doomed /\ Down' = Down
    BY <1>1, <2>1 DEF StartCheck, Doomed, Down, TypeOK
  <2>3. CASE running
    <3>1. PICK label \in {"idle"} : pc' = [pc EXCEPT ![c] = label]
      BY <1>1, <2>3 DEF StartCheck
    <3>3. label # "load" /\ pc[c] # "load"
      BY <1>1
    <3>2. Loading' = Loading
      BY <3>1, <3>3, LoadingCounts, Zenon
    <3> QED
      BY <2>1, <2>2, <3>2 DEF Stutters
  <2>4. CASE ~running
    <3>1. cur = 0
      BY <2>4 DEF LifeInv, HoldersAgree, NoRun
    <3>2. Cardinality(Loading') = Cardinality(Loading) + 1
      BY <1>1, <2>4, LoadingCounts DEF StartCheck
    <3> QED
      BY <2>1, <2>2, <3>1, <3>2
         DEF Listener!Check, Listener!NoRun, Loading, Doomed, Down
  <2> QED
    BY <2>3, <2>4
<1>2. ASSUME NEW b \in BOOLEAN, StopCheck(c, b), pc[c] \in {"idle", "stop", "restart"}
      PROVE  Listener!Stop \/ Stutters
  <2>1. UNCHANGED <<last, ctx, run>> /\ cur' = 0 /\ Down' = Down
    BY <1>2 DEF StopCheck, Down, NoRun
  <2>2. Loading' = Loading
    BY <1>2, LoadingCounts DEF StopCheck, AfterStop
  <2>3. held[c] = NoRun
    BY <1>2 DEF LifeInv, HoldersAgree
  <2>4. CASE running
    <3>1. cur # 0 /\ cur \in Run
      BY <2>4 DEF LifeInv, HoldersAgree, NoRun, TypeOK
    <3>2. Doomed' = Doomed \cup ({cur} \ Down)
      <4>1. held' = [held EXCEPT ![c] = cur] /\ pc' = [pc EXCEPT ![c] = "cancel"]
        BY <1>2, <2>4 DEF StopCheck
      <4>2. /\ pc'[c] = "cancel" /\ held'[c] = cur
            /\ \A d \in Caller : d # c => pc'[d] = pc[d] /\ held'[d] = held[d]
        BY <4>1 DEF TypeOK
      <4>3. pc[c] # "cancel"
        BY <1>2
      <4> QED
        BY <2>1, <3>1, <4>2, <4>3 DEF Doomed, Down
    <3> QED
      BY <2>1, <2>2, <3>1, <3>2 DEF Listener!Stop, Listener!NoRun, Loading, Doomed, Down
  <2>5. CASE ~running
    <3>1. cur = 0
      BY <2>5 DEF LifeInv, HoldersAgree, NoRun
    <3>2. Doomed' = Doomed
      BY <1>2, <2>1, <2>5 DEF StopCheck, AfterStop, Doomed, TypeOK
    <3> QED
      BY <2>1, <2>2, <3>1, <3>2 DEF Stutters
  <2> QED
    BY <2>4, <2>5
<1>3. ASSUME StartFails(c) PROVE Listener!GiveUp
  <2>1. UNCHANGED <<cur, last, Doomed, Down>>
    BY <1>3 DEF StartFails, Doomed, Down, TypeOK
  <2>2. Cardinality(Loading) > 0 /\ Cardinality(Loading') = Cardinality(Loading) - 1
    <3>1. pc[c] = "load" /\ pc' = [pc EXCEPT ![c] = "idle"]
      BY <1>3 DEF StartFails
    <3>2. \A label : /\ pc' = [pc EXCEPT ![c] = label] /\ label # "load" /\ pc[c] = "load"
                    => /\ Cardinality(Loading) > 0
                       /\ Cardinality(Loading') = Cardinality(Loading) - 1
      BY LoadingCounts
    <3> QED
      BY <3>1, <3>2
  <2> QED
    BY <2>1, <2>2 DEF Listener!GiveUp, Loading, Doomed, Down
<1>4. ASSUME Install(c) PROVE Listener!Install
  <2>1. last < MaxRuns /\ last' = last + 1 /\ cur' = last + 1
    BY <1>4 DEF Install
  <2>2. UNCHANGED <<Doomed, Down>>
    <3>1. UNCHANGED <<ctx, held>>
      BY <1>4 DEF Install
    <3>2. \A q \in Run : run'[q] = "done" <=> run[q] = "done"
      BY <1>4, ListenerAssumption DEF Install, LifeInv, RunsInOrder, TypeOK, Run, NoRun
    <3>3. \A d \in Caller : pc'[d] = "cancel" <=> pc[d] = "cancel"
      BY <1>4 DEF Install, TypeOK
    <3> QED
      BY <3>1, <3>2, <3>3 DEF Doomed, Down
  <2>3. Cardinality(Loading) > 0 /\ Cardinality(Loading') = Cardinality(Loading) - 1
    <3>1. pc[c] = "load" /\ pc' = [pc EXCEPT ![c] = "idle"]
      BY <1>4 DEF Install
    <3>2. \A label : /\ pc' = [pc EXCEPT ![c] = label] /\ label # "load" /\ pc[c] = "load"
                    => /\ Cardinality(Loading) > 0
                       /\ Cardinality(Loading') = Cardinality(Loading) - 1
      BY LoadingCounts
    <3> QED
      BY <3>1, <3>2
  <2> QED
    BY <2>1, <2>2, <2>3 DEF Listener!Install, Loading, Doomed, Down
<1>5. ASSUME StopCancel(c)
      PROVE  (\E r \in Run : Listener!Cancel(r)) \/ Stutters
  <2> DEFINE h == held[c]
  <2>1. /\ h \in Run /\ UNCHANGED <<cur, last, run>> /\ pc[c] = "cancel"
        /\ ctx' = [ctx EXCEPT ![h] = TRUE] /\ held' = [held EXCEPT ![c] = NoRun]
        /\ pc' = [pc EXCEPT ![c] = AfterStop(c)]
    BY <1>5 DEF StopCancel, TypeOK, LifeInv, HoldersAgree
  <2>2. Loading' = Loading
    <3>1. AfterStop(c) # "load" /\ pc[c] # "load"
      BY <2>1 DEF AfterStop
    <3>2. pc' = [pc EXCEPT ![c] = AfterStop(c)]
      BY <2>1
    <3> QED
      BY <3>1, <3>2, LoadingCounts, Zenon
  <2>3. Down' = Down \cup {h}
    BY <2>1 DEF Down, TypeOK
  <2>4. Doomed' = Doomed \ {h}
    <3>1. \A d \in Caller : d # c => pc'[d] = pc[d] /\ held'[d] = held[d]
      BY <2>1 DEF TypeOK
    <3>2. pc'[c] # "cancel"
      BY <2>1 DEF TypeOK, AfterStop
    <3>3. ctx'[h] /\ \A q \in Run : q # h => ctx'[q] = ctx[q]
      BY <2>1 DEF TypeOK
    <3> QED
      BY <2>1, <3>1, <3>2, <3>3 DEF Doomed
  <2>5. CASE h \in Doomed
    BY <2>1, <2>2, <2>3, <2>4, <2>5 DEF Listener!Cancel, Loading, Doomed, Down
  <2>6. CASE h \notin Doomed
    <3>1. h \in Down
      BY <2>1, <2>6 DEF Doomed, Down
    <3> QED
      BY <2>1, <2>2, <2>3, <2>4, <2>6, <3>1 DEF Stutters
  <2> QED
    BY <2>5, <2>6
<1>6. ASSUME UpdateSettings(c) \/ Reconcile(c) PROVE Stutters
  <2>1. UNCHANGED <<cur, last, Doomed, Down>>
    BY <1>6 DEF UpdateSettings, Reconcile, Doomed, Down, TypeOK
  <2>2. Loading' = Loading
    BY <1>6, LoadingCounts DEF UpdateSettings, Reconcile
  <2> QED
    BY <2>1, <2>2 DEF Stutters
<1>7. Stutters => UNCHANGED Listener!vars
  BY DEF Stutters, Listener!vars, Loading, Doomed, Down
<1> QED
  BY <1>1, <1>2, <1>3, <1>4, <1>5, <1>6, <1>7
     DEF Request, CallStep, StartListener, StopListener, ReconcileStart, ReconcileStop,
         Listener!Next, Listener!Run, Run

LEMMA RunImplementsComponent ==
  ASSUME TypeOK, LifeInv, NEW r \in Run, ReaderStep(r) \/ RunStep(r)
  PROVE  Listener!Next \/ UNCHANGED Listener!vars
<1>1. UNCHANGED <<last, pc, held, ctx>>
  BY DEF ReaderStep, ReaderReceives, ReaderEnds, OfferCancelled, RunStep, LocalStep, Join,
     JoinError, SelectDone, SelectClosed, SelectAdvert, IsOldAdvert, Connecting, LogError,
     LogCompleted, Log, DownloadEnds, DownloadError, MarkListenerStopped, callVars, runVars
<1>2. CASE MarkListenerStopped(r)
  <2>1. run[r] = "mark" /\ run' = [run EXCEPT ![r] = "done"] /\ cur' = 0
    BY <1>2 DEF MarkListenerStopped, At, NoRun
  <2>2. r \in 1 .. last
    BY <2>1, ListenerAssumption DEF LifeInv, RunsInOrder, TypeOK, Run, NoRun
  <2>3. Down' = Down \cup {r} /\ Doomed' = Doomed \ {r} /\ Loading' = Loading
    BY <1>1, <2>1 DEF Down, Doomed, Loading, TypeOK
  <2>4. Listener!End(r)
    BY <1>1, <2>1, <2>2, <2>3 DEF Listener!End, Listener!NoRun, Loading, Doomed, Down
  <2> QED
    BY <2>4 DEF Listener!Next, Listener!Run, Run
<1>3. CASE ~MarkListenerStopped(r)
  <2>1. cur' = cur
    BY <1>3 DEF ReaderStep, ReaderReceives, ReaderEnds, OfferCancelled, RunStep, LocalStep,
       Join, JoinError, SelectDone, SelectClosed, SelectAdvert, IsOldAdvert, Connecting,
       LogError, LogCompleted, Log, DownloadEnds, DownloadError, listenerVars
  <2>2. \/ run' = run
        \/ \E to \in RunPC \ {"done"} : run[r] # "done" /\ run' = [run EXCEPT ![r] = to]
    BY <1>3 DEF ReaderStep, ReaderReceives, ReaderEnds, OfferCancelled, RunStep, LocalStep,
       Join, JoinError, SelectDone, SelectClosed, SelectAdvert, IsOldAdvert, Connecting,
       LogError, LogCompleted, Log, DownloadEnds, DownloadError, At, runVars, RunPC
  <2>3. \A q \in Run : run'[q] = "done" <=> run[q] = "done"
    BY <2>2 DEF TypeOK
  <2>4. Down' = Down /\ Doomed' = Doomed /\ Loading' = Loading
    BY <1>1, <2>3 DEF Down, Doomed, Loading
  <2> QED
    BY <1>1, <2>1, <2>4 DEF Listener!vars, Loading, Doomed, Down
<1> QED
  BY <1>2, <1>3

(* Every behaviour of the listener is one of Component, whose runs may take  *)
(* each other off, up to the fairness of its stops.                          *)
THEOREM ListenerImplementsComponent ==
  Spec => Listener!Init /\ [][Listener!Next]_(Listener!vars)
<1>1. TypeOK /\ LifeInv /\ [Next]_vars => [Listener!Next]_(Listener!vars)
  <2>1. ASSUME UNCHANGED vars PROVE UNCHANGED Listener!vars
    BY <2>1 DEF vars, listenerVars, callVars, runVars, Listener!vars
  <2> QED
    BY <2>1, CallImplementsComponent, RunImplementsComponent DEF Next
<1> QED
  BY <1>1, ComponentInit, ListenerTypeCorrect, SpecKeepsLife, PTL DEF Spec


-----------------------------------------------------------------------------
(* The log and the runs.                                                     *)

Busy == {"download", "setError", "logError", "logDone"}

(* The newest entry is the new one, the others move down.                    *)
LEMMA LogShape ==
  ASSUME TypeOK, NEW r \in Run, NEW s \in {"connecting", "error", "completed"},
         AddListenerEvent(r, s)
  PROVE  /\ recent'[1].run = r /\ recent'[1].status = s
         /\ Len(recent') \in Nat
         /\ \A k \in 2 .. Len(recent') : /\ k - 1 \in 1 .. Len(recent)
                                         /\ recent'[k] = recent[k - 1]
<1> DEFINE e == [run |-> r, status |-> s]
           n == IF Len(recent) < RecentCap THEN Len(recent) + 1 ELSE RecentCap
<1>1. recent \in Seq(Entry) /\ Len(recent) \in Nat /\ RecentCap \in Nat \ {0}
  BY ListenerAssumption DEF TypeOK
<1>2. e \in Entry /\ e.run = r /\ e.status = s
  BY DEF Entry
<1>3. <<e>> \in Seq(Entry) /\ Len(<<e>>) = 1 /\ <<e>>[1] = e
  BY <1>2
<1>4. n \in Nat /\ n >= 1 /\ n <= Len(recent) + 1
  BY <1>1
<1>5. recent' = SubSeq(<<e>> \o recent, 1, n)
  BY DEF AddListenerEvent
<1> HIDE DEF e, n
<1>6. /\ <<e>> \o recent \in Seq(Entry)
      /\ Len(<<e>> \o recent) = Len(recent) + 1
      /\ \A k \in 1 .. Len(recent) + 1 :
           (<<e>> \o recent)[k] = IF k <= 1 THEN <<e>>[k] ELSE recent[k - 1]
  BY <1>1, <1>3, ConcatProperties
<1>7. \A k \in 1 .. n : (<<e>> \o recent)[k] \in Entry
  BY <1>6, <1>4, <1>1, ElementOfSeq
<1>8. /\ Len(recent') = n
      /\ \A k \in 1 .. n : recent'[k] = (<<e>> \o recent)[k]
  <2>1. /\ Len(SubSeq(<<e>> \o recent, 1, n)) = IF 1 <= n THEN n - 1 + 1 ELSE 0
        /\ \A k \in 1 .. n - 1 + 1 : SubSeq(<<e>> \o recent, 1, n)[k] = (<<e>> \o recent)[1 + k - 1]
    BY <1>4, <1>7, SubSeqProperties
  <2> QED
    BY <2>1, <1>4, <1>5
<1>9. recent'[1] = e
  BY <1>1, <1>3, <1>4, <1>6, <1>8
<1>10. ASSUME NEW k \in 2 .. n
       PROVE  k - 1 \in 1 .. Len(recent) /\ recent'[k] = recent[k - 1]
  BY <1>1, <1>4, <1>6, <1>8
<1> QED
  BY <1>2, <1>4, <1>8, <1>9, <1>10

LEMMA LogKeepsRecent ==
  ASSUME TypeOK, RecentAgreesWithRuns, NEW r \in Run,
         Connecting(r) \/ LogError(r) \/ LogCompleted(r)
  PROVE  RecentAgreesWithRuns'
<1>1. PICK s \in {"connecting", "error", "completed"}, to \in RunPC :
        /\ AddListenerEvent(r, s) /\ run' = [run EXCEPT ![r] = to]
        /\ s = "connecting" <=> to \in Busy
  BY DEF Connecting, LogError, LogCompleted, Log, At, Busy, RunPC
<1>2. /\ recent'[1].run = r /\ recent'[1].status = s /\ Len(recent') \in Nat
      /\ \A k \in 2 .. Len(recent') : /\ k - 1 \in 1 .. Len(recent)
                                      /\ recent'[k] = recent[k - 1]
  BY <1>1, LogShape
<1>3. run'[r] = to /\ \A q \in Run : q # r => run'[q] = run[q]
  BY <1>1 DEF TypeOK
<1> SUFFICES ASSUME NEW q \in Run, NEW k \in 1 .. Len(recent'),
                    recent'[k].run = q, \A j \in 1 .. k - 1 : recent'[j].run # q
             PROVE  recent'[k].status = "connecting" <=> run'[q] \in Busy
  BY DEF RecentAgreesWithRuns, Busy
<1>4. CASE k = 1
  BY <1>1, <1>2, <1>3, <1>4
<1>5. CASE k \in 2 .. Len(recent')
  <2>1. q # r
    <3>1. 1 \in 1 .. k - 1
      BY <1>5, <1>2
    <3> QED
      BY <3>1, <1>2
  <2>2. k - 1 \in 1 .. Len(recent) /\ recent'[k] = recent[k - 1]
    BY <1>2, <1>5
  <2>3. ASSUME NEW j \in 1 .. (k - 1) - 1
        PROVE  recent[j].run # q
    <3>1. j + 1 \in 1 .. k - 1 /\ j + 1 \in 2 .. Len(recent') /\ (j + 1) - 1 = j
      BY <1>2, <1>5
    <3> QED
      BY <3>1, <1>2
  <2>4. recent[k - 1].status = "connecting" <=> run[q] \in Busy
    BY <2>2, <2>3 DEF RecentAgreesWithRuns, Busy
  <2> QED
    BY <2>1, <2>2, <2>4, <1>3
<1> QED
  BY <1>2, <1>4, <1>5

(* Steps that log nothing: a run that is not busy does not become so, and    *)
(* one that is stays so.                                                     *)
LEMMA OthersKeepRecent ==
  ASSUME RecentAgreesWithRuns, recent' = recent,
         \A q \in Run : run'[q] \in Busy <=> run[q] \in Busy
  PROVE  RecentAgreesWithRuns'
BY DEF RecentAgreesWithRuns, Busy

LEMMA StepKeepsRecent ==
  ASSUME TypeOK, LifeInv, RecentAgreesWithRuns, [Next]_vars
  PROVE  RecentAgreesWithRuns'
<1> USE DEF settingsVars, listenerVars, callVars, runVars, readerVars, historyVars
<1>1. ASSUME NEW c \in Caller, Install(c) PROVE RecentAgreesWithRuns'
  <2>1. last + 1 \in Run /\ last + 1 > last
    BY <1>1, ListenerAssumption DEF Install, TypeOK, Run, NoRun
  <2>2. run[last + 1] = "idle"
    BY <2>1 DEF LifeInv, RunsInOrder
  <2>3. recent' = recent /\ run' = [run EXCEPT ![last + 1] = "join"]
    BY <1>1 DEF Install
  <2>4. \A q \in Run : run'[q] \in Busy <=> run[q] \in Busy
    BY <2>2, <2>3 DEF TypeOK, Busy
  <2> QED
    BY <2>3, <2>4, OthersKeepRecent
<1>2. ASSUME NEW c \in Caller, Request(c) \/ CallStep(c), ~Install(c)
      PROVE  RecentAgreesWithRuns'
  <2>1. UNCHANGED <<recent, run>>
    BY <1>2 DEF Request, CallStep, StartListener, StopListener, UpdateSettings, ReconcileStart,
       StartCheck, StartFails, ReconcileStop, StopCheck, StopCancel, Reconcile
  <2> QED
    BY <2>1, OthersKeepRecent
<1>3. ASSUME NEW r \in Run, ReaderStep(r) PROVE RecentAgreesWithRuns'
  <2>1. UNCHANGED <<recent, run>>
    BY <1>3 DEF ReaderStep, ReaderReceives, ReaderEnds, OfferCancelled
  <2> QED
    BY <2>1, OthersKeepRecent
<1>4. ASSUME NEW r \in Run, RunStep(r), ~(Connecting(r) \/ LogError(r) \/ LogCompleted(r))
      PROVE  RecentAgreesWithRuns'
  <2>1. recent' = recent
    BY <1>4 DEF RunStep, LocalStep, Join, JoinError, SelectDone, SelectClosed, SelectAdvert,
       IsOldAdvert, DownloadEnds, DownloadError, MarkListenerStopped
  <2>2. \E to \in RunPC : run' = [run EXCEPT ![r] = to] /\ (to \in Busy <=> run[r] \in Busy)
    BY <1>4 DEF RunStep, LocalStep, Join, JoinError, SelectDone, SelectClosed, SelectAdvert,
       IsOldAdvert, DownloadEnds, DownloadError, MarkListenerStopped, At, RunPC, Busy
  <2>3. \A q \in Run : run'[q] \in Busy <=> run[q] \in Busy
    BY <2>2 DEF TypeOK
  <2> QED
    BY <2>1, <2>3, OthersKeepRecent
<1>5. ASSUME UNCHANGED vars PROVE RecentAgreesWithRuns'
  BY <1>5, OthersKeepRecent DEF vars
<1> QED
  BY <1>1, <1>2, <1>3, <1>4, <1>5, LogKeepsRecent DEF Next

(* The newest entry that the log holds of a run says connecting exactly      *)
(* while its download goes on or its result has still to be logged           *)
(* (runListener and addListenerEvent), for a log of any size and any number  *)
(* of overlapping runs.                                                      *)
THEOREM ListenerRecentAgreesWithRuns == Spec => []RecentAgreesWithRuns
<1>1. Init => RecentAgreesWithRuns
  <2> SUFFICES ASSUME Init PROVE RecentAgreesWithRuns
    OBVIOUS
  <2>1. Len(recent) = 0
    BY DEF Init
  <2> QED
    BY <2>1 DEF RecentAgreesWithRuns
<1> QED
  BY <1>1, StepKeepsRecent, ListenerTypeCorrect, SpecKeepsLife, PTL DEF Spec

=============================================================================
