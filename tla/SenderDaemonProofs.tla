------------------------- MODULE SenderDaemonProofs -------------------------
(***************************************************************************)
(* The safety of the sender's life cycle, for any number of requests in    *)
(* progress, any addresses and any number of runs.                         *)
(***************************************************************************)
EXTENDS SenderDaemon, FiniteSetTheorems, TLAPS

(* A run that was not started yet has no trace in any variable.              *)
RunsInOrder ==
  /\ \A r \in Run : r > last => /\ start[r] = "idle" /\ bcast[r] = "idle"
                                /\ ~ctx[r] /\ ~stopped[r] /\ ln[r] = "nil"
  /\ \A r \in Run : r \in taken \/ r \in displaced => r <= last
  /\ \A c \in Caller : held[c] <= last

(* d.sender names the newest run or none, and never one whose end is known.  *)
CurIsNewest ==
  /\ running <=> cur # NoRun
  /\ cur # NoRun => cur = last /\ cur \notin taken /\ start[cur] # "done"

(* What a stopSender holds was taken by it alone.                            *)
HeldIsTaken ==
  /\ \A c \in Caller : pc[c] \in {"stopCancel", "stopServer"} <=> held[c] # NoRun
  /\ \A c \in Caller : held[c] # NoRun => held[c] \in taken
  /\ \A c, d \in Caller : c # d /\ held[c] # NoRun => held[c] # held[d]

(* Stop, the second half of stopSender and the last steps of a run come      *)
(* after its context was cancelled.                                          *)
EndIsCancelled ==
  /\ \A r \in Run : stopped[r] \/ start[r] \in {"mark", "done"} => ctx[r]
  /\ \A c \in Caller : pc[c] = "stopServer" => ctx[held[c]]

(* The newest run, if no request took it: d.sender names it until it is      *)
(* cancelled, and it is not cancelled before its error is recorded.          *)
ErrorComesFirst ==
  (last # NoRun /\ last \notin taken) =>
    /\ cur = NoRun => ctx[last]
    /\ (ctx[last] \/ start[last] = "cancel" \/ bcast[last] = "cancel") =>
         lastError # NoError

IInv == TypeOK /\ RunsInOrder /\ CurIsNewest /\ HeldIsTaken /\ EndIsCancelled
        /\ ErrorComesFirst /\ LiveRunIsReachable

-----------------------------------------------------------------------------

LEMMA InitEstablishesInvariant == Init => IInv
<1> SUFFICES ASSUME Init PROVE IInv
  OBVIOUS
<1> USE SenderAssumption DEF Init, Run, NoRun, NoError, Error
<1>1. TypeOK
  BY DEF TypeOK, CallPC, StartPC, BcastPC
<1>2. RunsInOrder /\ EndIsCancelled
  BY DEF RunsInOrder, EndIsCancelled
<1>3. CurIsNewest /\ HeldIsTaken /\ ErrorComesFirst /\ LiveRunIsReachable
  BY DEF CurIsNewest, HeldIsTaken, ErrorComesFirst, LiveRunIsReachable
<1> QED
  BY <1>1, <1>2, <1>3 DEF IInv

(* The first critical section of startSender touches Enabled and the caller. *)
LEMMA StartCheckKeepsInvariant ==
  ASSUME IInv, NEW c \in Caller, NEW b \in BOOLEAN,
         pc[c] \in {"idle", "start"}, StartCheck(c, b)
  PROVE  IInv'
<1> USE DEF StartCheck, Goto, TypeOK, IInv
<1>1. TypeOK'
  BY DEF CallPC, runVars, historyVars, senderVars
<1>2. HeldIsTaken' /\ EndIsCancelled'
  BY DEF HeldIsTaken, EndIsCancelled, runVars, historyVars, senderVars
<1>3. RunsInOrder' /\ CurIsNewest' /\ ErrorComesFirst' /\ LiveRunIsReachable'
  BY DEF RunsInOrder, CurIsNewest, ErrorComesFirst, LiveRunIsReachable,
         runVars, historyVars, senderVars
<1> QED
  BY <1>1, <1>2, <1>3

(* The critical section of stopSender moves the run from d.sender to the     *)
(* caller; no other caller holds it, for it was not taken before.            *)
LEMMA StopCheckKeepsInvariant ==
  ASSUME IInv, NEW c \in Caller, NEW b \in BOOLEAN,
         pc[c] \in {"idle", "stop", "restart"}, StopCheck(c, b)
  PROVE  IInv'
<1> USE SenderAssumption
    DEF StopCheck, AfterStop, Goto, runVars, IInv, TypeOK, CurIsNewest, Run, NoRun
<1>1. CASE running
  <2>1. cur \in Run /\ cur = last /\ cur \notin taken
    BY <1>1
  <2>2. /\ held' = [held EXCEPT ![c] = cur] /\ taken' = taken \cup {cur}
        /\ pc' = [pc EXCEPT ![c] = "stopCancel"] /\ cur' = NoRun
    BY <1>1
  <2>3. TypeOK'
    BY <2>1, <2>2 DEF CallPC
  <2>4. RunsInOrder' /\ CurIsNewest'
    BY <2>1, <2>2 DEF RunsInOrder
  <2>5. HeldIsTaken'
    BY <2>1, <2>2 DEF HeldIsTaken
  <2>6. EndIsCancelled' /\ ErrorComesFirst'
    BY <2>1, <2>2 DEF EndIsCancelled, ErrorComesFirst
  <2>7. LiveRunIsReachable'
    BY <2>1, <2>2 DEF LiveRunIsReachable, HeldIsTaken
  <2> QED
    BY <2>3, <2>4, <2>5, <2>6, <2>7
<1>2. CASE ~running
  <2>1. cur = NoRun /\ cur' = NoRun /\ UNCHANGED <<held, taken>>
        /\ pc' = [pc EXCEPT ![c] = IF resume[c] THEN "reconcile" ELSE "idle"]
    BY <1>2
  <2>2. TypeOK'
    BY <1>2, <2>1 DEF CallPC
  <2>3. HeldIsTaken' /\ EndIsCancelled'
    BY <1>2, <2>1 DEF HeldIsTaken, EndIsCancelled
  <2>4. RunsInOrder' /\ CurIsNewest' /\ ErrorComesFirst' /\ LiveRunIsReachable'
    BY <1>2, <2>1 DEF RunsInOrder, ErrorComesFirst, LiveRunIsReachable
  <2> QED
    BY <2>2, <2>3, <2>4
<1> QED
  BY <1>1, <1>2

-----------------------------------------------------------------------------
(* Requests.                                                                 *)

LEMMA RequestKeepsInvariant ==
  ASSUME IInv, NEW c \in Caller, Request(c) \/ CallStep(c)
  PROVE  IInv'
<1> USE SenderAssumption DEF Run, NoRun, Goto, vars, settingsVars, senderVars, callVars,
        runVars, historyVars, NoError, RequestError, LateError, Error
<1>1. ASSUME StartSender(c) PROVE IInv'
  BY <1>1, StartCheckKeepsInvariant DEF StartSender
<1>2. ASSUME ReconcileStart(c) PROVE IInv'
  BY <1>2, StartCheckKeepsInvariant DEF ReconcileStart
<1>3. ASSUME StartFails(c) PROVE IInv'
  <2>1. TypeOK'
    BY <1>3 DEF StartFails, IInv, TypeOK, CallPC
  <2>2. RunsInOrder' /\ CurIsNewest' /\ HeldIsTaken'
    BY <1>3 DEF StartFails, IInv, TypeOK, RunsInOrder, CurIsNewest, HeldIsTaken
  <2>3. EndIsCancelled' /\ ErrorComesFirst' /\ LiveRunIsReachable'
    BY <1>3 DEF StartFails, IInv, TypeOK, EndIsCancelled, ErrorComesFirst,
       LiveRunIsReachable
  <2> QED
    BY <2>1, <2>2, <2>3 DEF IInv
<1>4. ASSUME Install(c) PROVE IInv'
  <2> DEFINE r == last + 1
  <2>1. /\ r \in Run /\ r # NoRun /\ last' = r /\ cur' = r
        /\ start' = [start EXCEPT ![r] = "listen"] /\ bcast' = [bcast EXCEPT ![r] = "run"]
    BY <1>4 DEF Install, IInv, TypeOK
  <2>2. r \notin taken /\ ~ctx[r] /\ ~stopped[r] /\ \A d \in Caller : held[d] # r
    BY <2>1 DEF IInv, TypeOK, RunsInOrder
  <2> HIDE DEF r
  <2>3. /\ displaced' = displaced \cup ({cur} \ {NoRun}) /\ displaced' \subseteq Run
        /\ \A q \in Run : q \in displaced' => q <= last
    BY <1>4 DEF Install, IInv, TypeOK, CurIsNewest, RunsInOrder
  <2>4. TypeOK'
    BY <1>4, <2>1, <2>3 DEF Install, IInv, TypeOK, CallPC, StartPC, BcastPC
  <2>5. RunsInOrder'
    <3>1. last \in Nat /\ r = last + 1 /\ taken' = taken /\ held' = held
      BY <1>4 DEF r, Install, IInv, TypeOK
    <3>2. \A q \in Run : q > last' => /\ start'[q] = "idle" /\ bcast'[q] = "idle"
                                      /\ ~ctx'[q] /\ ~stopped'[q] /\ ln'[q] = "nil"
      BY <1>4, <2>1, <3>1 DEF Install, IInv, TypeOK, RunsInOrder
    <3>3. \A q \in Run : q \in taken' \/ q \in displaced' => q <= last'
      BY <2>1, <2>3, <3>1 DEF IInv, RunsInOrder
    <3>4. \A d \in Caller : held'[d] <= last'
      <4>1. \A d \in Caller : held[d] \in Nat /\ held[d] <= last
        BY DEF IInv, TypeOK, RunsInOrder
      <4> QED
        BY <2>1, <3>1, <4>1
    <3> QED
      BY <3>2, <3>3, <3>4 DEF RunsInOrder
  <2>6. CurIsNewest' /\ HeldIsTaken'
    <3>1. CurIsNewest'
      BY <1>4, <2>1, <2>2 DEF Install, IInv, TypeOK, CurIsNewest
    <3>2. HeldIsTaken'
      BY <1>4 DEF Install, IInv, TypeOK, HeldIsTaken
    <3> QED
      BY <3>1, <3>2
  <2>7. EndIsCancelled' /\ ErrorComesFirst'
    BY <1>4, <2>1, <2>2 DEF Install, IInv, TypeOK, EndIsCancelled, ErrorComesFirst
  <2>8. LiveRunIsReachable'
    BY <1>4, <2>1, <2>3 DEF r, Install, IInv, TypeOK, CurIsNewest, HeldIsTaken,
       LiveRunIsReachable
  <2> QED
    BY <2>4, <2>5, <2>6, <2>7, <2>8 DEF IInv
<1>5. ASSUME StopSender(c) PROVE IInv'
  BY <1>5, StopCheckKeepsInvariant DEF StopSender
<1>6. ASSUME ReconcileStop(c) PROVE IInv'
  BY <1>6, StopCheckKeepsInvariant DEF ReconcileStop
<1>7. ASSUME StopCancel(c) PROVE IInv'
  <2>1. TypeOK'
    BY <1>7 DEF StopCancel, IInv, TypeOK, CallPC
  <2>2. RunsInOrder' /\ CurIsNewest' /\ HeldIsTaken'
    BY <1>7 DEF StopCancel, IInv, TypeOK, RunsInOrder, CurIsNewest, HeldIsTaken
  <2>3. EndIsCancelled' /\ ErrorComesFirst' /\ LiveRunIsReachable'
    BY <1>7 DEF StopCancel, IInv, TypeOK, HeldIsTaken, EndIsCancelled, ErrorComesFirst,
       LiveRunIsReachable
  <2> QED
    BY <2>1, <2>2, <2>3 DEF IInv
<1>8. ASSUME StopServer(c) PROVE IInv'
  <2>1. TypeOK'
    BY <1>8 DEF StopServer, ServerStop, AfterStop, IInv, TypeOK, CallPC
  <2>2. RunsInOrder' /\ CurIsNewest' /\ HeldIsTaken'
    BY <1>8 DEF StopServer, ServerStop, AfterStop, IInv, TypeOK, RunsInOrder,
       CurIsNewest, HeldIsTaken
  <2>3. EndIsCancelled' /\ ErrorComesFirst' /\ LiveRunIsReachable'
    BY <1>8 DEF StopServer, ServerStop, AfterStop, IInv, TypeOK, EndIsCancelled,
       ErrorComesFirst,
       LiveRunIsReachable
  <2> QED
    BY <2>1, <2>2, <2>3 DEF IInv
<1>9. ASSUME UpdateSettings(c) PROVE IInv'
  <2>1. TypeOK'
    BY <1>9 DEF UpdateSettings, IInv, TypeOK, CallPC
  <2>2. RunsInOrder' /\ CurIsNewest' /\ HeldIsTaken'
    BY <1>9 DEF UpdateSettings, IInv, TypeOK, RunsInOrder, CurIsNewest, HeldIsTaken
  <2>3. EndIsCancelled' /\ ErrorComesFirst' /\ LiveRunIsReachable'
    BY <1>9 DEF UpdateSettings, IInv, TypeOK, EndIsCancelled, ErrorComesFirst,
       LiveRunIsReachable
  <2> QED
    BY <2>1, <2>2, <2>3 DEF IInv
<1>10. ASSUME Reconcile(c) PROVE IInv'
  <2>1. TypeOK'
    BY <1>10 DEF Reconcile, IInv, TypeOK, CallPC
  <2>2. RunsInOrder' /\ CurIsNewest' /\ HeldIsTaken'
    BY <1>10 DEF Reconcile, IInv, TypeOK, RunsInOrder, CurIsNewest, HeldIsTaken
  <2>3. EndIsCancelled' /\ ErrorComesFirst' /\ LiveRunIsReachable'
    BY <1>10 DEF Reconcile, IInv, TypeOK, EndIsCancelled, ErrorComesFirst,
       LiveRunIsReachable
  <2> QED
    BY <2>1, <2>2, <2>3 DEF IInv
<1> QED
  BY <1>1, <1>2, <1>3, <1>4, <1>5, <1>6, <1>7, <1>8, <1>9, <1>10 DEF Request,
     CallStep

(* The goroutines of a run.                                                  *)
LEMMA RunKeepsInvariant ==
  ASSUME IInv, NEW r \in Run, ServerStep(r) \/ BroadcastStep(r) \/ ApplyError(r)
  PROVE  IInv'
<1> USE SenderAssumption DEF Run, NoRun, vars, settingsVars, senderVars, callVars,
        runVars, historyVars, ServerStop, NoError, RequestError, LateError, Error
<1>1. ASSUME Listen(r) PROVE IInv'
  <2>1. TypeOK'
    BY <1>1, ZenonT(60) DEF Listen, IInv, TypeOK, StartPC
  <2>2. RunsInOrder' /\ CurIsNewest' /\ HeldIsTaken'
    BY <1>1 DEF Listen, IInv, TypeOK, RunsInOrder, CurIsNewest, HeldIsTaken
  <2>3. EndIsCancelled' /\ ErrorComesFirst' /\ LiveRunIsReachable'
    BY <1>1 DEF Listen, IInv, TypeOK, EndIsCancelled, ErrorComesFirst,
       LiveRunIsReachable
  <2> QED
    BY <2>1, <2>2, <2>3 DEF IInv
<1>2. ASSUME Publish(r) PROVE IInv'
  <2>1. TypeOK'
    BY <1>2 DEF Publish, IInv, TypeOK, StartPC
  <2>2. RunsInOrder' /\ CurIsNewest' /\ HeldIsTaken'
    BY <1>2 DEF Publish, IInv, TypeOK, RunsInOrder, CurIsNewest, HeldIsTaken
  <2>3. EndIsCancelled' /\ ErrorComesFirst' /\ LiveRunIsReachable'
    BY <1>2 DEF Publish, IInv, TypeOK, EndIsCancelled, ErrorComesFirst,
       LiveRunIsReachable
  <2> QED
    BY <2>1, <2>2, <2>3 DEF IInv
<1>3. ASSUME Watch(r) PROVE IInv'
  <2>1. TypeOK'
    BY <1>3 DEF Watch, IInv, TypeOK, StartPC
  <2>2. RunsInOrder' /\ CurIsNewest' /\ HeldIsTaken'
    BY <1>3 DEF Watch, IInv, TypeOK, RunsInOrder, CurIsNewest, HeldIsTaken
  <2>3. EndIsCancelled' /\ ErrorComesFirst' /\ LiveRunIsReachable'
    BY <1>3 DEF Watch, IInv, TypeOK, EndIsCancelled, ErrorComesFirst,
       LiveRunIsReachable
  <2> QED
    BY <2>1, <2>2, <2>3 DEF IInv
<1>4. ASSUME AcceptFails(r) PROVE IInv'
  <2>1. TypeOK'
    BY <1>4 DEF AcceptFails, IInv, TypeOK, StartPC
  <2>2. RunsInOrder' /\ CurIsNewest' /\ HeldIsTaken'
    BY <1>4 DEF AcceptFails, IInv, TypeOK, RunsInOrder, CurIsNewest, HeldIsTaken
  <2>3. EndIsCancelled' /\ ErrorComesFirst' /\ LiveRunIsReachable'
    BY <1>4 DEF AcceptFails, IInv, TypeOK, EndIsCancelled, ErrorComesFirst,
       LiveRunIsReachable
  <2> QED
    BY <2>1, <2>2, <2>3 DEF IInv
<1>5. ASSUME AnnounceBlocks(r) PROVE IInv'
  <2>1. TypeOK'
    BY <1>5 DEF AnnounceBlocks, IInv, TypeOK, StartPC
  <2>2. RunsInOrder' /\ CurIsNewest' /\ HeldIsTaken'
    BY <1>5 DEF AnnounceBlocks, IInv, TypeOK, RunsInOrder, CurIsNewest, HeldIsTaken
  <2>3. EndIsCancelled' /\ ErrorComesFirst' /\ LiveRunIsReachable'
    BY <1>5 DEF AnnounceBlocks, IInv, TypeOK, EndIsCancelled, ErrorComesFirst,
       LiveRunIsReachable
  <2> QED
    BY <2>1, <2>2, <2>3 DEF IInv
<1>6. ASSUME CheckServerError(r) PROVE IInv'
  <2>1. TypeOK'
    BY <1>6 DEF CheckServerError, IInv, TypeOK, StartPC
  <2>2. RunsInOrder' /\ CurIsNewest' /\ HeldIsTaken'
    BY <1>6 DEF CheckServerError, IInv, TypeOK, RunsInOrder, CurIsNewest, HeldIsTaken
  <2>3. EndIsCancelled' /\ ErrorComesFirst' /\ LiveRunIsReachable'
    BY <1>6 DEF CheckServerError, IInv, TypeOK, EndIsCancelled, ErrorComesFirst,
       LiveRunIsReachable
  <2> QED
    BY <2>1, <2>2, <2>3 DEF IInv
<1>7. ASSUME SetServerError(r) PROVE IInv'
  <2>1. TypeOK'
    BY <1>7 DEF SetServerError, IInv, TypeOK, StartPC
  <2>2. RunsInOrder' /\ CurIsNewest' /\ HeldIsTaken'
    BY <1>7 DEF SetServerError, IInv, TypeOK, RunsInOrder, CurIsNewest, HeldIsTaken
  <2>3. EndIsCancelled' /\ ErrorComesFirst' /\ LiveRunIsReachable'
    BY <1>7 DEF SetServerError, IInv, TypeOK, EndIsCancelled, ErrorComesFirst,
       LiveRunIsReachable
  <2> QED
    BY <2>1, <2>2, <2>3 DEF IInv
<1>8. ASSUME CancelRun(r) PROVE IInv'
  <2>1. TypeOK'
    BY <1>8 DEF CancelRun, IInv, TypeOK, StartPC
  <2>2. RunsInOrder' /\ CurIsNewest' /\ HeldIsTaken'
    BY <1>8 DEF CancelRun, IInv, TypeOK, RunsInOrder, CurIsNewest, HeldIsTaken
  <2>3. EndIsCancelled' /\ ErrorComesFirst' /\ LiveRunIsReachable'
    BY <1>8 DEF CancelRun, IInv, TypeOK, EndIsCancelled, ErrorComesFirst,
       LiveRunIsReachable
  <2> QED
    BY <2>1, <2>2, <2>3 DEF IInv
<1>9. ASSUME MarkSenderStopped(r) PROVE IInv'
  <2>1. TypeOK'
    BY <1>9 DEF MarkSenderStopped, IInv, TypeOK, StartPC
  <2>2. RunsInOrder' /\ CurIsNewest' /\ HeldIsTaken'
    BY <1>9 DEF MarkSenderStopped, IInv, TypeOK, RunsInOrder, CurIsNewest, HeldIsTaken
  <2>3. EndIsCancelled' /\ ErrorComesFirst' /\ LiveRunIsReachable'
    BY <1>9 DEF MarkSenderStopped, IInv, TypeOK, CurIsNewest, EndIsCancelled,
       ErrorComesFirst,
       LiveRunIsReachable
  <2> QED
    BY <2>1, <2>2, <2>3 DEF IInv
<1>10. ASSUME BroadcastEnds(r) PROVE IInv'
  <2>1. TypeOK'
    BY <1>10, ZenonT(60) DEF BroadcastEnds, IInv, TypeOK, BcastPC
  <2>2. RunsInOrder' /\ CurIsNewest' /\ HeldIsTaken'
    BY <1>10 DEF BroadcastEnds, IInv, TypeOK, RunsInOrder, CurIsNewest, HeldIsTaken
  <2>3. EndIsCancelled' /\ ErrorComesFirst' /\ LiveRunIsReachable'
    BY <1>10 DEF BroadcastEnds, IInv, TypeOK, EndIsCancelled, ErrorComesFirst,
       LiveRunIsReachable
  <2> QED
    BY <2>1, <2>2, <2>3 DEF IInv
<1>11. ASSUME SetBroadcastError(r) PROVE IInv'
  <2>1. TypeOK'
    BY <1>11 DEF SetBroadcastError, IInv, TypeOK, BcastPC
  <2>2. RunsInOrder' /\ CurIsNewest' /\ HeldIsTaken'
    BY <1>11 DEF SetBroadcastError, IInv, TypeOK, RunsInOrder, CurIsNewest, HeldIsTaken
  <2>3. EndIsCancelled' /\ ErrorComesFirst' /\ LiveRunIsReachable'
    BY <1>11 DEF SetBroadcastError, IInv, TypeOK, EndIsCancelled, ErrorComesFirst,
       LiveRunIsReachable
  <2> QED
    BY <2>1, <2>2, <2>3 DEF IInv
<1>12. ASSUME CancelFromBroadcast(r) PROVE IInv'
  <2>1. TypeOK'
    BY <1>12 DEF CancelFromBroadcast, IInv, TypeOK, BcastPC
  <2>2. RunsInOrder' /\ CurIsNewest' /\ HeldIsTaken'
    BY <1>12 DEF CancelFromBroadcast, IInv, TypeOK, RunsInOrder, CurIsNewest,
       HeldIsTaken
  <2>3. EndIsCancelled' /\ ErrorComesFirst' /\ LiveRunIsReachable'
    BY <1>12 DEF CancelFromBroadcast, IInv, TypeOK, EndIsCancelled, ErrorComesFirst,
       LiveRunIsReachable
  <2> QED
    BY <2>1, <2>2, <2>3 DEF IInv
<1>13. ASSUME ApplyError(r) PROVE IInv'
  <2>1. TypeOK'
    BY <1>13 DEF ApplyError, IInv, TypeOK
  <2>2. RunsInOrder' /\ CurIsNewest' /\ HeldIsTaken'
    BY <1>13 DEF ApplyError, IInv, TypeOK, RunsInOrder, CurIsNewest, HeldIsTaken
  <2>3. EndIsCancelled' /\ ErrorComesFirst' /\ LiveRunIsReachable'
    BY <1>13 DEF ApplyError, IInv, TypeOK, EndIsCancelled, ErrorComesFirst,
       LiveRunIsReachable
  <2> QED
    BY <2>1, <2>2, <2>3 DEF IInv
<1> QED
  BY <1>1, <1>2, <1>3, <1>4, <1>5, <1>6, <1>7, <1>8, <1>9, <1>10, <1>11, <1>12, <1>13
     DEF ServerStep, BroadcastStep

LEMMA StutteringKeepsInvariant == IInv /\ UNCHANGED vars => IInv'
<1> USE DEF vars, settingsVars, senderVars, callVars, runVars, historyVars
<1> SUFFICES ASSUME IInv, UNCHANGED vars PROVE IInv'
  OBVIOUS
<1>1. TypeOK' /\ RunsInOrder' /\ CurIsNewest'
  BY DEF IInv, TypeOK, RunsInOrder, CurIsNewest
<1>2. HeldIsTaken' /\ EndIsCancelled' /\ ErrorComesFirst' /\ LiveRunIsReachable'
  BY DEF IInv, HeldIsTaken, EndIsCancelled, ErrorComesFirst, LiveRunIsReachable
<1> QED
  BY <1>1, <1>2 DEF IInv

(* Each run is owned, and cancelled before its end, in the order of the code. *)
THEOREM SpecKeepsInvariant == Spec => []IInv
<1>1. IInv /\ [Next]_vars => IInv'
  BY RequestKeepsInvariant, RunKeepsInvariant, StutteringKeepsInvariant DEF Next
<1> QED
  BY InitEstablishesInvariant, <1>1, PTL DEF Spec

-----------------------------------------------------------------------------
(* Whose error is shown: an invariant of its own, on top of IInv.            *)

(* A run's context is cancelled by a request that took the run, by its       *)
(* broadcast at its end, or by its server at its end.                        *)
CancelHasReason ==
  \A r \in Run : ctx[r] => r \in taken \/ bcast[r] = "done" \/ start[r] \in {"mark", "done"}

(* An error about to be recorded is that of d.sender's run, or of one that   *)
(* was taken or displaced, or of one whose server failed too.                *)
ErrorsInFlight ==
  /\ \A r \in 1 .. last : start[r] # "done" => r = cur \/ r \in taken \cup displaced
  /\ \A r \in Run : bcast[r] = "setError" =>
       r = cur \/ r \in taken \cup displaced \cup bothFailed
  /\ \A r \in Run :
       bcast[r] = "setError" /\ start[r] \in {"cancel", "mark", "done"} =>
         r \in taken \cup bothFailed

EInv == CancelHasReason /\ ErrorsInFlight /\ ErrorIsOwn

LEMMA InitEstablishesErrorInvariant == Init => EInv
BY DEF Init, EInv, CancelHasReason, ErrorsInFlight, ErrorIsOwn, NoError, NoRun

LEMMA CallKeepsErrorInvariant ==
  ASSUME IInv, EInv, NEW c \in Caller, Request(c) \/ CallStep(c)
  PROVE  EInv'
<1> USE SenderAssumption DEF Run, NoRun, Goto, settingsVars, senderVars, callVars,
        runVars, historyVars, EInv
<1>1. ASSUME NEW b \in BOOLEAN, StartCheck(c, b) PROVE EInv'
  BY <1>1 DEF StartCheck, CancelHasReason, ErrorsInFlight, ErrorIsOwn
<1>2. ASSUME StartFails(c) PROVE EInv'
  BY <1>2 DEF StartFails, CancelHasReason, ErrorsInFlight, ErrorIsOwn
<1>3. ASSUME Install(c) PROVE EInv'
  <2>1. CancelHasReason'
    BY <1>3 DEF Install, CancelHasReason, IInv, TypeOK, RunsInOrder
  <2>2. ErrorsInFlight'
    BY <1>3 DEF Install, ErrorsInFlight, IInv, TypeOK, RunsInOrder, CurIsNewest
  <2>3. ErrorIsOwn'
    BY <1>3 DEF Install, ErrorIsOwn
  <2> QED
    BY <2>1, <2>2, <2>3
<1>4. ASSUME NEW b \in BOOLEAN, StopCheck(c, b) PROVE EInv'
  <2>1. CancelHasReason'
    BY <1>4 DEF StopCheck, CancelHasReason
  <2>2. ErrorsInFlight'
    BY <1>4 DEF StopCheck, ErrorsInFlight, IInv, TypeOK, CurIsNewest
  <2>3. ErrorIsOwn'
    BY <1>4 DEF StopCheck, ErrorIsOwn
  <2> QED
    BY <2>1, <2>2, <2>3
<1>5. ASSUME StopCancel(c) PROVE EInv'
  <2>1. CancelHasReason'
    BY <1>5 DEF StopCancel, CancelHasReason, IInv, TypeOK, HeldIsTaken
  <2> QED
    BY <1>5, <2>1 DEF StopCancel, ErrorsInFlight, ErrorIsOwn
<1>6. ASSUME StopServer(c) PROVE EInv'
  BY <1>6 DEF StopServer, CancelHasReason, ErrorsInFlight, ErrorIsOwn
<1>7. ASSUME UpdateSettings(c) \/ Reconcile(c) PROVE EInv'
  BY <1>7 DEF UpdateSettings, Reconcile, CancelHasReason, ErrorsInFlight, ErrorIsOwn
<1> QED
  BY <1>1, <1>2, <1>3, <1>4, <1>5, <1>6, <1>7 DEF Request, CallStep, StartSender,
     ReconcileStart, StopSender, ReconcileStop

LEMMA RunKeepsErrorInvariant ==
  ASSUME IInv, EInv, NEW r \in Run, ServerStep(r) \/ BroadcastStep(r) \/ ApplyError(r)
  PROVE  EInv'
<1> USE DEF NoRun, settingsVars, senderVars, callVars, historyVars, EInv
<1>1. ASSUME Listen(r) \/ Publish(r) \/ Watch(r) \/ AnnounceBlocks(r) PROVE EInv'
  <2>1. CASE Listen(r)
    <3>1. CASE start' = [start EXCEPT ![r] = "publish"]
      BY <2>1, <3>1 DEF Listen, IInv, TypeOK, CancelHasReason, ErrorsInFlight,
         ErrorIsOwn, Run
    <3>2. CASE start' = [start EXCEPT ![r] = "check"]
      BY <2>1, <3>2 DEF Listen, IInv, TypeOK, CancelHasReason, ErrorsInFlight,
         ErrorIsOwn, Run
    <3> QED
      BY <2>1, <3>1, <3>2 DEF Listen
  <2>2. CASE Publish(r)
    BY <2>2 DEF Publish, IInv, TypeOK, CancelHasReason, ErrorsInFlight, ErrorIsOwn, Run
  <2>3. CASE Watch(r)
    BY <2>3 DEF Watch, CancelHasReason, ErrorsInFlight, ErrorIsOwn
  <2>4. CASE AnnounceBlocks(r)
    BY <2>4 DEF AnnounceBlocks, IInv, TypeOK, CancelHasReason, ErrorsInFlight,
       ErrorIsOwn, Run
  <2> QED
    BY <1>1, <2>1, <2>2, <2>3, <2>4
<1>2. ASSUME AcceptFails(r) PROVE EInv'
  BY <1>2 DEF AcceptFails, IInv, TypeOK, EndIsCancelled, CancelHasReason, ErrorsInFlight,
     ErrorIsOwn, Run
<1>3. ASSUME CheckServerError(r) PROVE EInv'
  BY <1>3 DEF CheckServerError, IInv, TypeOK, CancelHasReason, ErrorsInFlight,
     ErrorIsOwn, Run
<1>4. ASSUME SetServerError(r) PROVE EInv'
  <2>1. CancelHasReason' /\ ErrorsInFlight'
    BY <1>4 DEF SetServerError, IInv, TypeOK, CancelHasReason, ErrorsInFlight, Run
  <2>2. r \in 1 .. last /\ start[r] # "done"
    BY <1>4 DEF SetServerError, IInv, TypeOK, RunsInOrder, Run
  <2>3. ErrorIsOwn'
    BY <1>4, <2>2 DEF SetServerError, ErrorsInFlight, ErrorIsOwn
  <2> QED
    BY <2>1, <2>3
<1>5. ASSUME CancelRun(r) PROVE EInv'
  BY <1>5 DEF CancelRun, IInv, TypeOK, CancelHasReason, ErrorsInFlight, ErrorIsOwn, Run
<1>6. ASSUME MarkSenderStopped(r) PROVE EInv'
  BY <1>6 DEF MarkSenderStopped, IInv, TypeOK, CancelHasReason, ErrorsInFlight,
     ErrorIsOwn, Run
<1>7. ASSUME BroadcastEnds(r) PROVE EInv'
  <2>1. CancelHasReason' /\ ErrorIsOwn'
    BY <1>7 DEF BroadcastEnds, IInv, TypeOK, CancelHasReason, ErrorIsOwn
  <2>2. r \in 1 .. last
    BY <1>7 DEF BroadcastEnds, IInv, TypeOK, RunsInOrder, Run
  <2>3. ErrorsInFlight'
    <3>1. CASE ctx[r]
      BY <1>7, <3>1 DEF BroadcastEnds, IInv, TypeOK, ErrorsInFlight
    <3>2. CASE ~ctx[r]
      <4>1. start[r] \notin {"mark", "done"}
        BY <3>2 DEF IInv, EndIsCancelled
      <4>2. r = cur \/ r \in taken \cup displaced
        BY <2>2, <4>1 DEF ErrorsInFlight
      <4>3. /\ bcast' = [bcast EXCEPT ![r] = "setError"] /\ UNCHANGED <<start, cur, last>>
            /\ bothFailed' = bothFailed \cup (IF start[r] = "cancel" THEN {r} ELSE {})
            /\ UNCHANGED <<taken, displaced>> /\ bcast \in [Run -> BcastPC]
        BY <1>7, <3>2 DEF BroadcastEnds, IInv, TypeOK
      <4> QED
        BY <4>1, <4>2, <4>3 DEF ErrorsInFlight
    <3> QED
      BY <3>1, <3>2
  <2> QED
    BY <2>1, <2>3
<1>8. ASSUME SetBroadcastError(r) PROVE EInv'
  BY <1>8 DEF SetBroadcastError, IInv, TypeOK, CancelHasReason, ErrorsInFlight,
     ErrorIsOwn
<1>9. ASSUME CancelFromBroadcast(r) PROVE EInv'
  BY <1>9 DEF CancelFromBroadcast, IInv, TypeOK, CancelHasReason, ErrorsInFlight,
     ErrorIsOwn
(* A live run is d.sender's, or was taken or displaced.                      *)
<1>10. ASSUME ApplyError(r) PROVE EInv'
  <2>1. CancelHasReason' /\ ErrorsInFlight'
    BY <1>10 DEF ApplyError, runVars, CancelHasReason, ErrorsInFlight
  <2>2. ErrorIsOwn'
    <3>1. CASE ctx[r]
      BY <1>10, <3>1 DEF ApplyError, ErrorIsOwn
    <3>2. CASE ~ctx[r]
      <4>1. r \in 1 .. last
        BY <1>10 DEF ApplyError, IInv, TypeOK, RunsInOrder, Run
      <4>2. r = cur \/ r \in taken \cup displaced
        BY <3>2, <4>1 DEF IInv, LiveRunIsReachable, HeldIsTaken, Run
      <4> QED
        BY <1>10, <3>2, <4>2 DEF ApplyError, ErrorIsOwn
    <3> QED
      BY <3>1, <3>2
  <2> QED
    BY <2>1, <2>2
<1> QED
  BY <1>1, <1>2, <1>3, <1>4, <1>5, <1>6, <1>7, <1>8, <1>9, <1>10
     DEF ServerStep, BroadcastStep

(* Every cancellation has a reason, and every error under way an owner.      *)
THEOREM SpecKeepsErrorInvariant == Spec => []EInv
<1>1. IInv /\ EInv /\ [Next]_vars => EInv'
  <2>1. IInv /\ EInv /\ UNCHANGED vars => EInv'
    BY DEF vars, settingsVars, senderVars, callVars, runVars, historyVars, EInv,
       CancelHasReason, ErrorsInFlight, ErrorIsOwn
  <2> QED
    BY <2>1, CallKeepsErrorInvariant, RunKeepsErrorInvariant DEF Next
<1> QED
  BY InitEstablishesErrorInvariant, SpecKeepsInvariant, <1>1, PTL DEF Spec

-----------------------------------------------------------------------------
(* The results, each a consequence of the invariant.                         *)

(* Every variable keeps to its type, whatever requests and runs interleave.  *)
THEOREM SenderTypeCorrect == Spec => []TypeOK
BY SpecKeepsInvariant, PTL DEF IInv

(* Snapshot never shows a sender as running that is over or being stopped.   *)
THEOREM SenderNeverShowsDead == Spec => []NeverShowsDeadSender
<1>1. IInv => NeverShowsDeadSender
  BY DEF IInv, CurIsNewest, NeverShowsDeadSender
<1> QED
  BY <1>1, SpecKeepsInvariant, PTL

(* No run is stopped by two requests, and none that d.sender still names.    *)
THEOREM SenderStoppedOnce == Spec => []StoppedOnce
<1>1. IInv => StoppedOnce
  BY DEF IInv, CurIsNewest, HeldIsTaken, StoppedOnce, NoRun
<1> QED
  BY <1>1, SpecKeepsInvariant, PTL

(* A run with a live context is lost only if another startSender overlapped  *)
(* its own: no end of a run and no stop loses one.                           *)
THEOREM SenderLiveRunIsReachable == Spec => []LiveRunIsReachable
BY SpecKeepsInvariant, PTL DEF IInv

(* A sender that stopped by itself left its error in lastError.              *)
THEOREM SenderNoSilentEnd == Spec => []NoSilentEnd
<1>1. IInv => NoSilentEnd
  BY DEF IInv, CurIsNewest, ErrorComesFirst, NoSilentEnd
<1> QED
  BY <1>1, SpecKeepsInvariant, PTL

(* The error shown beside a running sender is its own or a request's, unless *)
(* its author was taken, displaced or failed twice, or it is that of a       *)
(* connection and its run was cancelled before it was recorded.              *)
THEOREM SenderErrorIsOwn == Spec => []ErrorIsOwn
BY SpecKeepsErrorInvariant, PTL DEF EInv

-----------------------------------------------------------------------------
(* The sender implements Component, as far as its steps go.                  *)

Loading == {c \in Caller : pc[c] = "load"}
Doomed  == {r \in Run : ~ctx[r] /\ \E c \in Caller : pc[c] = "stopCancel" /\ held[c] = r}
Down    == {r \in Run : ctx[r]}

(* The number of starts under way, when one caller moves on.                 *)
LEMMA LoadingCounts ==
  ASSUME TypeOK, NEW c \in Caller, NEW label, pc' = [pc EXCEPT ![c] = label]
  PROVE  /\ (label = "load" /\ pc[c] # "load") =>
              Cardinality(Loading') = Cardinality(Loading) + 1
         /\ (label # "load" /\ pc[c] = "load") =>
              /\ Cardinality(Loading) > 0
              /\ Cardinality(Loading') = Cardinality(Loading) - 1
         /\ (label = "load" <=> pc[c] = "load") => Loading' = Loading
<1>1. IsFiniteSet(Loading) /\ Cardinality(Loading) \in Nat
  BY SenderAssumption, FS_Subset, FS_CardinalityType DEF Loading
<1>2. ASSUME label = "load", pc[c] # "load"
      PROVE  Cardinality(Loading') = Cardinality(Loading) + 1
  <2>1. Loading' = Loading \cup {c} /\ c \notin Loading
    BY <1>2 DEF Loading, TypeOK
  <2> QED
    BY <1>1, <2>1, FS_AddElement
<1>3. ASSUME label # "load", pc[c] = "load"
      PROVE  /\ Cardinality(Loading) > 0
             /\ Cardinality(Loading') = Cardinality(Loading) - 1
  <2>1. Loading' = Loading \ {c} /\ c \in Loading
    BY <1>3 DEF Loading, TypeOK
  <2>2. Cardinality(Loading) # 0
    BY <1>1, <2>1, FS_EmptySet
  <2> QED
    BY <1>1, <2>1, <2>2, FS_RemoveElement, SMTT(60)
<1>4. ASSUME label = "load" <=> pc[c] = "load" PROVE Loading' = Loading
  BY <1>4 DEF Loading, TypeOK
<1> QED
  BY <1>2, <1>3, <1>4

LEMMA ComponentInit == Init => Sender!Init
<1> SUFFICES ASSUME Init PROVE Sender!Init
  OBVIOUS
<1>1. cur = 0 /\ last = cur /\ Loading = {} /\ Doomed = {} /\ Down = {}
  BY DEF Init, NoRun, Loading, Doomed, Down
<1>2. Cardinality(Loading) = 0
  BY <1>1, FS_EmptySet
<1> QED
  BY <1>1, <1>2 DEF Sender!Init, Sender!NoRun, Loading, Doomed, Down

(* What Component sees of a step.                                            *)
Stutters == UNCHANGED <<cur, last, Cardinality(Loading), Doomed, Down>>

LEMMA CallImplementsComponent ==
  ASSUME IInv, NEW c \in Caller, Request(c) \/ CallStep(c)
  PROVE  Sender!Next \/ UNCHANGED Sender!vars
<1> USE DEF Goto, senderVars, runVars, historyVars
<1> TypeOK
  BY DEF IInv
<1>1. ASSUME NEW b \in BOOLEAN, StartCheck(c, b), pc[c] \in {"idle", "start"}
      PROVE  Sender!Check \/ Stutters
  <2>1. UNCHANGED <<cur, last, ctx, held>>
    BY <1>1 DEF StartCheck
  <2>2. Doomed' = Doomed /\ Down' = Down
    BY <1>1, <2>1 DEF StartCheck, Doomed, Down, TypeOK
  <2>3. CASE running
    BY <1>1, <2>1, <2>2, <2>3, LoadingCounts DEF StartCheck, Stutters
  <2>4. CASE ~running
    <3>1. cur = 0
      BY <2>4 DEF IInv, CurIsNewest, NoRun
    <3>2. Cardinality(Loading') = Cardinality(Loading) + 1
      BY <1>1, <2>4, LoadingCounts DEF StartCheck
    <3> QED
      BY <2>1, <2>2, <3>1, <3>2 DEF Sender!Check, Sender!NoRun, Loading, Doomed, Down
  <2> QED
    BY <2>3, <2>4
<1>2. ASSUME NEW b \in BOOLEAN, StopCheck(c, b), pc[c] \in {"idle", "stop", "restart"}
      PROVE  Sender!Stop \/ Stutters
  <2>1. UNCHANGED <<last, ctx>> /\ cur' = 0 /\ Down' = Down
    BY <1>2 DEF StopCheck, Down, NoRun
  <2>2. Loading' = Loading
    BY <1>2, LoadingCounts DEF StopCheck, AfterStop
  <2>3. CASE running
    <3>1. cur # 0 /\ cur \in Run
      BY <2>3 DEF IInv, CurIsNewest, NoRun, TypeOK
    <3>2. held' = [held EXCEPT ![c] = cur] /\ pc' = [pc EXCEPT ![c] = "stopCancel"]
      BY <1>2, <2>3 DEF StopCheck
    <3>3. /\ pc'[c] = "stopCancel" /\ held'[c] = cur
          /\ \A d \in Caller : d # c => pc'[d] = pc[d] /\ held'[d] = held[d]
      BY <3>2 DEF TypeOK
    <3>4. Doomed' = Doomed \cup ({cur} \ Down)
      BY <1>2, <2>1, <3>1, <3>3 DEF Doomed, Down
    <3> QED
      BY <2>1, <2>2, <3>1, <3>4 DEF Sender!Stop, Sender!NoRun, Loading, Doomed, Down
  <2>4. CASE ~running
    <3>1. cur = 0
      BY <2>4 DEF IInv, CurIsNewest, NoRun
    <3>2. Doomed' = Doomed
      BY <1>2, <2>1, <2>4 DEF StopCheck, AfterStop, Doomed, TypeOK
    <3> QED
      BY <2>1, <2>2, <3>1, <3>2 DEF Stutters
  <2> QED
    BY <2>3, <2>4
<1>3. ASSUME StartFails(c) PROVE Sender!GiveUp
  <2>1. UNCHANGED <<cur, last, Doomed, Down>>
    BY <1>3 DEF StartFails, Doomed, Down, TypeOK
  <2>2. Cardinality(Loading) > 0 /\ Cardinality(Loading') = Cardinality(Loading) - 1
    <3>1. pc[c] = "load" /\ pc' = [pc EXCEPT ![c] = "idle"]
      BY <1>3 DEF StartFails
    <3>2. \A label : /\ pc' = [pc EXCEPT ![c] = label] /\ label # "load" /\ pc[c] = "load"
                    => /\ Cardinality(Loading) > 0
                       /\ Cardinality(Loading') = Cardinality(Loading) - 1
      BY LoadingCounts
    <3> QED
      BY <3>1, <3>2
  <2> QED
    BY <2>1, <2>2 DEF Sender!GiveUp, Loading, Doomed, Down
<1>4. ASSUME Install(c) PROVE Sender!Install
  <2>1. last < MaxRuns /\ last' = last + 1 /\ cur' = last + 1
    BY <1>4 DEF Install
  <2>2. UNCHANGED <<Doomed, Down>>
    <3>1. UNCHANGED <<ctx, held>>
      BY <1>4 DEF Install
    <3>2. \A d \in Caller : pc'[d] = "stopCancel" <=> pc[d] = "stopCancel"
      BY <1>4 DEF Install, TypeOK
    <3> QED
      BY <3>1, <3>2 DEF Doomed, Down
  <2>3. Cardinality(Loading) > 0 /\ Cardinality(Loading') = Cardinality(Loading) - 1
    <3>1. pc[c] = "load" /\ pc' = [pc EXCEPT ![c] = "idle"]
      BY <1>4 DEF Install
    <3>2. \A label : /\ pc' = [pc EXCEPT ![c] = label] /\ label # "load" /\ pc[c] = "load"
                    => /\ Cardinality(Loading) > 0
                       /\ Cardinality(Loading') = Cardinality(Loading) - 1
      BY LoadingCounts
    <3> QED
      BY <3>1, <3>2
  <2> QED
    BY <2>1, <2>2, <2>3 DEF Sender!Install, Loading, Doomed, Down
<1>5. ASSUME StopCancel(c) PROVE (\E r \in Run : Sender!Cancel(r)) \/ Stutters
  <2> DEFINE h == held[c]
  <2>1. /\ h \in Run /\ UNCHANGED <<cur, last, held>> /\ pc[c] = "stopCancel"
        /\ ctx' = [ctx EXCEPT ![h] = TRUE] /\ pc' = [pc EXCEPT ![c] = "stopServer"]
    BY <1>5 DEF StopCancel, IInv, TypeOK, HeldIsTaken
  <2>2. Loading' = Loading
    BY <2>1 DEF Loading, TypeOK
  <2>3. Down' = Down \cup {h}
    BY <2>1 DEF Down, TypeOK
  <2>4. Doomed' = Doomed \ {h}
    <3>1. /\ pc'[c] # "stopCancel"
          /\ \A d \in Caller : d # c => pc'[d] = pc[d]
      BY <2>1 DEF TypeOK
    <3>2. ctx'[h] /\ \A q \in Run : q # h => ctx'[q] = ctx[q]
      BY <2>1 DEF TypeOK
    <3> QED
      BY <2>1, <3>1, <3>2 DEF Doomed
  <2>5. CASE h \in Doomed
    BY <2>1, <2>2, <2>3, <2>4, <2>5 DEF Sender!Cancel, Loading, Doomed, Down
  <2>6. CASE h \notin Doomed
    <3>1. h \in Down
      BY <2>1, <2>6 DEF Doomed, Down
    <3> QED
      BY <2>1, <2>2, <2>3, <2>4, <2>6, <3>1 DEF Stutters
  <2> QED
    BY <2>5, <2>6
<1>6. ASSUME StopServer(c) PROVE Stutters
  <2>1. /\ UNCHANGED <<cur, last, ctx>> /\ pc[c] = "stopServer"
        /\ pc' = [pc EXCEPT ![c] = AfterStop(c)] /\ held' = [held EXCEPT ![c] = NoRun]
    BY <1>6 DEF StopServer
  <2>2. Loading' = Loading
    <3>1. AfterStop(c) # "load" /\ pc[c] # "load"
      BY <2>1 DEF AfterStop
    <3>2. pc' = [pc EXCEPT ![c] = AfterStop(c)]
      BY <2>1
    <3> QED
      BY <3>1, <3>2, LoadingCounts, Zenon
  <2>3. Doomed' = Doomed /\ Down' = Down
    BY <2>1 DEF Doomed, Down, TypeOK, AfterStop
  <2> QED
    BY <2>1, <2>2, <2>3 DEF Stutters
<1>7. ASSUME UpdateSettings(c) \/ Reconcile(c) PROVE Stutters
  <2>1. UNCHANGED <<cur, last, Doomed, Down>>
    BY <1>7 DEF UpdateSettings, Reconcile, Doomed, Down, TypeOK
  <2>2. Loading' = Loading
    BY <1>7, LoadingCounts DEF UpdateSettings, Reconcile
  <2> QED
    BY <2>1, <2>2 DEF Stutters
<1>8. Stutters => UNCHANGED Sender!vars
  BY DEF Stutters, Sender!vars, Loading, Doomed, Down
<1> QED
  BY <1>1, <1>2, <1>3, <1>4, <1>5, <1>6, <1>7, <1>8
     DEF Request, CallStep, StartSender, StopSender, ReconcileStart, ReconcileStop,
         Sender!Next, Sender!Run, Run

LEMMA RunImplementsComponent ==
  ASSUME IInv, NEW r \in Run, ServerStep(r) \/ BroadcastStep(r) \/ ApplyError(r)
  PROVE  Sender!Next \/ UNCHANGED Sender!vars
<1> USE DEF senderVars, callVars, runVars
<1> TypeOK
  BY DEF IInv
<1>1. UNCHANGED <<last, pc, held>>
  BY DEF ServerStep, Listen, Publish, Watch, AcceptFails, AnnounceBlocks, CheckServerError,
     SetServerError, CancelRun, MarkSenderStopped, BroadcastStep, BroadcastEnds,
     SetBroadcastError, CancelFromBroadcast, ApplyError
<1>2. Loading' = Loading
  BY <1>1 DEF Loading
<1>3. CASE CancelRun(r) \/ CancelFromBroadcast(r)
  <2>1. /\ ctx' = [ctx EXCEPT ![r] = TRUE] /\ cur' = cur
        /\ start[r] = "cancel" \/ bcast[r] = "cancel"
    BY <1>3 DEF CancelRun, CancelFromBroadcast
  <2>2. r \in 1 .. last
    BY <2>1, SenderAssumption DEF IInv, RunsInOrder, TypeOK, Run, NoRun
  <2>3. Down' = Down \cup {r} /\ Doomed' = Doomed \ {r}
    BY <1>1, <2>1 DEF Down, Doomed, TypeOK
  <2>4. Sender!End(r)
    BY <1>1, <1>2, <2>1, <2>2, <2>3 DEF Sender!End, Loading, Doomed, Down
  <2> QED
    BY <2>4 DEF Sender!Next, Sender!Run, Run
<1>4. CASE MarkSenderStopped(r)
  <2>1. /\ start[r] = "mark" /\ ctx' = ctx
        /\ (cur = r /\ cur' = 0) \/ (cur # r /\ cur' = cur)
    BY <1>4 DEF MarkSenderStopped, NoRun
  <2>2. r \in 1 .. last /\ ctx[r]
    BY <2>1, SenderAssumption DEF IInv, RunsInOrder, EndIsCancelled, TypeOK, Run, NoRun
  <2>3. Down' = Down \cup {r} /\ Doomed' = Doomed \ {r}
    BY <1>1, <2>1, <2>2 DEF Down, Doomed
  <2>4. Sender!End(r)
    BY <1>1, <1>2, <2>1, <2>2, <2>3 DEF Sender!End, Sender!NoRun, Loading, Doomed, Down
  <2> QED
    BY <2>4 DEF Sender!Next, Sender!Run, Run
<1>5. CASE ~(CancelRun(r) \/ CancelFromBroadcast(r) \/ MarkSenderStopped(r))
  <2>1. UNCHANGED <<ctx, cur>>
    BY <1>5 DEF ServerStep, Listen, Publish, Watch, AcceptFails, AnnounceBlocks,
       CheckServerError, SetServerError, BroadcastStep, BroadcastEnds, SetBroadcastError,
       ApplyError
  <2> QED
    BY <1>1, <1>2, <2>1 DEF Sender!vars, Loading, Doomed, Down
<1> QED
  BY <1>3, <1>4, <1>5

(* Every behaviour of the sender is one of Component, whose runs take off no *)
(* run but themselves, up to the fairness of its stops.                      *)
THEOREM SenderImplementsComponent ==
  Spec => Sender!Init /\ [][Sender!Next]_(Sender!vars)
<1>1. IInv /\ [Next]_vars => [Sender!Next]_(Sender!vars)
  <2>1. ASSUME UNCHANGED vars PROVE UNCHANGED Sender!vars
    BY <2>1 DEF vars, senderVars, callVars, runVars, Sender!vars
  <2> QED
    BY <2>1, CallImplementsComponent, RunImplementsComponent DEF Next
<1> QED
  BY <1>1, ComponentInit, SpecKeepsInvariant, PTL DEF Spec

=============================================================================
