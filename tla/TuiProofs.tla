------------------------------ MODULE TuiProofs ------------------------------
(***************************************************************************)
(* The safety of the terminal program, for any components, files and       *)
(* connections and any number of keys, requests and failures.              *)
(***************************************************************************)
EXTENDS Tui, FiniteSetTheorems, TLAPS

(* A request that the API works on asks for something, and once its snapshot *)
(* is there the API is done with it.                                         *)
RequestsFit ==
  \A s \in Slot : /\ req[s].api # "none" => req[s].kind # "none"
                  /\ req[s].msg = "snapshot" => req[s].api = "none"

(* Every request that has failed or still may has room in the bound.         *)
Exposed(r) == r.msg = "error" \/ (r.msg = "wait" /\ r.kind \in {"start", "settings"})

RoomLeft == failures + Cardinality({s \in Slot : Exposed(req[s])}) <= MaxFailures

TypeInv == TypeOK /\ RequestsFit /\ RoomLeft

(* The chains of polls are numbered in the order in which they began.        *)
ChainsRun == \A n \in Chain : poll[n].at # "none" <=> n <= failures + 1

(* As long as no selection was lost, at most one list of files is under way, *)
(* and the last one sent is what the user picked.                            *)
SelectionSent ==
  ~raced =>
    /\ \A s, t \in UnhandledFiles : s = t
    /\ \A s \in UnhandledFiles : req[s].files = wanted
    /\ UnhandledFiles = {} => daemon.files = wanted

(* As long as no write was made blindly, the zero settings are nowhere but   *)
(* in a terminal that has not seen the daemon's.                             *)
NowhereBlank ==
  ~blind =>
    /\ daemon.settings.text # Blank
    /\ synced => shown.settings.text # Blank
    /\ \A s \in Slot :
         /\ req[s].api = "received" /\ req[s].kind = "settings" => req[s].settings.text # Blank
         /\ req[s].msg = "snapshot" => req[s].snap.settings.text # Blank
    /\ \A n \in Chain : poll[n].at = "snapshot" => poll[n].snap.settings.text # Blank

-----------------------------------------------------------------------------
(* Snapshots and requests.                                                   *)

LEMMA SnapshotFields ==
  ASSUME NEW d \in Snapshot
  PROVE  /\ d.settings \in Settings /\ d.settings.text \in Text /\ d.settings.enabled \in Flags
         /\ d.files \in SUBSET Path /\ d.running \in Flags /\ d.conns \in SUBSET Conn
  BY DEF Snapshot, Settings

LEMMA SnapshotUpdates ==
  ASSUME NEW d \in Snapshot
  PROVE  /\ \A files \in SUBSET Path : [d EXCEPT !.files = files] \in Snapshot
         /\ \A conns \in SUBSET Conn : [d EXCEPT !.conns = conns] \in Snapshot
         /\ \A running \in Flags : [d EXCEPT !.running = running] \in Snapshot
         /\ \A new \in Settings : [d EXCEPT !.settings = new] \in Snapshot
         /\ \A text \in Text : [d EXCEPT !.settings.text = text] \in Snapshot
         /\ \A flags \in Flags : [d EXCEPT !.settings.enabled = flags] \in Snapshot
  BY DEF Snapshot, Settings

LEMMA ZeroTypes ==
  /\ Blank \in Text /\ Boot \in Text /\ Boot # Blank /\ Off \in Flags
  /\ Zero \in Snapshot /\ Zero.files = {} /\ Zero.conns = {}
  /\ NoRequest \in Request
  /\ NoRequest.kind = "none" /\ NoRequest.api = "none" /\ NoRequest.msg = "none"
  /\ NoPoll \in Poll /\ NoPoll.at = "none"
<1>1. Blank \in Text /\ Boot \in Text /\ Boot # Blank
  BY TuiAssumption DEF Text, Blank, Boot
<1>2. Off \in Flags
  BY DEF Off, Flags
<1>3. Zero.settings \in Settings /\ Zero.files = {} /\ Zero.conns = {} /\ Zero.running = Off
  BY <1>1, <1>2 DEF Zero, Settings
<1>4. Zero \in Snapshot
  BY <1>1, <1>2 DEF Zero, Snapshot, Settings
<1>5. NoRequest \in Request
  BY <1>3, <1>4 DEF NoRequest, Request, Kind
<1>6. NoPoll \in Poll
  BY <1>4 DEF NoPoll, Poll
<1> QED
  BY <1>1, <1>2, <1>3, <1>4, <1>5, <1>6 DEF NoRequest, NoPoll

(* Starting what was off, or all that new settings ask for.                  *)
LEMMA StartedFields ==
  ASSUME NEW d \in Snapshot, NEW on \in SUBSET Component, NEW ok \in SUBSET on
  PROVE  /\ Started(d, on, ok) \in Snapshot
         /\ Started(d, on, ok).files = d.files
         /\ Started(d, on, ok).settings = d.settings
<1> DEFINE running == [c \in Component |-> IF c \in on THEN c \in ok ELSE d.running[c]]
           conns == IF "sender" \in ok THEN {} ELSE d.conns
<1>1. d.running \in Flags /\ d.conns \in SUBSET Conn
  BY SnapshotFields
<1>2. running \in Flags /\ conns \in SUBSET Conn
  <2>1. ASSUME NEW c \in Component
        PROVE  (IF c \in on THEN c \in ok ELSE d.running[c]) \in BOOLEAN
    <3>1. (c \in ok) \in BOOLEAN
      OBVIOUS
    <3>2. d.running[c] \in BOOLEAN
      BY <1>1 DEF Flags
    <3> QED
      BY <3>1, <3>2, Zenon
  <2> QED
    BY <1>1, <2>1 DEF Flags
<1> HIDE DEF running, conns
<1>3. [d EXCEPT !.running = running] \in Snapshot
  BY <1>2, SnapshotUpdates
<1>4. [[d EXCEPT !.running = running] EXCEPT !.conns = conns] \in Snapshot
  BY <1>2, <1>3, SnapshotUpdates
<1>5. Started(d, on, ok) = [[d EXCEPT !.running = running] EXCEPT !.conns = conns]
  BY DEF Started, running, conns
<1>6. /\ [[d EXCEPT !.running = running] EXCEPT !.conns = conns].files = d.files
      /\ [[d EXCEPT !.running = running] EXCEPT !.conns = conns].settings = d.settings
  BY DEF Snapshot
<1> QED
  BY <1>4, <1>5, <1>6

(* What a request makes of the daemon.                                       *)
LEMMA OutcomeFields ==
  ASSUME NEW r \in Request, r.kind # "none", NEW d \in Snapshot, NEW o \in Outcomes(r, d)
  PROVE  /\ o[1] \in Snapshot /\ o[2] \in BOOLEAN
         /\ o[1].files = IF r.kind = "files" THEN r.files ELSE d.files
         /\ o[1].settings.text = IF r.kind = "settings" THEN r.settings.text ELSE d.settings.text
         /\ ~o[2] => r.kind \in {"start", "settings"}
<1>1. /\ r.files \in SUBSET Path /\ r.settings \in Settings /\ r.on \in SUBSET Component
      /\ r.kind \in {"files", "settings", "start", "stop"}
      /\ r.settings.text \in Text /\ r.settings.enabled \in Flags
  BY DEF Request, Kind, Settings
<1>2. /\ d.settings \in Settings /\ d.settings.text \in Text /\ d.settings.enabled \in Flags
      /\ d.files \in SUBSET Path /\ d.running \in Flags /\ d.conns \in SUBSET Conn
  BY SnapshotFields
<1>3. CASE r.kind = "files"
  <2> DEFINE e == [d EXCEPT !.files = r.files]
  <2>1. o = <<e, TRUE>>
    BY <1>3 DEF Outcomes
  <2>2. e \in Snapshot
    BY <1>1, SnapshotUpdates
  <2>3. e.files = r.files /\ e.settings = d.settings
    BY DEF Snapshot
  <2> HIDE DEF e
  <2> QED
    BY <1>3, <2>1, <2>2, <2>3
<1>4. CASE r.kind = "stop"
  <2> DEFINE enabled == [c \in Component |-> d.settings.enabled[c] /\ c \notin r.on]
             running == [c \in Component |-> d.running[c] /\ c \notin r.on]
             e == [[d EXCEPT !.settings.enabled = enabled] EXCEPT !.running = running]
  <2>1. o = <<e, TRUE>>
    BY <1>4 DEF Outcomes
  <2>2. enabled \in Flags /\ running \in Flags
    BY <1>2 DEF Flags
  <2> HIDE DEF enabled, running
  <2>3. [d EXCEPT !.settings.enabled = enabled] \in Snapshot
    BY <2>2, SnapshotUpdates
  <2>4. e \in Snapshot
    BY <2>2, <2>3, SnapshotUpdates
  <2>5. e.files = d.files /\ e.settings.text = d.settings.text
    BY DEF Snapshot, Settings
  <2> HIDE DEF e
  <2> QED
    BY <1>4, <2>1, <2>4, <2>5
<1>5. CASE r.kind = "start"
  <2> DEFINE enabled == [c \in Component |-> d.settings.enabled[c] \/ c \in r.on]
             e == [d EXCEPT !.settings.enabled = enabled]
             on == {c \in r.on : ~d.running[c]}
  <2>1. PICK ok \in CanStart(e, on) : o = <<Started(e, on, ok), ok = on>>
    BY <1>5 DEF Outcomes
  <2>2. enabled \in Flags /\ on \in SUBSET Component /\ ok \in SUBSET on
    BY <1>1, <1>2 DEF Flags, CanStart
  <2> HIDE DEF enabled
  <2>3. e \in Snapshot
    BY <2>2, SnapshotUpdates
  <2>4. e.files = d.files /\ e.settings.text = d.settings.text
    BY DEF Snapshot, Settings
  <2> HIDE DEF e, on
  <2>5. /\ Started(e, on, ok) \in Snapshot /\ Started(e, on, ok).files = e.files
        /\ Started(e, on, ok).settings = e.settings
    BY <2>2, <2>3, StartedFields
  <2> QED
    BY <1>5, <2>1, <2>4, <2>5
<1>6. CASE r.kind = "settings"
  <2> DEFINE e == Replaced(d, r.settings)
             on == Enabled(r.settings)
  <2>1. PICK ok \in CanStart(e, on) : o = <<Started(e, on, ok), ok = on>>
    BY <1>6 DEF Outcomes
  <2>2. on \in SUBSET Component /\ ok \in SUBSET on
    BY DEF Enabled, CanStart
  <2>3. [d EXCEPT !.settings = r.settings] \in Snapshot
    BY <1>1, SnapshotUpdates
  <2>4. e = [[d EXCEPT !.settings = r.settings] EXCEPT !.running = Off]
    BY DEF Replaced
  <2>5. e \in Snapshot
    <3>1. Off \in Flags
      BY ZeroTypes
    <3>2. \A s \in Snapshot : [s EXCEPT !.running = Off] \in Snapshot
      BY <3>1, SnapshotUpdates, Zenon
    <3> QED
      BY <2>3, <2>4, <3>2, Zenon
  <2>6. e.files = d.files /\ e.settings = r.settings
    BY DEF Snapshot, Replaced
  <2> HIDE DEF e, on
  <2>7. /\ Started(e, on, ok) \in Snapshot /\ Started(e, on, ok).files = e.files
        /\ Started(e, on, ok).settings = e.settings
    BY <2>2, <2>5, StartedFields
  <2> QED
    BY <1>6, <2>1, <2>6, <2>7
<1> QED
  BY <1>1, <1>3, <1>4, <1>5, <1>6

-----------------------------------------------------------------------------
(* Requests in their slots.                                                  *)

LEMMA RequestUpdates ==
  ASSUME NEW r \in Request
  PROVE  /\ \A api \in {"none", "received", "done"} :
              /\ [r EXCEPT !.api = api] \in Request
              /\ [r EXCEPT !.api = api].kind = r.kind
              /\ [r EXCEPT !.api = api].api = api
              /\ [r EXCEPT !.api = api].msg = r.msg
         /\ \A msg \in {"none", "wait", "snapshot", "error"} :
              /\ [r EXCEPT !.msg = msg] \in Request
              /\ [r EXCEPT !.msg = msg].kind = r.kind
              /\ [r EXCEPT !.msg = msg].api = r.api
              /\ [r EXCEPT !.msg = msg].msg = msg
  BY DEF Request

LEMMA SendShape ==
  ASSUME req \in [Slot -> Request], NEW r \in Request, Send(r)
  PROVE  \E s \in Slot :
           /\ req[s] = NoRequest
           /\ req' = [req EXCEPT ![s] = [r EXCEPT !.api = "received", !.msg = "wait"]]
<1> DEFINE free == {s \in Slot : req[s] = NoRequest}
<1>1. (CHOOSE s \in free : TRUE) \in free
  BY DEF Send
<1>2. req' = [req EXCEPT ![CHOOSE s \in free : TRUE] =
                 [r EXCEPT !.api = "received", !.msg = "wait"]]
  BY DEF Send
<1> QED
  BY <1>1, <1>2

LEMMA SettleShape ==
  ASSUME NEW s \in Slot, NEW r \in Request, Settle(s, r)
  PROVE  \E q \in Request :
           /\ req' = [req EXCEPT ![s] = q]
           /\ q.api = r.api /\ q.msg = r.msg
           /\ q = r \/ q = NoRequest
<1> DEFINE q == IF r.api = "none" /\ r.msg = "none" THEN NoRequest ELSE r
<1>1. req' = [req EXCEPT ![s] = q]
  BY DEF Settle
<1>2. q \in Request /\ q.api = r.api /\ q.msg = r.msg /\ (q = r \/ q = NoRequest)
  BY ZeroTypes
<1> QED
  BY <1>1, <1>2

(* What is in a slot fits after a request in one of them has changed, if the *)
(* bound has room for what may fail now.                                     *)
SlotsFit == req \in [Slot -> Request] /\ RequestsFit /\ RoomLeft

LEMMA SlotsKept ==
  ASSUME SlotsFit, req' = req, failures' = failures
  PROVE  SlotsFit'
<1>1. req' \in [Slot -> Request] /\ RequestsFit'
  BY DEF SlotsFit, RequestsFit
<1>2. {s \in Slot : Exposed(req'[s])} = {s \in Slot : Exposed(req[s])}
  OBVIOUS
<1>3. RoomLeft'
  BY <1>2, Zenon DEF SlotsFit, RoomLeft
<1> QED
  BY <1>1, <1>3 DEF SlotsFit

LEMMA SlotChanged ==
  ASSUME SlotsFit, failures \in Nat,
         NEW s \in Slot, NEW q \in Request, req' = [req EXCEPT ![s] = q],
         q.api # "none" => q.kind # "none",
         q.msg = "snapshot" => q.api = "none",
         \/ /\ failures' = failures
            /\ Exposed(q) => Exposed(req[s]) \/ RoomToFail
         \/ failures' = failures + 1 /\ Exposed(req[s]) /\ ~Exposed(q)
  PROVE  SlotsFit'
<1> DEFINE E == {t \in Slot : Exposed(req[t])}
           F == {t \in Slot : Exposed(req'[t])}
<1>1. req' \in [Slot -> Request] /\ req'[s] = q /\ \A t \in Slot \ {s} : req'[t] = req[t]
  BY DEF SlotsFit
<1>2. RequestsFit'
  BY <1>1 DEF SlotsFit, RequestsFit
<1>3. IsFiniteSet(Slot) /\ MaxFailures \in Nat
  BY TuiAssumption
<1>4. IsFiniteSet(E) /\ IsFiniteSet(F)
  BY <1>3, FS_Subset
<1>5. Cardinality(E) \in Nat /\ Cardinality(F) \in Nat
  BY <1>4, FS_CardinalityType
<1>6. failures + Cardinality(E) <= MaxFailures
  BY DEF SlotsFit, RoomLeft
<1>7. failures' + Cardinality(F) <= MaxFailures
  <2>1. CASE failures' = failures /\ (Exposed(q) => Exposed(req[s]))
    <3>1. F \subseteq E
      BY <1>1, <2>1
    <3>2. Cardinality(F) <= Cardinality(E)
      BY <3>1, <1>4, FS_Subset
    <3> QED
      BY <3>2, <2>1, <1>5, <1>6, <1>3
  <2>2. CASE failures' = failures /\ RoomToFail
    <3> DEFINE R == {t \in Slot : \/ req[t].kind \in {"start", "settings"}
                                  \/ req[t].msg = "error"}
    <3>1. failures + Cardinality(R) < MaxFailures
      BY <2>2 DEF RoomToFail
    <3>2. IsFiniteSet(R) /\ Cardinality(R) \in Nat
      BY <1>3, FS_Subset, FS_CardinalityType
    <3>3. F \subseteq R \cup {s}
      BY <1>1 DEF Exposed
    <3> HIDE DEF R
    <3>4. /\ IsFiniteSet(R \cup {s})
          /\ Cardinality(R \cup {s}) <= Cardinality(R) + 1
      <4>1. /\ IsFiniteSet(R \cup {s})
            /\ Cardinality(R \cup {s}) = IF s \in R THEN Cardinality(R) ELSE Cardinality(R) + 1
        BY <3>2, FS_AddElement, Zenon
      <4> QED
        BY <4>1, <3>2
    <3>5. Cardinality(F) <= Cardinality(R \cup {s})
      BY <3>3, <3>4, FS_Subset
    <3>6. Cardinality(R \cup {s}) \in Nat
      BY <3>4, FS_CardinalityType
    <3> HIDE DEF F
    <3> QED
      BY <3>1, <3>2, <3>4, <3>5, <3>6, <2>2, <1>3, <1>5
  <2>3. CASE failures' = failures + 1 /\ Exposed(req[s]) /\ ~Exposed(q)
    <3>1. s \in E /\ F = E \ {s}
      BY <1>1, <2>3
    <3>2. Cardinality(F) = Cardinality(E) - 1
      BY <3>1, <1>4, FS_RemoveElement
    <3> QED
      BY <3>2, <2>3, <1>5, <1>6, <1>3
  <2> QED
    BY <2>1, <2>2, <2>3
<1>8. RoomLeft'
  BY <1>7 DEF RoomLeft
<1> QED
  BY <1>1, <1>2, <1>8 DEF SlotsFit

(* A request that a key sends.                                               *)
LEMMA SlotSent ==
  ASSUME SlotsFit, failures \in Nat, failures' = failures,
         NEW r \in Request, r.kind # "none", Send(r),
         r.kind \in {"start", "settings"} => RoomToFail
  PROVE  SlotsFit'
<1> DEFINE q == [r EXCEPT !.api = "received", !.msg = "wait"]
<1>1. PICK s \in Slot : req[s] = NoRequest /\ req' = [req EXCEPT ![s] = q]
  BY SendShape DEF SlotsFit
<1>2. q \in Request /\ q.kind = r.kind /\ q.api = "received" /\ q.msg = "wait"
  BY DEF Request
<1> HIDE DEF q
<1>3. Exposed(q) => RoomToFail
  BY <1>2 DEF Exposed
<1> QED
  BY <1>1, <1>2, <1>3, SlotChanged

-----------------------------------------------------------------------------
(* Types.                                                                    *)

(* What the daemon shows when the terminal starts.                           *)
LEMMA FirstSnapshot ==
  LET d == [Zero EXCEPT !.settings.text = Boot, !.files = Found]
  IN  d \in Snapshot /\ d.files = Found /\ d.settings.text = Boot
<1>1. PICK t : t = [Zero EXCEPT !.settings.text = Boot]
  OBVIOUS
<1>2. t \in Snapshot /\ t.settings.text = Boot
  BY <1>1, ZeroTypes, SnapshotUpdates DEF Snapshot, Settings
<1>3. PICK d : d = [t EXCEPT !.files = Found]
  OBVIOUS
<1>4. d \in Snapshot /\ d.files = Found /\ d.settings = t.settings
  BY <1>2, <1>3, TuiAssumption, SnapshotUpdates DEF Snapshot
<1>5. d = [Zero EXCEPT !.settings.text = Boot, !.files = Found]
  BY <1>1, <1>3
<1> QED
  BY <1>2, <1>4, <1>5

LEMMA TypesBegin ==
  ASSUME Init
  PROVE  TypeInv
<1>1. /\ MaxKeys \in Nat /\ MaxFailures \in Nat /\ MaxEvents \in Nat /\ NoConn \notin Conn
      /\ IsFiniteSet(Slot)
  BY TuiAssumption
<1>2. daemon \in Snapshot
  BY FirstSnapshot DEF Init
<1>3. req \in [Slot -> Request] /\ \A s \in Slot : req[s] = NoRequest
  BY ZeroTypes DEF Init
<1>4. poll \in [Chain -> Poll]
  <2>1. [NoPoll EXCEPT !.at = "wait"] \in Poll
    BY ZeroTypes DEF Poll
  <2> QED
    BY <2>1, ZeroTypes DEF Init
<1>5. page \in Page /\ editing \in BOOLEAN /\ shown \in Snapshot
  BY ZeroTypes DEF Init, Page
<1>6. keys \in 0 .. MaxKeys /\ failures \in 0 .. MaxFailures /\ events \in 0 .. MaxEvents
  BY <1>1 DEF Init
<1>7. TypeOK
  <2>1. wanted \in SUBSET Path /\ detail = NoConn /\ dirty \in BOOLEAN
    BY TuiAssumption DEF Init
  <2>2. /\ raced \in BOOLEAN /\ unsent \in BOOLEAN /\ crossed \in BOOLEAN
        /\ synced \in BOOLEAN /\ blind \in BOOLEAN
    BY DEF Init
  <2> QED
    BY <1>2, <1>3, <1>4, <1>5, <1>6, <2>1, <2>2 DEF TypeOK
<1>8. RequestsFit
  BY <1>3, ZeroTypes DEF RequestsFit
<1>9. RoomLeft
  <2>1. {s \in Slot : Exposed(req[s])} = {}
    BY <1>3, ZeroTypes DEF Exposed
  <2>2. Cardinality({}) = 0
    BY FS_EmptySet
  <2> QED
    BY <2>1, <2>2, <1>1 DEF RoomLeft, Init
<1> QED
  BY <1>7, <1>8, <1>9 DEF TypeInv

(* What an answer does to the page and the state shown.                      *)
LEMMA AppliedTypes ==
  ASSUME TypeOK, NEW snap \in Snapshot, NEW unsaved \in BOOLEAN, ApplySnapshot(snap, unsaved)
  PROVE  /\ shown' \in Snapshot /\ detail' \in shown'.conns \cup {NoConn} /\ page' \in Page
         /\ synced' \in BOOLEAN /\ unsent' \in BOOLEAN
         /\ shown'.settings = IF unsaved \/ editing THEN shown.settings ELSE snap.settings
<1> DEFINE kept == [snap EXCEPT !.settings = shown.settings]
<1>1. shown \in Snapshot /\ shown.settings \in Settings
  BY SnapshotFields DEF TypeOK
<1>2. kept \in Snapshot /\ kept.settings = shown.settings /\ kept.conns = snap.conns
  <2>1. kept \in Snapshot
    BY <1>1, SnapshotUpdates
  <2> QED
    BY <2>1 DEF Snapshot
<1>3. shown' = IF unsaved \/ editing THEN kept ELSE snap
  BY DEF ApplySnapshot
<1> HIDE DEF kept
<1>4. /\ shown' \in Snapshot /\ shown'.conns = snap.conns
      /\ shown'.settings = IF unsaved \/ editing THEN shown.settings ELSE snap.settings
  BY <1>2, <1>3
<1>5. detail' \in snap.conns \cup {NoConn} /\ page' \in Page
  <2>1. CASE detail # NoConn /\ detail \notin snap.conns
    BY <2>1 DEF ApplySnapshot, Page
  <2>2. CASE ~(detail # NoConn /\ detail \notin snap.conns)
    BY <2>2 DEF ApplySnapshot, TypeOK
  <2> QED
    BY <2>1, <2>2
<1>6. synced' \in BOOLEAN /\ unsent' \in BOOLEAN
  <2>1. synced' = (synced \/ ~(unsaved \/ editing))
    BY DEF ApplySnapshot
  <2>2. unsent' = (unsent /\ (unsaved \/ editing))
    BY SMTT(60) DEF ApplySnapshot
  <2> QED
    BY <2>1, <2>2, Zenon
<1> QED
  BY <1>4, <1>5, <1>6

(* The request of a key that sends one.                                      *)
LEMMA KeyRequests ==
  ASSUME TypeOK
  PROVE  /\ \A c \in Component :
              LET r == [NoRequest EXCEPT !.kind = IF shown.running[c] THEN "stop" ELSE "start",
                                         !.on = {c}]
              IN  r \in Request /\ r.kind = IF shown.running[c] THEN "stop" ELSE "start"
         /\ \A files \in SUBSET Path :
              LET r == [NoRequest EXCEPT !.kind = "files", !.files = files]
              IN  r \in Request /\ r.kind = "files" /\ r.files = files
         /\ LET r == [NoRequest EXCEPT !.kind = "settings", !.settings = shown.settings]
            IN  r \in Request /\ r.kind = "settings" /\ r.settings = shown.settings
<1>1. NoRequest \in Request /\ shown.settings \in Settings
  BY ZeroTypes, SnapshotFields DEF TypeOK
<1>2. ASSUME NEW c \in Component
      PROVE  LET r == [NoRequest EXCEPT !.kind = IF shown.running[c] THEN "stop" ELSE "start",
                                        !.on = {c}]
             IN  r \in Request /\ r.kind = IF shown.running[c] THEN "stop" ELSE "start"
  <2> DEFINE kind == IF shown.running[c] THEN "stop" ELSE "start"
  <2>1. kind \in Kind /\ {c} \in SUBSET Component
    BY DEF Kind
  <2> HIDE DEF kind
  <2>2. LET r == [NoRequest EXCEPT !.kind = kind, !.on = {c}]
        IN  r \in Request /\ r.kind = kind
    BY <1>1, <2>1 DEF Request
  <2> QED
    BY <2>2 DEF kind
<1>3. ASSUME NEW files \in SUBSET Path
      PROVE  LET r == [NoRequest EXCEPT !.kind = "files", !.files = files]
             IN  r \in Request /\ r.kind = "files" /\ r.files = files
  BY <1>1 DEF Request, Kind
<1>4. LET r == [NoRequest EXCEPT !.kind = "settings", !.settings = shown.settings]
      IN  r \in Request /\ r.kind = "settings" /\ r.settings = shown.settings
  BY <1>1 DEF Request, Kind
<1> QED
  BY <1>2, <1>3, <1>4

(* Booleans of the history.                                                  *)
LEMMA EditedTypes ==
  ASSUME Edited
  PROVE  dirty' \in BOOLEAN /\ unsent' \in BOOLEAN /\ crossed' \in BOOLEAN /\ blind' \in BOOLEAN
<1>1. dirty' = TRUE /\ unsent' = TRUE /\ crossed' = FALSE /\ blind' = (blind \/ ~synced)
  BY DEF Edited
<1> QED
  BY <1>1

LEMMA TypesKeptByKeys ==
  ASSUME TypeInv, Key
  PROVE  TypeInv'
<1> USE DEF viewVars, editHistory, fileHistory
<1>1. TypeOK /\ SlotsFit
  BY DEF TypeInv, TypeOK, SlotsFit
<1>2. MaxKeys \in Nat /\ failures \in Nat
  BY <1>1, TuiAssumption DEF TypeOK
<1>3. shown \in Snapshot /\ shown.settings \in Settings /\ shown.settings.enabled \in Flags
  BY <1>1, SnapshotFields DEF TypeOK
<1>4. SlotsFit' /\ TypeOK' => TypeInv'
  BY DEF TypeInv, SlotsFit
<1>5. CASE Navigate
  <2>1. SlotsFit'
    BY <1>5, <1>1, SlotsKept DEF Navigate
  <2>2. page' \in Page
    BY <1>5 DEF Navigate, Page
  <2>3. TypeOK'
    BY <1>5, <1>1, <2>2 DEF Navigate, TypeOK
  <2> QED
    BY <2>1, <2>3, <1>4
<1>6. CASE OpenDetails
  <2>1. SlotsFit'
    BY <1>6, <1>1, SlotsKept DEF OpenDetails
  <2>2. page' \in Page /\ detail' \in shown'.conns \cup {NoConn}
    BY <1>6 DEF OpenDetails, Page
  <2>3. TypeOK'
    BY <1>6, <1>1, <2>2 DEF OpenDetails, TypeOK
  <2> QED
    BY <2>1, <2>3, <1>4
<1>7. CASE BeginEdit
  <2>1. SlotsFit'
    BY <1>7, <1>1, SlotsKept DEF BeginEdit
  <2>2. keys' \in 0 .. MaxKeys
    BY <1>7, <1>1, <1>2 DEF BeginEdit, Press, TypeOK
  <2>3. TypeOK'
    BY <1>7, <1>1, <2>2 DEF BeginEdit, TypeOK
  <2> QED
    BY <2>1, <2>3, <1>4
<1>8. CASE CancelEdit
  <2>1. SlotsFit'
    BY <1>8, <1>1, SlotsKept DEF CancelEdit
  <2>2. TypeOK'
    BY <1>8, <1>1 DEF CancelEdit, TypeOK
  <2> QED
    BY <2>1, <2>2, <1>4
<1>9. CASE CommitEdit
  <2>1. SlotsFit'
    BY <1>9, <1>1, SlotsKept DEF CommitEdit
  <2>2. keys + 1 \in Text
    BY <1>1, <1>2 DEF TypeOK, Text
  <2>3. shown' = [shown EXCEPT !.settings.text = keys + 1]
    BY <1>9 DEF CommitEdit
  <2>4. shown' \in Snapshot /\ shown'.conns = shown.conns
    <3>1. shown' \in Snapshot
      BY <2>2, <2>3, <1>3, SnapshotUpdates
    <3> QED
      BY <2>3, <3>1, <1>3 DEF Snapshot
  <2>5. dirty' \in BOOLEAN /\ unsent' \in BOOLEAN /\ crossed' \in BOOLEAN /\ blind' \in BOOLEAN
    BY <1>9, EditedTypes DEF CommitEdit
  <2>6. TypeOK'
    BY <1>9, <1>1, <2>4, <2>5 DEF CommitEdit, TypeOK
  <2> QED
    BY <2>1, <2>6, <1>4
<1>10. CASE Write
  <2>1. SlotsFit'
    BY <1>10, <1>1, <1>2, KeyRequests, SlotSent DEF Write
  <2>2. keys' \in 0 .. MaxKeys
    BY <1>10, <1>1, <1>2 DEF Write, Press, TypeOK
  <2>3. unsent' = FALSE /\ blind' = (blind \/ ~synced)
    BY <1>10 DEF Write
  <2>4. unsent' \in BOOLEAN /\ blind' \in BOOLEAN
    BY <2>3
  <2>5. req' \in [Slot -> Request]
    BY <2>1 DEF SlotsFit
  <2>6. TypeOK'
    BY <1>10, <1>1, <2>2, <2>4, <2>5 DEF Write, TypeOK
  <2> QED
    BY <2>1, <2>6, <1>4
<1>11. ASSUME NEW c \in Component, ToggleComponent(c)
       PROVE  TypeInv'
  <2> DEFINE r == [NoRequest EXCEPT !.kind = IF shown.running[c] THEN "stop" ELSE "start",
                                    !.on = {c}]
  <2>1. r \in Request /\ r.kind = IF shown.running[c] THEN "stop" ELSE "start"
    BY <1>1, KeyRequests
  <2>2. Send(r) /\ (shown.running[c] \/ RoomToFail) /\ failures' = failures
    BY <1>11 DEF ToggleComponent
  <2> HIDE DEF r
  <2>3. r.kind # "none" /\ (r.kind \in {"start", "settings"} => RoomToFail)
    BY <2>1, <2>2
  <2>4. SlotsFit'
    BY <1>1, <1>2, <2>1, <2>2, <2>3, SlotSent
  <2>5. keys' \in 0 .. MaxKeys
    BY <1>11, <1>1, <1>2 DEF ToggleComponent, Press, TypeOK
  <2>6. req' \in [Slot -> Request]
    BY <2>4 DEF SlotsFit
  <2>7. TypeOK'
    BY <1>11, <1>1, <2>5, <2>6 DEF ToggleComponent, TypeOK
  <2> QED
    BY <2>4, <2>7, <1>4
<1>12. ASSUME NEW c \in Component, ToggleSetting(c)
       PROVE  TypeInv'
  <2>1. SlotsFit'
    BY <1>12, <1>1, SlotsKept DEF ToggleSetting
  <2>2. keys' \in 0 .. MaxKeys
    BY <1>12, <1>1, <1>2 DEF ToggleSetting, Press, TypeOK
  <2> DEFINE flags == [shown.settings.enabled EXCEPT ![c] = ~@]
  <2>3. flags \in Flags
    BY <1>3 DEF Flags
  <2>4. shown' = [shown EXCEPT !.settings.enabled = flags]
    BY <1>12 DEF ToggleSetting
  <2> HIDE DEF flags
  <2>5. shown' \in Snapshot /\ shown'.conns = shown.conns
    <3>1. shown' \in Snapshot
      BY <2>3, <2>4, <1>3, SnapshotUpdates
    <3> QED
      BY <2>4, <3>1, <1>3 DEF Snapshot
  <2>6. dirty' \in BOOLEAN /\ unsent' \in BOOLEAN /\ crossed' \in BOOLEAN /\ blind' \in BOOLEAN
    BY <1>12, EditedTypes DEF ToggleSetting
  <2>7. TypeOK'
    BY <1>12, <1>1, <2>2, <2>5, <2>6 DEF ToggleSetting, TypeOK
  <2> QED
    BY <2>1, <2>7, <1>4
<1>13. ASSUME NEW files \in SUBSET Path, NEW now \in SUBSET Path,
              Press, SendFiles(files), wanted' = now
       PROVE  TypeInv'
  <2> DEFINE r == [NoRequest EXCEPT !.kind = "files", !.files = files]
  <2>1. r \in Request /\ r.kind = "files"
    BY <1>1, KeyRequests
  <2>2. Send(r) /\ failures' = failures /\ shown' = [shown EXCEPT !.files = files]
    BY <1>13 DEF SendFiles
  <2> HIDE DEF r
  <2>3. SlotsFit'
    BY <1>1, <1>2, <2>1, <2>2, SlotSent
  <2>4. keys' \in 0 .. MaxKeys
    BY <1>13, <1>1, <1>2 DEF Press, TypeOK
  <2>5. req' \in [Slot -> Request]
    BY <2>3 DEF SlotsFit
  <2>6. shown' \in Snapshot /\ shown'.conns = shown.conns
    <3>1. shown' \in Snapshot
      BY <2>2, <1>3, SnapshotUpdates
    <3> QED
      BY <2>2, <3>1, <1>3 DEF Snapshot
  <2>7. raced' \in BOOLEAN
    <3>1. raced' = (raced \/ shown.files # wanted \/ UnhandledFiles # {})
      BY <1>13 DEF SendFiles
    <3> QED
      BY <3>1
  <2>8. TypeOK'
    BY <1>13, <1>1, <2>4, <2>5, <2>6, <2>7 DEF SendFiles, TypeOK
  <2> QED
    BY <2>3, <2>8, <1>4
<1>14. wanted \in SUBSET Path /\ shown.files \in SUBSET Path
  BY <1>1, SnapshotFields DEF TypeOK
<1>15. ASSUME NEW p \in Path, PickFile(p)
       PROVE  TypeInv'
  BY <1>13, <1>14, <1>15 DEF PickFile
<1>16. ASSUME NEW p \in Path, RemoveFile(p)
       PROVE  TypeInv'
  BY <1>13, <1>14, <1>16 DEF RemoveFile
<1> QED
  BY <1>5, <1>6, <1>7, <1>8, <1>9, <1>10, <1>11, <1>12, <1>15, <1>16 DEF Key

LEMMA TypesKeptByRequests ==
  ASSUME TypeInv, NEW s \in Slot, RequestStep(s) \/ GiveUp(s)
  PROVE  TypeInv'
<1> USE DEF viewVars, editHistory, fileHistory
<1>1. TypeOK /\ SlotsFit /\ RequestsFit
  BY DEF TypeInv, TypeOK, SlotsFit
<1>2. /\ failures \in Nat /\ MaxFailures \in Nat /\ daemon \in Snapshot
      /\ req[s] \in Request /\ req[s].snap \in Snapshot
  BY <1>1, TuiAssumption DEF TypeOK, Request
<1>3. SlotsFit' /\ TypeOK' => TypeInv'
  BY DEF TypeInv, SlotsFit
<1>4. /\ req[s].api # "none" => req[s].kind # "none"
      /\ req[s].msg = "snapshot" => req[s].api = "none"
      /\ req[s].api \in {"none", "received", "done"}
      /\ req[s].msg \in {"none", "wait", "snapshot", "error"}
  BY <1>1, <1>2 DEF RequestsFit, Request
<1>5. CASE Handle(s)
  <2>1. req[s].api = "received" /\ req[s].kind # "none" /\ req[s].msg # "snapshot"
    BY <1>5, <1>4 DEF Handle
  <2>2. PICK o \in Outcomes(req[s], daemon) :
          /\ daemon' = o[1]
          /\ \/ o[2]  /\ Settle(s, [req[s] EXCEPT !.api = "done"])
             \/ ~o[2] /\ Settle(s, [req[s] EXCEPT !.api = "none",
                                                  !.msg = IF @ = "wait" THEN "error" ELSE @])
    BY <1>5 DEF Handle
  <2>3. o[1] \in Snapshot /\ (~o[2] => req[s].kind \in {"start", "settings"})
    BY <2>1, <1>2, OutcomeFields
  <2>4. failures' = failures
    BY <1>5 DEF Handle
  <2>5. SlotsFit'
    <3>1. CASE Settle(s, [req[s] EXCEPT !.api = "done"])
      <4> DEFINE r == [req[s] EXCEPT !.api = "done"]
      <4>1. r \in Request /\ r.kind = req[s].kind /\ r.api = "done" /\ r.msg = req[s].msg
        BY <1>2, RequestUpdates
      <4> HIDE DEF r
      <4>2. PICK q \in Request : /\ req' = [req EXCEPT ![s] = q]
                                 /\ q.api = r.api /\ q.msg = r.msg
                                 /\ q = r \/ q = NoRequest
        BY <3>1, <4>1, SettleShape DEF r
      <4>3. q = r
        BY <4>1, <4>2, ZeroTypes
      <4>4. Exposed(q) => Exposed(req[s])
        BY <4>1, <4>3 DEF Exposed
      <4> QED
        BY <4>1, <4>2, <4>3, <4>4, <2>1, <2>4, <1>1, <1>2, SlotChanged
    <3>2. CASE /\ ~o[2]
               /\ Settle(s, [req[s] EXCEPT !.api = "none",
                                           !.msg = IF @ = "wait" THEN "error" ELSE @])
      <4> DEFINE msg == IF req[s].msg = "wait" THEN "error" ELSE req[s].msg
                 r == [req[s] EXCEPT !.api = "none", !.msg = msg]
      <4>1. msg \in {"none", "wait", "snapshot", "error"}
        BY <1>4
      <4>2. r \in Request /\ r.kind = req[s].kind /\ r.api = "none" /\ r.msg = msg
        BY <1>2, <4>1 DEF Request
      <4>3. Settle(s, r)
        BY <3>2
      <4> HIDE DEF r
      <4>4. PICK q \in Request : /\ req' = [req EXCEPT ![s] = q]
                                 /\ q.api = r.api /\ q.msg = r.msg
                                 /\ q = r \/ q = NoRequest
        BY <4>2, <4>3, SettleShape
      <4>5. Exposed(q) => Exposed(req[s])
        BY <4>2, <4>4, <3>2, <2>1, <2>3 DEF Exposed
      <4> QED
        BY <4>2, <4>4, <4>5, <2>1, <2>4, <1>1, <1>2, SlotChanged
    <3> QED
      BY <2>2, <3>1, <3>2
  <2>6. req' \in [Slot -> Request] /\ daemon' \in Snapshot
    BY <2>2, <2>3, <2>5 DEF SlotsFit
  <2>7. TypeOK'
    BY <1>5, <1>1, <2>6 DEF Handle, TypeOK
  <2> QED
    BY <2>5, <2>7, <1>3
<1>6. CASE TakeSnapshot(s)
  <2> DEFINE r == IF req[s].msg = "wait"
                  THEN [req[s] EXCEPT !.api = "none", !.msg = "snapshot", !.snap = daemon]
                  ELSE [req[s] EXCEPT !.api = "none"]
  <2>1. Settle(s, r) /\ failures' = failures
    BY <1>6 DEF TakeSnapshot
  <2>2. /\ r \in Request /\ r.kind = req[s].kind /\ r.api = "none"
        /\ r.msg = IF req[s].msg = "wait" THEN "snapshot" ELSE req[s].msg
    BY <1>2 DEF Request
  <2> HIDE DEF r
  <2>3. PICK q \in Request : /\ req' = [req EXCEPT ![s] = q]
                             /\ q.api = r.api /\ q.msg = r.msg
                             /\ q = r \/ q = NoRequest
    BY <2>1, <2>2, SettleShape
  <2>4. Exposed(q) => Exposed(req[s])
    BY <2>2, <2>3 DEF Exposed
  <2>5. SlotsFit'
    BY <2>1, <2>2, <2>3, <2>4, <1>1, <1>2, SlotChanged
  <2>6. req' \in [Slot -> Request]
    BY <2>5 DEF SlotsFit
  <2>7. TypeOK'
    BY <1>6, <1>1, <2>6 DEF TakeSnapshot, TypeOK
  <2> QED
    BY <2>5, <2>7, <1>3
<1>7. CASE ActionAnswer(s)
  <2>1. /\ req' = [req EXCEPT ![s] = NoRequest] /\ failures' = failures
    BY <1>7 DEF ActionAnswer
  <2>2. ~Exposed(NoRequest)
    BY ZeroTypes DEF Exposed
  <2>3. SlotsFit'
    BY <2>1, <2>2, <1>1, <1>2, ZeroTypes, SlotChanged
  <2>4. req' \in [Slot -> Request]
    BY <2>3 DEF SlotsFit
  <2>5. dirty' \in BOOLEAN /\ crossed' \in BOOLEAN
    <3>1. /\ dirty' = (dirty /\ req[s].kind # "settings")
          /\ crossed' = (crossed \/ (req[s].kind = "settings" /\ unsent))
      BY <1>7 DEF ActionAnswer
    <3> QED
      BY <3>1
  <2>6. PICK unsaved \in BOOLEAN : ApplySnapshot(req[s].snap, unsaved)
    <3>1. (dirty /\ req[s].kind # "settings") \in BOOLEAN
      OBVIOUS
    <3>2. ApplySnapshot(req[s].snap, dirty /\ req[s].kind # "settings")
      BY <1>7 DEF ActionAnswer
    <3> QED
      BY <3>1, <3>2, Zenon
  <2>7. /\ shown' \in Snapshot /\ detail' \in shown'.conns \cup {NoConn} /\ page' \in Page
        /\ synced' \in BOOLEAN /\ unsent' \in BOOLEAN
    BY <2>6, <1>1, <1>2, AppliedTypes
  <2>8. TypeOK'
    BY <1>7, <1>1, <2>4, <2>5, <2>7 DEF ActionAnswer, TypeOK
  <2> QED
    BY <2>3, <2>8, <1>3
<1>8. CASE ActionError(s)
  <2> DEFINE r == [req[s] EXCEPT !.msg = "none"]
  <2>1. req[s].msg = "error" /\ Settle(s, r) /\ failures' = failures + 1
    BY <1>8 DEF ActionError
  <2>2. r \in Request /\ r.kind = req[s].kind /\ r.api = req[s].api /\ r.msg = "none"
    BY <1>2, RequestUpdates
  <2> HIDE DEF r
  <2>3. PICK q \in Request : /\ req' = [req EXCEPT ![s] = q]
                             /\ q.api = r.api /\ q.msg = r.msg
                             /\ q = r \/ q = NoRequest
    BY <2>1, <2>2, SettleShape
  <2>4. Exposed(req[s]) /\ ~Exposed(q)
    BY <2>1, <2>2, <2>3 DEF Exposed
  <2>5. q.api # "none" => q.kind # "none"
    BY <2>2, <2>3, <1>4, ZeroTypes
  <2>6. SlotsFit'
    BY <2>1, <2>2, <2>3, <2>4, <2>5, <1>1, <1>2, SlotChanged
  <2>7. failures' \in 0 .. MaxFailures
    <3>1. Cardinality({t \in Slot : Exposed(req'[t])}) \in Nat
      BY TuiAssumption, FS_Subset, FS_CardinalityType
    <3>2. failures' + Cardinality({t \in Slot : Exposed(req'[t])}) <= MaxFailures
      BY <2>6 DEF SlotsFit, RoomLeft
    <3> QED
      BY <3>1, <3>2, <2>1, <1>2
  <2>8. poll' \in [Chain -> Poll]
    <3>1. poll \in [Chain -> Poll]
      BY <1>1 DEF TypeOK
    <3>2. poll' = [poll EXCEPT ![failures + 2].at = "wait"]
      BY <1>8 DEF ActionError
    <3> QED
      BY <3>1, <3>2 DEF Poll
  <2>9. req' \in [Slot -> Request]
    BY <2>6 DEF SlotsFit
  <2>10. TypeOK'
    BY <1>8, <1>1, <2>7, <2>8, <2>9 DEF ActionError, TypeOK
  <2> QED
    BY <2>6, <2>10, <1>3
<1>9. CASE GiveUp(s)
  <2>1. /\ req[s].msg = "wait" /\ failures' = failures
        /\ req[s].kind \in {"start", "settings"} \/ RoomToFail
    BY <1>9 DEF GiveUp
  <2>2. Exposed(req[s]) \/ RoomToFail
    BY <2>1 DEF Exposed
  <2>3. \E api \in {req[s].api, "none"} :
          req' = [req EXCEPT ![s] = [req[s] EXCEPT !.api = api, !.msg = "error"]]
    <3>1. CASE req' = [req EXCEPT ![s].msg = "error"]
      <4>1. [req[s] EXCEPT !.api = req[s].api, !.msg = "error"] = [req[s] EXCEPT !.msg = "error"]
        BY <1>2 DEF Request
      <4> QED
        BY <3>1, <4>1
    <3>2. CASE req' = [req EXCEPT ![s].msg = "error", ![s].api = "none"]
      <4>1. [req[s] EXCEPT !.api = "none", !.msg = "error"]
              = [[req[s] EXCEPT !.msg = "error"] EXCEPT !.api = "none"]
        BY <1>2 DEF Request
      <4>2. req' = [req EXCEPT ![s] = [[req[s] EXCEPT !.msg = "error"] EXCEPT !.api = "none"]]
        BY <3>2, <1>1 DEF SlotsFit
      <4> QED
        BY <4>1, <4>2
    <3> QED
      BY <3>1, <3>2, <1>9 DEF GiveUp
  <2>4. PICK api \in {req[s].api, "none"} :
          req' = [req EXCEPT ![s] = [req[s] EXCEPT !.api = api, !.msg = "error"]]
    BY <2>3
  <2> DEFINE q == [req[s] EXCEPT !.api = api, !.msg = "error"]
  <2>5. q \in Request /\ q.kind = req[s].kind /\ q.api = api /\ q.msg = "error"
    BY <1>2, <1>4 DEF Request
  <2>6. req' = [req EXCEPT ![s] = q]
    BY <2>4
  <2> HIDE DEF q
  <2>7. q.api # "none" => q.kind # "none"
    BY <2>5, <1>4
  <2>8. SlotsFit'
    BY <2>1, <2>2, <2>5, <2>6, <2>7, <1>1, <1>2, SlotChanged
  <2>9. raced' \in BOOLEAN
    <3>1. raced' = raced \/ raced' = (raced \/ req[s].kind = "files")
      BY <1>9 DEF GiveUp
    <3> QED
      BY <3>1, <1>1 DEF TypeOK
  <2>10. req' \in [Slot -> Request]
    BY <2>8 DEF SlotsFit
  <2>11. TypeOK'
    BY <1>9, <1>1, <2>9, <2>10 DEF GiveUp, TypeOK
  <2> QED
    BY <2>8, <2>11, <1>3
<1> QED
  BY <1>5, <1>6, <1>7, <1>8, <1>9 DEF RequestStep

LEMMA TypesKeptByPolls ==
  ASSUME TypeInv, NEW n \in Chain, PollStep(n) \/ StateFails(n)
  PROVE  TypeInv'
<1> USE DEF viewVars, editHistory, fileHistory
<1>1. TypeOK /\ SlotsFit
  BY DEF TypeInv, TypeOK, SlotsFit
<1>2. /\ daemon \in Snapshot /\ poll \in [Chain -> Poll] /\ poll[n].snap \in Snapshot
      /\ events \in Nat /\ MaxEvents \in Nat
  BY <1>1, TuiAssumption DEF TypeOK, Poll
<1>3. SlotsFit' /\ TypeOK' => TypeInv'
  BY DEF TypeInv, SlotsFit
<1>4. SlotsFit'
  <2>1. req' = req /\ failures' = failures
    BY DEF PollStep, StateServed, StateAnswer, StateError, StateFails
  <2> QED
    BY <2>1, <1>1, SlotsKept
<1>5. CASE StateServed(n)
  <2>1. poll' \in [Chain -> Poll]
    <3>1. [at |-> "snapshot", snap |-> daemon] \in Poll
      BY <1>2 DEF Poll
    <3> QED
      BY <3>1, <1>5, <1>2 DEF StateServed
  <2>2. TypeOK'
    BY <1>5, <1>1, <2>1 DEF StateServed, TypeOK
  <2> QED
    BY <2>2, <1>3, <1>4
<1>6. CASE StateAnswer(n)
  <2>1. poll' \in [Chain -> Poll]
    <3>1. [NoPoll EXCEPT !.at = "wait"] \in Poll
      BY ZeroTypes DEF Poll
    <3> QED
      BY <3>1, <1>6, <1>2 DEF StateAnswer
  <2>2. ApplySnapshot(poll[n].snap, dirty) /\ dirty \in BOOLEAN
    BY <1>6, <1>1 DEF StateAnswer, TypeOK
  <2>3. /\ shown' \in Snapshot /\ detail' \in shown'.conns \cup {NoConn} /\ page' \in Page
        /\ synced' \in BOOLEAN /\ unsent' \in BOOLEAN
    BY <2>2, <1>1, <1>2, AppliedTypes
  <2>4. TypeOK'
    BY <1>6, <1>1, <2>1, <2>3 DEF StateAnswer, TypeOK
  <2> QED
    BY <2>4, <1>3, <1>4
<1>7. CASE StateError(n)
  <2>1. poll' \in [Chain -> Poll]
    BY <1>7, <1>2 DEF StateError, Poll
  <2>2. TypeOK'
    BY <1>7, <1>1, <2>1 DEF StateError, TypeOK
  <2> QED
    BY <2>2, <1>3, <1>4
<1>8. CASE StateFails(n)
  <2>1. poll' \in [Chain -> Poll]
    BY <1>8, <1>2 DEF StateFails, Poll
  <2>2. events' \in 0 .. MaxEvents
    BY <1>8, <1>2 DEF StateFails
  <2>3. TypeOK'
    BY <1>8, <1>1, <2>1, <2>2 DEF StateFails, TypeOK
  <2> QED
    BY <2>3, <1>3, <1>4
<1> QED
  BY <1>5, <1>6, <1>7, <1>8 DEF PollStep

(* What the daemon does by itself touches neither files nor settings.        *)
LEMMA EventShape ==
  ASSUME TypeOK, DaemonEvent
  PROVE  /\ daemon' \in Snapshot
         /\ daemon'.files = daemon.files /\ daemon'.settings = daemon.settings
<1>1. daemon \in Snapshot /\ daemon.conns \in SUBSET Conn /\ daemon.running \in Flags
  BY SnapshotFields DEF TypeOK
<1>2. ASSUME NEW k \in Conn, daemon' = [daemon EXCEPT !.conns = @ \cup {k}]
      PROVE  /\ daemon' \in Snapshot
             /\ daemon'.files = daemon.files /\ daemon'.settings = daemon.settings
  <2>1. daemon' = [daemon EXCEPT !.conns = daemon.conns \cup {k}]
    BY <1>2
  <2>2. daemon' \in Snapshot
    BY <2>1, <1>1, SnapshotUpdates
  <2> QED
    BY <2>1, <2>2, <1>1 DEF Snapshot
<1>3. ASSUME NEW c \in Component, daemon' = [daemon EXCEPT !.running[c] = FALSE]
      PROVE  /\ daemon' \in Snapshot
             /\ daemon'.files = daemon.files /\ daemon'.settings = daemon.settings
  <2>1. [daemon.running EXCEPT ![c] = FALSE] \in Flags
    BY <1>1 DEF Flags
  <2>2. daemon' = [daemon EXCEPT !.running = [daemon.running EXCEPT ![c] = FALSE]]
    BY <1>3
  <2>3. daemon' \in Snapshot
    BY <2>1, <2>2, <1>1, SnapshotUpdates
  <2> QED
    BY <2>2, <2>3, <1>1 DEF Snapshot
<1> QED
  BY <1>2, <1>3 DEF DaemonEvent

LEMMA TypesKept ==
  ASSUME TypeInv, [Next]_vars
  PROVE  TypeInv'
<1> USE DEF viewVars, editHistory, fileHistory
<1>1. TypeOK /\ SlotsFit
  BY DEF TypeInv, TypeOK, SlotsFit
<1>2. SlotsFit' /\ TypeOK' => TypeInv'
  BY DEF TypeInv, SlotsFit
<1>3. CASE DaemonEvent
  <2>1. SlotsFit'
    BY <1>3, <1>1, SlotsKept DEF DaemonEvent
  <2>2. daemon' \in Snapshot
    BY <1>3, <1>1, EventShape
  <2>3. events' \in 0 .. MaxEvents
    BY <1>3, <1>1, TuiAssumption DEF DaemonEvent, TypeOK
  <2>4. TypeOK'
    BY <1>3, <1>1, <2>2, <2>3 DEF DaemonEvent, TypeOK
  <2> QED
    BY <2>1, <2>4, <1>2
<1>4. CASE UNCHANGED vars
  <2>1. SlotsFit'
    BY <1>4, <1>1, SlotsKept DEF vars
  <2>2. TypeOK'
    BY <1>4, <1>1 DEF vars, TypeOK
  <2> QED
    BY <2>1, <2>2, <1>2
<1> QED
  BY <1>3, <1>4, TypesKeptByKeys, TypesKeptByRequests, TypesKeptByPolls DEF Next

THEOREM TuiInvariant == Spec => []TypeInv
<1>1. Init => TypeInv
  BY TypesBegin
<1>2. TypeInv /\ [Next]_vars => TypeInv'
  BY TypesKept
<1> QED
  BY <1>1, <1>2, PTL DEF Spec

(* Every variable has its type: no more requests fail than the bound has     *)
(* room for, and the connection in detail is always one of those shown, so   *)
(* that the page of its details has something to show (main.go:381, 453).    *)
THEOREM TuiTypeCorrect == Spec => []TypeOK
<1>1. TypeInv => TypeOK
  BY DEF TypeInv
<1> QED
  BY <1>1, TuiInvariant, PTL

-----------------------------------------------------------------------------
(* Chains of polls.                                                          *)

LEMMA ChainsKept ==
  ASSUME TypeInv, TypeInv', ChainsRun, [Next]_vars
  PROVE  ChainsRun'
<1>1. /\ poll \in [Chain -> Poll] /\ failures \in Nat /\ failures' \in 0 .. MaxFailures
      /\ MaxFailures \in Nat
  BY TuiAssumption DEF TypeInv, TypeOK
<1>2. CASE \E s \in Slot : ActionError(s)
  <2>1. failures' = failures + 1 /\ poll' = [poll EXCEPT ![failures + 2].at = "wait"]
    BY <1>2 DEF ActionError
  <2>2. failures + 2 \in Chain
    BY <2>1, <1>1 DEF Chain
  <2>3. \A n \in Chain : poll'[n].at = IF n = failures + 2 THEN "wait" ELSE poll[n].at
    BY <2>1, <1>1 DEF Poll
  <2>4. ASSUME NEW n \in Chain
        PROVE  poll'[n].at # "none" <=> n <= failures' + 1
    <3>1. n \in Nat
      BY <1>1 DEF Chain
    <3>2. poll[n].at # "none" <=> n <= failures + 1
      BY DEF ChainsRun
    <3> QED
      BY <3>1, <3>2, <2>1, <2>3, <1>1
  <2> QED
    BY <2>4 DEF ChainsRun
<1>3. ASSUME NEW n \in Chain, PollStep(n) \/ StateFails(n)
      PROVE  ChainsRun'
  <2>1. failures' = failures
    BY <1>3 DEF PollStep, StateServed, StateAnswer, StateError, StateFails
  <2>2. poll[n].at # "none"
    BY <1>3 DEF PollStep, StateServed, StateAnswer, StateError, StateFails
  <2>3. /\ poll'[n].at # "none"
        /\ \A k \in Chain \ {n} : poll'[k] = poll[k]
    BY <1>3, <1>1 DEF PollStep, StateServed, StateAnswer, StateError, StateFails, NoPoll, Poll
  <2> QED
    BY <2>1, <2>2, <2>3 DEF ChainsRun
<1>4. CASE poll' = poll /\ failures' = failures
  BY <1>4 DEF ChainsRun
<1>5. ASSUME NEW s \in Slot, RequestStep(s) \/ GiveUp(s), ~ActionError(s)
      PROVE  poll' = poll /\ failures' = failures
  BY <1>5, ZenonT(60) DEF RequestStep, Handle, TakeSnapshot, ActionAnswer, GiveUp
<1>6. ASSUME Key \/ DaemonEvent \/ UNCHANGED vars
      PROVE  poll' = poll /\ failures' = failures
  BY <1>6, ZenonT(60) DEF Key, Navigate, OpenDetails, BeginEdit, CancelEdit, CommitEdit, Write,
              ToggleComponent, ToggleSetting, PickFile, RemoveFile, SendFiles, DaemonEvent, vars
<1> QED
  BY <1>2, <1>3, <1>4, <1>5, <1>6 DEF Next, RequestStep

THEOREM ChainsInvariant == Spec => []ChainsRun
<1>1. Init => ChainsRun
  BY TuiAssumption DEF Init, ChainsRun, NoPoll, Chain
<1>2. TypeInv /\ TypeInv' /\ ChainsRun /\ [Next]_vars => ChainsRun'
  BY ChainsKept
<1> QED
  BY <1>1, <1>2, TuiInvariant, PTL DEF Spec

(* The terminal polls in one chain more than actions that have failed, and   *)
(* none of the chains ever ends (main.go:231, 243).                          *)
THEOREM TuiPollChains == Spec => []PollChains
<1>1. TypeInv /\ ChainsRun => PollChains
  <2> SUFFICES ASSUME TypeInv, ChainsRun
               PROVE  PollChains
    OBVIOUS
  <2>1. failures \in 0 .. MaxFailures /\ MaxFailures \in Nat
    BY TuiAssumption DEF TypeInv, TypeOK
  <2>2. {n \in Chain : poll[n].at # "none"} = 1 .. (failures + 1)
    BY <2>1 DEF ChainsRun, Chain
  <2>3. Cardinality(1 .. (failures + 1)) = failures + 1
    <3>1. 1 \in Int /\ failures + 1 \in Int /\ 1 <= failures + 1
      BY <2>1
    <3>2. Cardinality(1 .. (failures + 1)) = (failures + 1) - 1 + 1
      BY <3>1, FS_Interval
    <3> QED
      BY <3>2, <2>1
  <2>4. Cardinality({n \in Chain : poll[n].at # "none"}) = failures + 1
    BY <2>2, <2>3, Zenon
  <2>5. failures + 1 = 1 + failures
    BY <2>1
  <2> QED
    BY <2>4, <2>5, Zenon DEF PollChains
<1> QED
  BY <1>1, TuiInvariant, ChainsInvariant, PTL

-----------------------------------------------------------------------------
(* What a step does to one request and to the daemon.                        *)

LEMMA RequestShape ==
  ASSUME TypeInv, NEW s \in Slot, RequestStep(s) \/ GiveUp(s)
  PROVE  \E q \in Request :
           /\ req' = [req EXCEPT ![s] = q]
           /\ q.api = "received" =>
                /\ req[s].api = "received" /\ ~Handle(s)
                /\ q.kind = req[s].kind /\ q.files = req[s].files
                /\ q.settings = req[s].settings
           /\ q.msg = "snapshot" =>
                q.snap = daemon \/ (req[s].msg = "snapshot" /\ q.snap = req[s].snap)
           /\ q.api # "received" /\ req[s].api = "received" /\ req[s].kind = "files" =>
                Handle(s) \/ raced'
<1>1. /\ req \in [Slot -> Request] /\ req[s] \in Request /\ daemon \in Snapshot
      /\ req[s].msg = "snapshot" => req[s].api = "none"
  BY DEF TypeInv, TypeOK, RequestsFit
<1>2. req[s].msg \in {"none", "wait", "snapshot", "error"}
  BY <1>1 DEF Request
<1>3. CASE Handle(s)
  <2>1. PICK api \in {"done", "none"}, msg \in {"none", "wait", "snapshot", "error"} :
          /\ Settle(s, [req[s] EXCEPT !.api = api, !.msg = msg])
          /\ msg = "snapshot" => req[s].msg = "snapshot"
    <3>1. CASE Settle(s, [req[s] EXCEPT !.api = "done"])
      <4>1. [req[s] EXCEPT !.api = "done"] = [req[s] EXCEPT !.api = "done", !.msg = req[s].msg]
        BY <1>1 DEF Request
      <4>2. Settle(s, [req[s] EXCEPT !.api = "done", !.msg = req[s].msg])
        BY <3>1, <4>1, Zenon
      <4> QED
        BY <4>2, <1>2
    <3>2. CASE Settle(s, [req[s] EXCEPT !.api = "none",
                                        !.msg = IF @ = "wait" THEN "error" ELSE @])
      <4> DEFINE msg == IF req[s].msg = "wait" THEN "error" ELSE req[s].msg
      <4>1. Settle(s, [req[s] EXCEPT !.api = "none", !.msg = msg])
        BY <3>2
      <4>2. msg \in {"none", "wait", "snapshot", "error"}
            /\ (msg = "snapshot" => req[s].msg = "snapshot")
        BY <1>2
      <4> HIDE DEF msg
      <4> QED
        BY <4>1, <4>2
    <3> QED
      BY <3>1, <3>2, <1>3 DEF Handle
  <2> DEFINE r == [req[s] EXCEPT !.api = api, !.msg = msg]
  <2>2. r \in Request /\ r.api = api /\ r.msg = msg /\ r.snap = req[s].snap
    BY <1>1 DEF Request
  <2>3. Settle(s, r)
    BY <2>1
  <2> HIDE DEF r
  <2>4. PICK q \in Request : /\ req' = [req EXCEPT ![s] = q]
                             /\ q.api = r.api /\ q.msg = r.msg
                             /\ q = r \/ q = NoRequest
    BY <2>2, <2>3, SettleShape
  <2>5. q.api # "received" /\ (q.msg = "snapshot" => q = r /\ req[s].msg = "snapshot")
    BY <2>1, <2>2, <2>4, ZeroTypes
  <2> QED
    BY <2>2, <2>4, <2>5, <1>3
<1>4. CASE TakeSnapshot(s)
  <2> DEFINE r == IF req[s].msg = "wait"
                  THEN [req[s] EXCEPT !.api = "none", !.msg = "snapshot", !.snap = daemon]
                  ELSE [req[s] EXCEPT !.api = "none"]
  <2>1. Settle(s, r) /\ req[s].api = "done"
    BY <1>4 DEF TakeSnapshot
  <2>2. /\ r \in Request /\ r.api = "none"
        /\ r.msg = "snapshot" =>
             r.snap = daemon \/ (req[s].msg = "snapshot" /\ r.snap = req[s].snap)
    BY <1>1 DEF Request
  <2> HIDE DEF r
  <2>3. PICK q \in Request : /\ req' = [req EXCEPT ![s] = q]
                             /\ q.api = r.api /\ q.msg = r.msg
                             /\ q = r \/ q = NoRequest
    BY <2>1, <2>2, SettleShape
  <2>4. q.msg = "snapshot" => q = r
    BY <2>3, ZeroTypes
  <2> QED
    BY <2>1, <2>2, <2>3, <2>4
<1>5. CASE ActionAnswer(s)
  <2>1. req' = [req EXCEPT ![s] = NoRequest] /\ req[s].api # "received"
    BY <1>5, <1>1 DEF ActionAnswer
  <2> QED
    BY <2>1, ZeroTypes
<1>6. CASE ActionError(s)
  <2> DEFINE r == [req[s] EXCEPT !.msg = "none"]
  <2>1. Settle(s, r) /\ req[s].msg = "error"
    BY <1>6 DEF ActionError
  <2>2. /\ r \in Request /\ r.api = req[s].api /\ r.msg = "none"
        /\ r.kind = req[s].kind /\ r.files = req[s].files /\ r.settings = req[s].settings
    BY <1>1 DEF Request
  <2> HIDE DEF r
  <2>3. PICK q \in Request : /\ req' = [req EXCEPT ![s] = q]
                             /\ q.api = r.api /\ q.msg = r.msg
                             /\ q = r \/ q = NoRequest
    BY <2>1, <2>2, SettleShape
  <2>4. q.api = "received" => q = r
    BY <2>3, ZeroTypes
  <2>5. q.api = "received" => ~Handle(s)
    <3>1. ASSUME Handle(s) PROVE failures' = failures
      BY <3>1 DEF Handle
    <3>2. failures' = failures + 1 /\ failures \in 0 .. MaxFailures
      BY <1>6 DEF ActionError, TypeInv, TypeOK
    <3> QED
      BY <3>1, <3>2, TuiAssumption
  <2> QED
    BY <2>2, <2>3, <2>4, <2>5
<1>7. CASE GiveUp(s)
  <2>1. req[s].msg = "wait" /\ daemon' = daemon
    BY <1>7 DEF GiveUp
  <2>2. CASE req' = [req EXCEPT ![s].msg = "error"]
    <3> DEFINE q == [req[s] EXCEPT !.msg = "error"]
    <3>1. req' = [req EXCEPT ![s] = q]
      BY <2>2
    <3>2. /\ q \in Request /\ q.api = req[s].api /\ q.msg = "error"
          /\ q.kind = req[s].kind /\ q.files = req[s].files /\ q.settings = req[s].settings
      BY <1>1 DEF Request
    <3> HIDE DEF q
    <3>3. req'[s] = q
      BY <3>1, <1>1
    <3>4. ~Handle(s)
      <4>1. ASSUME Handle(s) PROVE FALSE
        <5>1. PICK r \in Request : Settle(s, r) /\ r.api # "received"
          <6>1. /\ [req[s] EXCEPT !.api = "done"] \in Request
                /\ [req[s] EXCEPT !.api = "done"].api = "done"
            BY <1>1 DEF Request
          <6>2. /\ [req[s] EXCEPT !.api = "none",
                                  !.msg = IF @ = "wait" THEN "error" ELSE @] \in Request
                /\ [req[s] EXCEPT !.api = "none",
                                  !.msg = IF @ = "wait" THEN "error" ELSE @].api = "none"
            BY <1>1 DEF Request
          <6> QED
            BY <4>1, <6>1, <6>2 DEF Handle
        <5>2. PICK t \in Request : req' = [req EXCEPT ![s] = t] /\ t.api = r.api
          BY <5>1, SettleShape
        <5>3. req'[s].api # "received" /\ req[s].api = "received"
          BY <5>1, <5>2, <1>1, <4>1 DEF Handle
        <5> QED
          BY <5>3, <3>2, <3>3
      <4> QED
        BY <4>1
    <3> QED
      BY <3>1, <3>2, <3>4
  <2>3. CASE /\ req[s].api = "received"
             /\ req' = [req EXCEPT ![s].msg = "error", ![s].api = "none"]
             /\ raced' = (raced \/ req[s].kind = "files")
    <3> DEFINE q == [[req[s] EXCEPT !.msg = "error"] EXCEPT !.api = "none"]
    <3>1. req' = [req EXCEPT ![s] = q]
      BY <2>3, <1>1
    <3>2. q \in Request /\ q.api = "none" /\ q.msg = "error"
      BY <1>1 DEF Request
    <3> HIDE DEF q
    <3>3. req[s].kind = "files" => raced'
      BY <2>3
    <3> QED
      BY <3>1, <3>2, <3>3
  <2> QED
    BY <2>2, <2>3, <1>7 DEF GiveUp
<1> QED
  BY <1>3, <1>4, <1>5, <1>6, <1>7 DEF RequestStep

LEMMA HandleEffect ==
  ASSUME TypeInv, NEW s \in Slot, Handle(s)
  PROVE  /\ req[s].api = "received"
         /\ daemon'.files = IF req[s].kind = "files" THEN req[s].files ELSE daemon.files
         /\ daemon'.settings.text = IF req[s].kind = "settings" THEN req[s].settings.text
                                                                ELSE daemon.settings.text
<1>1. req[s] \in Request /\ daemon \in Snapshot /\ (req[s].api # "none" => req[s].kind # "none")
  BY DEF TypeInv, TypeOK, RequestsFit
<1>2. req[s].api = "received"
  BY DEF Handle
<1>3. PICK o \in Outcomes(req[s], daemon) : daemon' = o[1]
  BY DEF Handle
<1> QED
  BY <1>1, <1>2, <1>3, OutcomeFields

-----------------------------------------------------------------------------
(* The selection.                                                            *)

LEMMA SelectionKeptByFiles ==
  ASSUME TypeInv, SelectionSent, NEW files \in SUBSET Path, SendFiles(files),
         shown.files = wanted => wanted' = files
  PROVE  SelectionSent'
<1> SUFFICES ASSUME ~raced'
             PROVE  /\ \A s, t \in UnhandledFiles' : s = t
                    /\ \A s \in UnhandledFiles' : req'[s].files = wanted'
                    /\ UnhandledFiles' = {} => daemon'.files = wanted'
  BY DEF SelectionSent
<1> DEFINE r == [NoRequest EXCEPT !.kind = "files", !.files = files]
<1>1. r \in Request /\ r.kind = "files" /\ r.files = files
  BY KeyRequests DEF TypeInv
<1>2. Send(r) /\ req \in [Slot -> Request]
  BY DEF SendFiles, TypeInv, TypeOK
<1>3. shown.files = wanted /\ UnhandledFiles = {}
  BY DEF SendFiles
<1> HIDE DEF r
<1> DEFINE q == [r EXCEPT !.api = "received", !.msg = "wait"]
<1>4. q.kind = "files" /\ q.api = "received" /\ q.files = files
  BY <1>1 DEF Request
<1>5. PICK s \in Slot : req[s] = NoRequest /\ req' = [req EXCEPT ![s] = q]
  BY <1>1, <1>2, SendShape
<1> HIDE DEF q
<1>6. req'[s] = q /\ \A t \in Slot \ {s} : req'[t] = req[t]
  BY <1>2, <1>5
<1>7. UnhandledFiles' = {s}
  BY <1>3, <1>4, <1>6 DEF UnhandledFiles
<1> QED
  BY <1>3, <1>4, <1>6, <1>7

LEMMA SelectionKeptByOtherKeys ==
  ASSUME TypeInv, SelectionSent, NEW r \in Request, Send(r), r.kind # "files",
         daemon' = daemon, raced' = raced, wanted' = wanted
  PROVE  SelectionSent'
<1> DEFINE q == [r EXCEPT !.api = "received", !.msg = "wait"]
<1>1. q.kind # "files"
  BY DEF Request
<1>2. req \in [Slot -> Request]
  BY DEF TypeInv, TypeOK
<1>3. PICK s \in Slot : req[s] = NoRequest /\ req' = [req EXCEPT ![s] = q]
  BY <1>2, SendShape
<1> HIDE DEF q
<1>4. req'[s] = q /\ \A t \in Slot \ {s} : req'[t] = req[t]
  BY <1>2, <1>3
<1>5. s \notin UnhandledFiles
  BY <1>3, ZeroTypes DEF UnhandledFiles
<1>6. UnhandledFiles' = UnhandledFiles
  BY <1>1, <1>4, <1>5 DEF UnhandledFiles
<1>7. \A t \in UnhandledFiles : req'[t] = req[t]
  BY <1>4, <1>5 DEF UnhandledFiles
<1> QED
  BY <1>6, <1>7 DEF SelectionSent

LEMMA SelectionKeptByRequests ==
  ASSUME TypeInv, SelectionSent, NEW s \in Slot, RequestStep(s) \/ GiveUp(s)
  PROVE  SelectionSent'
<1> SUFFICES ASSUME ~raced'
             PROVE  /\ \A t, u \in UnhandledFiles' : t = u
                    /\ \A t \in UnhandledFiles' : req'[t].files = wanted'
                    /\ UnhandledFiles' = {} => daemon'.files = wanted'
  BY DEF SelectionSent
<1>1. req \in [Slot -> Request]
  BY DEF TypeInv, TypeOK
<1>2. wanted' = wanted /\ ~raced /\ (daemon' = daemon \/ Handle(s))
  <2>1. wanted' = wanted /\ (raced => raced')
    <3>1. CASE GiveUp(s)
      <4>1. wanted' = wanted
        BY <3>1 DEF GiveUp
      <4>2. CASE raced' = raced
        BY <4>1, <4>2
      <4>3. CASE raced' = (raced \/ req[s].kind = "files")
        <5>1. raced => raced'
          BY <4>3, Zenon
        <5> QED
          BY <4>1, <5>1
      <4> QED
        BY <3>1, <4>2, <4>3 DEF GiveUp
    <3>2. CASE RequestStep(s)
      BY <3>2 DEF RequestStep, Handle, TakeSnapshot, ActionAnswer, ActionError, fileHistory
    <3> QED
      BY <3>1, <3>2
  <2>2. daemon' = daemon \/ Handle(s)
    BY DEF RequestStep, TakeSnapshot, ActionAnswer, ActionError, GiveUp
  <2> QED
    BY <2>1, <2>2
<1>3. /\ \A t, u \in UnhandledFiles : t = u
      /\ \A t \in UnhandledFiles : req[t].files = wanted
      /\ UnhandledFiles = {} => daemon.files = wanted
  BY <1>2 DEF SelectionSent
<1>4. PICK q \in Request :
        /\ req' = [req EXCEPT ![s] = q]
        /\ q.api = "received" =>
             /\ req[s].api = "received" /\ ~Handle(s)
             /\ q.kind = req[s].kind /\ q.files = req[s].files
             /\ q.settings = req[s].settings
        /\ q.msg = "snapshot" =>
             q.snap = daemon \/ (req[s].msg = "snapshot" /\ q.snap = req[s].snap)
        /\ q.api # "received" /\ req[s].api = "received" /\ req[s].kind = "files" =>
             Handle(s) \/ raced'
  BY RequestShape
<1>5. req'[s] = q /\ \A t \in Slot \ {s} : req'[t] = req[t]
  BY <1>1, <1>4
<1>6. CASE q.api = "received"
  <2>1. UnhandledFiles' = UnhandledFiles
    BY <1>4, <1>5, <1>6 DEF UnhandledFiles
  <2>2. \A t \in UnhandledFiles : req'[t].files = req[t].files
    BY <1>4, <1>5, <1>6 DEF UnhandledFiles
  <2>3. daemon' = daemon
    BY <1>2, <1>4, <1>6
  <2> QED
    BY <2>1, <2>2, <2>3, <1>2, <1>3
<1>7. CASE q.api # "received" /\ s \in UnhandledFiles
  <2>1. req[s].kind = "files" /\ req[s].api = "received" /\ Handle(s)
    BY <1>7, <1>4 DEF UnhandledFiles
  <2>2. UnhandledFiles' = {}
    BY <1>3, <1>5, <1>7 DEF UnhandledFiles
  <2>3. daemon'.files = wanted
    BY <2>1, <1>3, <1>7, HandleEffect
  <2> QED
    BY <2>2, <2>3, <1>2
<1>8. CASE q.api # "received" /\ s \notin UnhandledFiles
  <2>1. UnhandledFiles' = UnhandledFiles
    BY <1>5, <1>8 DEF UnhandledFiles
  <2>2. \A t \in UnhandledFiles : req'[t] = req[t]
    BY <1>5, <1>8 DEF UnhandledFiles
  <2>3. daemon'.files = daemon.files
    <3>1. CASE Handle(s)
      BY <3>1, <1>8, HandleEffect DEF UnhandledFiles
    <3> QED
      BY <3>1, <1>2
  <2> QED
    BY <2>1, <2>2, <2>3, <1>2, <1>3
<1> QED
  BY <1>6, <1>7, <1>8

LEMMA SelectionKeptByStep ==
  ASSUME TypeInv, SelectionSent, [Next]_vars
  PROVE  SelectionSent'
<1> USE DEF viewVars, editHistory, fileHistory
<1>1. wanted \in SUBSET Path /\ shown.files \in SUBSET Path
  BY SnapshotFields DEF TypeInv, TypeOK
<1>2. ASSUME req' = req, raced' = raced, wanted' = wanted, daemon'.files = daemon.files
      PROVE  SelectionSent'
  BY <1>2 DEF SelectionSent, UnhandledFiles
<1>3. ASSUME NEW p \in Path, PickFile(p)
      PROVE  SelectionSent'
  BY <1>1, <1>3, SelectionKeptByFiles DEF PickFile
<1>4. ASSUME NEW p \in Path, RemoveFile(p)
      PROVE  SelectionSent'
  BY <1>1, <1>4, SelectionKeptByFiles DEF RemoveFile
<1>5. ASSUME NEW c \in Component, ToggleComponent(c)
      PROVE  SelectionSent'
  <2> DEFINE r == [NoRequest EXCEPT !.kind = IF shown.running[c] THEN "stop" ELSE "start",
                                    !.on = {c}]
  <2>1. r \in Request /\ r.kind = IF shown.running[c] THEN "stop" ELSE "start"
    BY KeyRequests DEF TypeInv
  <2>2. Send(r) /\ daemon' = daemon /\ raced' = raced /\ wanted' = wanted
    BY <1>5 DEF ToggleComponent
  <2> HIDE DEF r
  <2> QED
    BY <2>1, <2>2, SelectionKeptByOtherKeys
<1>6. CASE Write
  <2> DEFINE r == [NoRequest EXCEPT !.kind = "settings", !.settings = shown.settings]
  <2>1. r \in Request /\ r.kind = "settings"
    BY KeyRequests DEF TypeInv
  <2>2. Send(r) /\ daemon' = daemon /\ raced' = raced /\ wanted' = wanted
    BY <1>6 DEF Write
  <2> HIDE DEF r
  <2> QED
    BY <2>1, <2>2, SelectionKeptByOtherKeys
<1>7. CASE DaemonEvent
  <2>1. daemon'.files = daemon.files
    BY <1>7, EventShape DEF TypeInv
  <2> QED
    BY <1>2, <1>7, <2>1 DEF DaemonEvent
<1>8. CASE Navigate \/ OpenDetails \/ BeginEdit \/ CancelEdit \/ CommitEdit
  BY <1>2, <1>8 DEF Navigate, OpenDetails, BeginEdit, CancelEdit, CommitEdit
<1>9. ASSUME NEW c \in Component, ToggleSetting(c)
      PROVE  SelectionSent'
  BY <1>2, <1>9 DEF ToggleSetting
<1>10. ASSUME NEW n \in Chain, PollStep(n) \/ StateFails(n)
       PROVE  SelectionSent'
  BY <1>2, <1>10 DEF PollStep, StateServed, StateAnswer, StateError, StateFails
<1>11. CASE UNCHANGED vars
  BY <1>2, <1>11 DEF vars
<1> QED
  BY <1>3, <1>4, <1>5, <1>6, <1>7, <1>8, <1>9, <1>10, <1>11, SelectionKeptByRequests DEF Next, Key

(* The daemon ends up with the files the user picked, besides those it had   *)
(* at first: at rest its list is the user's, unless a file key was pressed   *)
(* on a list that was out of date or under way, or a list got lost           *)
(* (main.go:265).                                                            *)
THEOREM TuiSelectionKept == Spec => []SelectionKept
<1>1. Init => SelectionSent
  <2> SUFFICES ASSUME Init
               PROVE  SelectionSent
    OBVIOUS
  <2>1. \A s \in Slot : req[s] = NoRequest
    BY DEF Init
  <2>2. UnhandledFiles = {}
    BY <2>1, ZeroTypes DEF UnhandledFiles
  <2>3. daemon.files = Found /\ wanted = Found
    BY FirstSnapshot DEF Init
  <2> QED
    BY <2>2, <2>3 DEF SelectionSent
<1>2. TypeInv /\ SelectionSent /\ [Next]_vars => SelectionSent'
  BY SelectionKeptByStep
<1>3. SelectionSent => SelectionKept
  BY DEF SelectionSent, SelectionKept
<1> QED
  BY <1>1, <1>2, <1>3, TuiInvariant, PTL DEF Spec

-----------------------------------------------------------------------------
(* The settings.                                                             *)

(* An edit that no w has sent is marked as modified, so that no snapshot     *)
(* replaces it, unless it was made while a w was on its way (main.go:246).   *)
THEOREM TuiUnsentIsDirty == Spec => []UnsentIsDirty
<1> USE DEF viewVars, editHistory, fileHistory
<1>1. Init => UnsentIsDirty
  BY DEF Init, UnsentIsDirty
<1>2. TypeInv /\ UnsentIsDirty /\ [Next]_vars => UnsentIsDirty'
  <2> SUFFICES ASSUME TypeInv, UnsentIsDirty, [Next]_vars
               PROVE  UnsentIsDirty'
    OBVIOUS
  <2>1. ASSUME unsent' => unsent, dirty => dirty', crossed => crossed'
        PROVE  UnsentIsDirty'
    BY <2>1 DEF UnsentIsDirty
  <2>2. ASSUME Edited PROVE UnsentIsDirty'
    BY <2>2 DEF Edited, UnsentIsDirty
  <2>3. CASE Write
    BY <2>3 DEF Write, UnsentIsDirty
  <2>4. CASE CommitEdit
    BY <2>2, <2>4 DEF CommitEdit
  <2>5. ASSUME NEW c \in Component, ToggleSetting(c) PROVE UnsentIsDirty'
    BY <2>2, <2>5 DEF ToggleSetting
  <2>6. CASE Navigate \/ OpenDetails \/ BeginEdit \/ CancelEdit \/ DaemonEvent \/ UNCHANGED vars
    BY <2>1, <2>6 DEF Navigate, OpenDetails, BeginEdit, CancelEdit, DaemonEvent, vars
  <2>7. ASSUME NEW c \in Component, ToggleComponent(c) PROVE UnsentIsDirty'
    BY <2>1, <2>7 DEF ToggleComponent
  <2>8. ASSUME NEW p \in Path, PickFile(p) \/ RemoveFile(p) PROVE UnsentIsDirty'
    BY <2>1, <2>8 DEF PickFile, RemoveFile, SendFiles
  <2>9. ASSUME NEW s \in Slot, ActionAnswer(s) PROVE UnsentIsDirty'
    <3>1. /\ dirty' = (dirty /\ req[s].kind # "settings")
          /\ crossed' = (crossed \/ (req[s].kind = "settings" /\ unsent))
      BY <2>9 DEF ActionAnswer
    <3>2. unsent' => unsent
      BY <2>9 DEF ActionAnswer, ApplySnapshot
    <3> QED
      BY <3>1, <3>2 DEF UnsentIsDirty
  <2>10. ASSUME NEW s \in Slot,
                Handle(s) \/ TakeSnapshot(s) \/ ActionError(s) \/ GiveUp(s)
         PROVE  UnsentIsDirty'
    BY <2>1, <2>10 DEF Handle, TakeSnapshot, ActionError, GiveUp
  <2>11. ASSUME NEW n \in Chain, PollStep(n) \/ StateFails(n) PROVE UnsentIsDirty'
    BY <2>1, <2>11 DEF PollStep, StateServed, StateAnswer, StateError, StateFails, ApplySnapshot
  <2> QED
    BY <2>3, <2>4, <2>5, <2>6, <2>7, <2>8, <2>9, <2>10, <2>11 DEF Next, Key, RequestStep
<1> QED
  BY <1>1, <1>2, TuiInvariant, PTL DEF Spec

(* Settings that a write of the terminal's may send.                         *)
LEMMA BlankKeptByKeys ==
  ASSUME TypeInv, NowhereBlank, Key
  PROVE  NowhereBlank'
<1> USE DEF viewVars, editHistory, fileHistory
<1> SUFFICES ASSUME ~blind'
             PROVE  NowhereBlank'
  BY DEF NowhereBlank
<1>1. /\ req \in [Slot -> Request] /\ shown \in Snapshot /\ shown.settings \in Settings
      /\ keys \in Nat
  BY SnapshotFields, TuiAssumption DEF TypeInv, TypeOK
<1>2. ASSUME NEW r \in Request, Send(r),
             r.kind = "settings" => r.settings.text # Blank,
             ~blind, daemon' = daemon, poll' = poll, synced' = synced,
             shown'.settings = shown.settings
      PROVE  NowhereBlank'
  <2> DEFINE q == [r EXCEPT !.api = "received", !.msg = "wait"]
  <2>1. q.kind = r.kind /\ q.msg = "wait" /\ q.settings = r.settings
    BY <1>2 DEF Request
  <2>2. PICK s \in Slot : req[s] = NoRequest /\ req' = [req EXCEPT ![s] = q]
    BY <1>1, <1>2, SendShape
  <2> HIDE DEF q
  <2>3. req'[s] = q /\ \A t \in Slot \ {s} : req'[t] = req[t]
    BY <1>1, <2>2
  <2> QED
    BY <1>2, <2>1, <2>3 DEF NowhereBlank
<1>3. ASSUME ~blind, daemon' = daemon, poll' = poll, synced' = synced, req' = req,
             synced' => shown'.settings.text = shown.settings.text \/ shown'.settings.text # Blank
      PROVE  NowhereBlank'
  BY <1>3 DEF NowhereBlank
<1>4. CASE Navigate \/ OpenDetails \/ BeginEdit \/ CancelEdit
  BY <1>3, <1>4 DEF Navigate, OpenDetails, BeginEdit, CancelEdit
<1>5. CASE CommitEdit
  <2>1. shown'.settings.text = keys + 1
    BY <1>5, <1>1 DEF CommitEdit, Snapshot, Settings
  <2>2. shown'.settings.text # Blank
    BY <2>1, <1>1 DEF Blank
  <2>3. ~blind
    BY <1>5 DEF CommitEdit, Edited
  <2> QED
    BY <1>3, <1>5, <2>2, <2>3 DEF CommitEdit
<1>6. ASSUME NEW c \in Component, ToggleSetting(c)
      PROVE  NowhereBlank'
  <2>1. shown'.settings.text = shown.settings.text
    BY <1>6, <1>1 DEF ToggleSetting, Snapshot, Settings
  <2>2. ~blind
    BY <1>6 DEF ToggleSetting, Edited
  <2> QED
    BY <1>3, <1>6, <2>1, <2>2 DEF ToggleSetting
<1>7. CASE Write
  <2> DEFINE r == [NoRequest EXCEPT !.kind = "settings", !.settings = shown.settings]
  <2>1. r \in Request /\ r.settings = shown.settings
    BY KeyRequests DEF TypeInv
  <2>2. /\ Send(r) /\ daemon' = daemon /\ poll' = poll /\ synced' = synced /\ shown' = shown
        /\ blind' = (blind \/ ~synced)
    BY <1>7 DEF Write
  <2> HIDE DEF r
  <2>3. ~blind /\ synced
    BY <2>2
  <2>4. r.settings.text # Blank
    BY <2>1, <2>3 DEF NowhereBlank
  <2> QED
    BY <1>2, <2>1, <2>2, <2>3, <2>4
<1>8. ASSUME NEW c \in Component, ToggleComponent(c)
      PROVE  NowhereBlank'
  <2> DEFINE r == [NoRequest EXCEPT !.kind = IF shown.running[c] THEN "stop" ELSE "start",
                                    !.on = {c}]
  <2>1. r \in Request /\ r.kind = IF shown.running[c] THEN "stop" ELSE "start"
    BY KeyRequests DEF TypeInv
  <2>2. /\ Send(r) /\ daemon' = daemon /\ poll' = poll /\ synced' = synced /\ shown' = shown
        /\ blind' = blind
    BY <1>8 DEF ToggleComponent
  <2> HIDE DEF r
  <2> QED
    BY <1>2, <2>1, <2>2
<1>9. ASSUME NEW files \in SUBSET Path, SendFiles(files)
      PROVE  NowhereBlank'
  <2> DEFINE r == [NoRequest EXCEPT !.kind = "files", !.files = files]
  <2>1. r \in Request /\ r.kind = "files"
    BY KeyRequests DEF TypeInv
  <2>2. /\ Send(r) /\ daemon' = daemon /\ poll' = poll /\ synced' = synced /\ blind' = blind
        /\ shown' = [shown EXCEPT !.files = files]
    BY <1>9 DEF SendFiles
  <2> HIDE DEF r
  <2>3. shown'.settings = shown.settings
    BY <2>2, <1>1 DEF Snapshot
  <2> QED
    BY <1>2, <2>1, <2>2, <2>3
<1>10. shown.files \in SUBSET Path
  BY <1>1, SnapshotFields
<1>11. ASSUME NEW p \in Path, PickFile(p)
       PROVE  NowhereBlank'
  BY <1>9, <1>10, <1>11 DEF PickFile
<1>12. ASSUME NEW p \in Path, RemoveFile(p)
       PROVE  NowhereBlank'
  BY <1>9, <1>10, <1>12 DEF RemoveFile
<1> QED
  BY <1>4, <1>5, <1>6, <1>7, <1>8, <1>11, <1>12 DEF Key

LEMMA BlankKeptByRequests ==
  ASSUME TypeInv, NowhereBlank, NEW s \in Slot, RequestStep(s) \/ GiveUp(s)
  PROVE  NowhereBlank'
<1> USE DEF viewVars, editHistory, fileHistory
<1>1. req \in [Slot -> Request] /\ TypeOK
  BY DEF TypeInv, TypeOK
<1>2. blind' = blind /\ (daemon' = daemon \/ Handle(s))
  BY DEF RequestStep, Handle, TakeSnapshot, ActionAnswer, ActionError, GiveUp
<1> SUFFICES ASSUME ~blind
             PROVE  NowhereBlank'
  BY <1>2 DEF NowhereBlank
<1>3. /\ daemon.settings.text # Blank
      /\ synced => shown.settings.text # Blank
      /\ \A t \in Slot :
           /\ req[t].api = "received" /\ req[t].kind = "settings" => req[t].settings.text # Blank
           /\ req[t].msg = "snapshot" => req[t].snap.settings.text # Blank
      /\ \A n \in Chain : poll[n].at = "snapshot" => poll[n].snap.settings.text # Blank
  BY DEF NowhereBlank
<1>4. daemon'.settings.text # Blank
  <2>1. CASE Handle(s)
    BY <2>1, <1>3, HandleEffect
  <2> QED
    BY <2>1, <1>2, <1>3
<1>5. PICK q \in Request :
        /\ req' = [req EXCEPT ![s] = q]
        /\ q.api = "received" =>
             /\ req[s].api = "received" /\ ~Handle(s)
             /\ q.kind = req[s].kind /\ q.files = req[s].files
             /\ q.settings = req[s].settings
        /\ q.msg = "snapshot" =>
             q.snap = daemon \/ (req[s].msg = "snapshot" /\ q.snap = req[s].snap)
        /\ q.api # "received" /\ req[s].api = "received" /\ req[s].kind = "files" =>
             Handle(s) \/ raced'
  BY RequestShape
<1>6. req'[s] = q /\ \A t \in Slot \ {s} : req'[t] = req[t]
  BY <1>1, <1>5
<1>7. ASSUME NEW t \in Slot
      PROVE  /\ req'[t].api = "received" /\ req'[t].kind = "settings" =>
                  req'[t].settings.text # Blank
             /\ req'[t].msg = "snapshot" => req'[t].snap.settings.text # Blank
  <2>1. CASE t = s
    BY <2>1, <1>3, <1>5, <1>6
  <2> QED
    BY <2>1, <1>3, <1>6
<1>8. \A n \in Chain : poll'[n].at = "snapshot" => poll'[n].snap.settings.text # Blank
  <2>1. CASE ActionError(s)
    <3>1. poll' = [poll EXCEPT ![failures + 2].at = "wait"]
      BY <2>1 DEF ActionError
    <3>2. \A n \in Chain : poll'[n].at = "snapshot" => poll'[n] = poll[n]
      BY <3>1, <1>1 DEF TypeOK, Poll
    <3> QED
      BY <3>2, <1>3
  <2>2. CASE ~ActionError(s)
    BY <2>2, <1>3 DEF RequestStep, Handle, TakeSnapshot, ActionAnswer, GiveUp
  <2> QED
    BY <2>1, <2>2
<1>9. synced' => shown'.settings.text # Blank
  <2>1. CASE ActionAnswer(s)
    <3> DEFINE unsaved == dirty /\ req[s].kind # "settings"
    <3>1. req[s].snap \in Snapshot /\ unsaved \in BOOLEAN
      BY <1>1 DEF Request
    <3>2. ApplySnapshot(req[s].snap, unsaved) /\ req[s].msg = "snapshot"
      BY <2>1 DEF ActionAnswer
    <3> HIDE DEF unsaved
    <3>3. shown'.settings = IF unsaved \/ editing THEN shown.settings ELSE req[s].snap.settings
      BY <3>1, <3>2, <1>1, AppliedTypes
    <3>4. synced' = (synced \/ ~(unsaved \/ editing))
      BY <3>2 DEF ApplySnapshot
    <3> QED
      BY <3>2, <3>3, <3>4, <1>3
  <2>2. CASE ~ActionAnswer(s)
    <3>1. shown' = shown /\ synced' = synced
      BY <2>2 DEF RequestStep, Handle, TakeSnapshot, ActionError, GiveUp
    <3> QED
      BY <3>1, <1>3
  <2> QED
    BY <2>1, <2>2
<1> QED
  BY <1>4, <1>7, <1>8, <1>9 DEF NowhereBlank

LEMMA BlankKeptByPolls ==
  ASSUME TypeInv, NowhereBlank, NEW n \in Chain, PollStep(n) \/ StateFails(n)
  PROVE  NowhereBlank'
<1> USE DEF viewVars, editHistory, fileHistory
<1>1. poll \in [Chain -> Poll] /\ TypeOK /\ poll[n].snap \in Snapshot /\ dirty \in BOOLEAN
  BY DEF TypeInv, TypeOK, Poll
<1>2. blind' = blind /\ daemon' = daemon /\ req' = req
  BY DEF PollStep, StateServed, StateAnswer, StateError, StateFails
<1> SUFFICES ASSUME ~blind
             PROVE  NowhereBlank'
  BY <1>2 DEF NowhereBlank
<1>3. /\ daemon.settings.text # Blank
      /\ synced => shown.settings.text # Blank
      /\ \A k \in Chain : poll[k].at = "snapshot" => poll[k].snap.settings.text # Blank
  BY DEF NowhereBlank
<1>4. /\ \A k \in Chain \ {n} : poll'[k] = poll[k]
      /\ poll'[n].at = "snapshot" => poll'[n].snap = daemon
  BY <1>1, ZeroTypes DEF PollStep, StateServed, StateAnswer, StateError, StateFails, Poll
<1>5. \A k \in Chain : poll'[k].at = "snapshot" => poll'[k].snap.settings.text # Blank
  BY <1>3, <1>4
<1>6. synced' => shown'.settings.text # Blank
  <2>1. CASE StateAnswer(n)
    <3>1. ApplySnapshot(poll[n].snap, dirty) /\ poll[n].at = "snapshot"
      BY <2>1 DEF StateAnswer
    <3>2. shown'.settings = IF dirty \/ editing THEN shown.settings ELSE poll[n].snap.settings
      BY <3>1, <1>1, AppliedTypes
    <3>3. synced' = (synced \/ ~(dirty \/ editing))
      BY <3>1 DEF ApplySnapshot
    <3> QED
      BY <3>1, <3>2, <3>3, <1>3
  <2>2. CASE ~StateAnswer(n)
    <3>1. shown' = shown /\ synced' = synced
      BY <2>2 DEF PollStep, StateServed, StateError, StateFails
    <3> QED
      BY <3>1, <1>3
  <2> QED
    BY <2>1, <2>2
<1> QED
  BY <1>2, <1>5, <1>6 DEF NowhereBlank

LEMMA BlankKept ==
  ASSUME TypeInv, NowhereBlank, [Next]_vars
  PROVE  NowhereBlank'
<1> USE DEF viewVars, editHistory, fileHistory
<1>1. CASE DaemonEvent
  <2>1. daemon'.settings = daemon.settings
    BY <1>1, EventShape DEF TypeInv
  <2> QED
    BY <1>1, <2>1 DEF DaemonEvent, NowhereBlank
<1>2. CASE UNCHANGED vars
  BY <1>2 DEF vars, NowhereBlank
<1> QED
  BY <1>1, <1>2, BlankKeptByKeys, BlankKeptByRequests, BlankKeptByPolls DEF Next

(* The terminal's zero settings reach the daemon only if the user edited or  *)
(* wrote before the first snapshot had arrived (main.go:131, 215).           *)
THEOREM TuiNoBlankSettings == Spec => []NoBlankSettings
<1>1. Init => NowhereBlank
  <2> SUFFICES ASSUME Init
               PROVE  NowhereBlank
    OBVIOUS
  <2>1. daemon.settings.text = Boot
    BY FirstSnapshot DEF Init
  <2>2. \A s \in Slot : req[s].api = "none" /\ req[s].msg = "none"
    BY ZeroTypes DEF Init
  <2>3. \A n \in Chain : poll[n].at # "snapshot"
    BY DEF Init, NoPoll
  <2> QED
    BY <2>1, <2>2, <2>3, ZeroTypes DEF NowhereBlank, Init
<1>2. TypeInv /\ NowhereBlank /\ [Next]_vars => NowhereBlank'
  BY BlankKept
<1>3. NowhereBlank => NoBlankSettings
  BY DEF NowhereBlank, NoBlankSettings
<1> QED
  BY <1>1, <1>2, <1>3, TuiInvariant, PTL DEF Spec

=============================================================================
