---------------------------- MODULE ServerProofs ----------------------------
(***************************************************************************)
(* The safety of one Server, for any number of connections, any number of  *)
(* progress events and any capacity of the events channel.                 *)
(***************************************************************************)
EXTENDS Server, SequenceTheorems, FiniteSetTheorems, TLAPS

Opened == {i \in Conn : sock[i] = "open"}

(* Connections are accepted in the order of their numbers; Start works on    *)
(* the newest one until its handler runs.                                    *)
AcceptedInOrder ==
  /\ \A i \in Conn : i > newest => sock[i] = "none" /\ handler[i] = "none" /\ i \notin conns
  /\ start \in {"register", "announce"} => newest # 0 /\ handler[newest] = "none"
  /\ start = "register" => newest \notin conns
  /\ \A i \in Conn : handler[i] \in {"delete", "done"} => sock[i] # "open"

(* s.ln goes with Start, and only Stop closes it.                            *)
LineFollowsStart ==
  /\ start = "listen" <=> ln = "nil" /\ start # "returned"
  /\ start = "publish" <=> ln = "bound"
  /\ ln = "closed" => stopped

(* What Stop leaves open: nothing that was in the map, so at most the newest *)
(* connection, which Start was about to register; and no other follows once  *)
(* the listening socket is closed.                                           *)
StopReaches ==
  /\ ~stopped => Opened \ conns \subseteq (IF start = "register" THEN {newest} ELSE {})
  /\ ln = "closed" => Opened \subseteq {newest}

StopInv == AcceptedInOrder /\ LineFollowsStart /\ StopReaches

(* The events that consumeSenderEvents has still to apply, oldest first.     *)
Stream == hand \o queue

(* Of one connection accepted comes first, a result last, and progress does  *)
(* not go back in between.                                                   *)
EventsInOrder ==
  \A m, n \in 1 .. Len(Stream) :
    m < n /\ Stream[m].conn = Stream[n].conn =>
      /\ Stream[n].state # "accepted" /\ Stream[m].state \notin Result
      /\ Stream[m].sent <= Stream[n].sent

(* Events fit what is shown and what the handler has done.                   *)
EventsFit ==
  \A n \in 1 .. Len(Stream) :
    LET e == Stream[n]  i == e.conn IN
    /\ handler[i] # "none"
    /\ e.state \in Result => handler[i] \in {"close", "delete", "done"}
    /\ e.state = "accepted" => view[i].state = "absent"
    /\ e.state # "accepted" =>
         \/ view[i].state = "accepted"
         \/ \E m \in 1 .. n - 1 : Stream[m].conn = i /\ Stream[m].state = "accepted"
    /\ view[i].sent <= e.sent /\ e.sent <= sent[i]

(* The list shows a connection from its accepted event on, and its result    *)
(* only when its handler is over.                                            *)
ViewFits ==
  \A i \in Conn :
    /\ view[i].state # "progress" /\ view[i].sent <= sent[i]
    /\ view[i].state = "absent" => view[i].sent = 0
    /\ handler[i] = "none" => view[i].state = "absent"
    /\ handler[i] \in {"run"} \cup Result =>
         \/ view[i].state = "accepted"
         \/ \E m \in 1 .. Len(Stream) : Stream[m].conn = i /\ Stream[m].state = "accepted"

EventsInv == EventsInOrder /\ EventsFit /\ ViewFits

-----------------------------------------------------------------------------
(* Types.                                                                    *)

(* There is a connection to register and to announce.                        *)
NewestExists == start \in {"register", "announce"} => newest \in Conn

LEMMA InitTypes == Init => TypeOK /\ NewestExists
<1> SUFFICES ASSUME Init PROVE TypeOK /\ NewestExists
  OBVIOUS
<1> USE ServerAssumption DEF Init
<1>1. <<>> \in Seq(Event) /\ Len(<<>>) = 0
  OBVIOUS
<1>2. /\ queue \in Seq(Event) /\ Len(queue) <= QueueCap
      /\ hand \in Seq(Event) /\ (Len(hand) = 1 <=> consumer = "apply") /\ Len(hand) <= 1
  BY <1>1
<1>3. /\ sock \in [Conn -> {"none", "open", "closed"}] /\ conns \in SUBSET Conn
      /\ handler \in [Conn -> {"none", "run", "close", "delete", "done"} \cup Result]
  OBVIOUS
<1>4. /\ sent \in [Conn -> 0 .. MaxProgress]
      /\ view \in [Conn -> [state : {"absent", "accepted", "progress"} \cup Result,
                            sent : 0 .. MaxProgress]]
  OBVIOUS
<1>5. /\ ctx \in BOOLEAN /\ stopped \in BOOLEAN /\ newest \in Conn \cup {0}
      /\ consumer = "select" /\ caller = "idle" /\ start = "listen" /\ ln = "nil"
  OBVIOUS
<1> HIDE DEF Init
<1> QED
  BY <1>2, <1>3, <1>4, <1>5 DEF TypeOK, NewestExists

(* An event that fits into the channel leaves it a channel.                  *)
LEMMA EnqueueType ==
  ASSUME TypeOK, Len(queue) # QueueCap, NEW e \in Event, queue' = Append(queue, e)
  PROVE  queue' \in Seq(Event) /\ Len(queue') <= QueueCap
<1>1. Len(queue) \in Nat /\ Len(queue) < QueueCap
  BY ServerAssumption DEF TypeOK
<1>2. queue' \in Seq(Event) /\ Len(queue') = Len(queue) + 1
  BY AppendProperties DEF TypeOK
<1> QED
  BY <1>1, <1>2, ServerAssumption

LEMMA EventType ==
  ASSUME TypeOK, NEW i \in Conn, NEW state \in {"accepted", "progress"} \cup Result,
         NEW k \in 0 .. MaxProgress
  PROVE  [conn |-> i, state |-> state, sent |-> k] \in Event
BY DEF Event

(* A write that succeeds or fails takes its handler forward, if at all.      *)
LEMMA SentAdvances ==
  ASSUME TypeOK, NEW i \in Conn, Progress(i) \/ WriteFails(i)
  PROVE  /\ sent'[i] \in 0 .. MaxProgress /\ sent' \in [Conn -> 0 .. MaxProgress]
         /\ sent[i] <= sent'[i] /\ \A k \in Conn \ {i} : sent'[k] = sent[k]
<1>1. /\ sent \in [Conn -> 0 .. MaxProgress] /\ sent[i] \in 0 .. MaxProgress
      /\ MaxProgress \in Nat
  BY ServerAssumption DEF TypeOK
<1>2. /\ sent' = sent \/ sent' = [sent EXCEPT ![i] = sent[i] + 1]
      /\ sent[i] < MaxProgress \/ sent'[i] <= MaxProgress
  BY DEF Progress, WriteFails
<1>3. CASE sent' = sent
  BY <1>1, <1>3
<1>4. CASE sent' = [sent EXCEPT ![i] = sent[i] + 1]
  <2>1. sent'[i] = sent[i] + 1 /\ sent[i] + 1 \in 0 .. MaxProgress
    BY <1>1, <1>2, <1>4
  <2> QED
    BY <1>1, <1>4, <2>1
<1> QED
  BY <1>2, <1>3, <1>4

LEMMA StopKeepsTypes ==
  ASSUME TypeOK, Stop
  PROVE  /\ ln' \in {"nil", "bound", "open", "closed"} /\ stopped' \in BOOLEAN
         /\ sock' \in [Conn -> {"none", "open", "closed"}] /\ conns' \in SUBSET Conn
BY DEF Stop, TypeOK, connVars

LEMMA StepKeepsTypes == TypeOK /\ NewestExists /\ [Next]_vars => TypeOK' /\ NewestExists'
<1> SUFFICES ASSUME TypeOK, NewestExists, [Next]_vars PROVE TypeOK' /\ NewestExists'
  OBVIOUS
<1> USE DEF startVars, connVars, handlerVars, consumerVars
<1>1. ASSUME CallerCancels \/ RunCancels PROVE TypeOK' /\ NewestExists'
  <2>1. /\ ctx' \in BOOLEAN /\ caller' \in {"idle", "stop", "done"}
        /\ UNCHANGED <<startVars, connVars, handlerVars, queue, consumerVars>>
    BY <1>1 DEF CallerCancels, RunCancels, TypeOK
  <2> QED
    BY <2>1 DEF TypeOK, NewestExists
<1>2. ASSUME CallerStops PROVE TypeOK' /\ NewestExists'
  BY <1>2, StopKeepsTypes DEF CallerStops, TypeOK, NewestExists
<1>3. ASSUME Watch PROVE TypeOK' /\ NewestExists'
  BY <1>3, StopKeepsTypes DEF Watch, TypeOK, NewestExists
<1>4. ASSUME Listen \/ Publish \/ AcceptFails PROVE TypeOK' /\ NewestExists'
  BY <1>4 DEF Listen, Publish, AcceptFails, TypeOK, NewestExists
<1>5. ASSUME Accept PROVE TypeOK' /\ NewestExists'
  <2>1. newest + 1 \in Conn
    BY <1>5, ServerAssumption DEF Accept, TypeOK, Conn
  <2> QED
    BY <1>5, <2>1 DEF Accept, TypeOK, NewestExists
<1>6. ASSUME Register PROVE TypeOK' /\ NewestExists'
  <2>1. conns' \in SUBSET Conn
    BY <1>6 DEF Register, TypeOK, NewestExists
  <2> QED
    BY <1>6, <2>1 DEF Register, TypeOK, NewestExists
<1>7. ASSUME Announce PROVE TypeOK' /\ NewestExists'
  <2>1. newest \in Conn /\ sent[newest] \in 0 .. MaxProgress
    BY <1>7 DEF Announce, TypeOK, NewestExists
  <2>2. [conn |-> newest, state |-> "accepted", sent |-> sent[newest]] \in Event
    BY <2>1 DEF Event
  <2>3. queue' \in Seq(Event) /\ Len(queue') <= QueueCap
    BY <1>7, <2>2, EnqueueType DEF Announce, Enqueue, QueueFull
  <2> QED
    BY <1>7, <2>3 DEF Announce, TypeOK, NewestExists
<1>8. ASSUME NEW i \in Conn, Progress(i) \/ WriteFails(i) PROVE TypeOK' /\ NewestExists'
  <2>1. sent'[i] \in 0 .. MaxProgress /\ sent' \in [Conn -> 0 .. MaxProgress]
    BY <1>8, SentAdvances
  <2>2. queue' \in Seq(Event) /\ Len(queue') <= QueueCap
    <3>1. ReportProgress(i)
      BY <1>8 DEF Progress, WriteFails
    <3> QED
      BY <2>1, <3>1, EnqueueType, EventType DEF ReportProgress, QueueFull, TypeOK
  <2>3. /\ handler' \in [Conn -> {"none", "run", "close", "delete", "done"} \cup Result]
        /\ UNCHANGED <<ctx, caller, startVars, connVars, consumerVars>>
    BY <1>8 DEF Progress, WriteFails, TypeOK, Result
  <2> QED
    BY <2>1, <2>2, <2>3 DEF TypeOK, NewestExists
<1>9. ASSUME NEW i \in Conn, HandlerEnds(i) \/ HandlerCloses(i) \/ HandlerDeletes(i)
      PROVE  TypeOK' /\ NewestExists'
  <2>1. handler' \in [Conn -> {"none", "run", "close", "delete", "done"} \cup Result]
    BY <1>9 DEF HandlerEnds, HandlerCloses, HandlerDeletes, TypeOK
  <2>2. sock' \in [Conn -> {"none", "open", "closed"}] /\ conns' \in SUBSET Conn
    BY <1>9 DEF HandlerEnds, HandlerCloses, HandlerDeletes, TypeOK
  <2>3. UNCHANGED <<ctx, caller, startVars, sent, queue, consumerVars>>
    BY <1>9 DEF HandlerEnds, HandlerCloses, HandlerDeletes
  <2> QED
    BY <2>1, <2>2, <2>3 DEF TypeOK, NewestExists
<1>10. ASSUME NEW i \in Conn, Report(i) PROVE TypeOK' /\ NewestExists'
  <2>1. queue' \in Seq(Event) /\ Len(queue') <= QueueCap
    BY <1>10, EnqueueType, EventType DEF Report, Enqueue, QueueFull, TypeOK, NewestExists
  <2> QED
    BY <1>10, <2>1 DEF Report, TypeOK, NewestExists
<1>11. ASSUME ConsumerExits PROVE TypeOK' /\ NewestExists'
  BY <1>11 DEF ConsumerExits, TypeOK, NewestExists
<1>12. ASSUME Receive PROVE TypeOK' /\ NewestExists'
  <2>1. /\ Head(queue) \in Event /\ Tail(queue) \in Seq(Event)
        /\ Len(Tail(queue)) = Len(queue) - 1 /\ Len(queue) \in Nat
    BY <1>12, HeadTailProperties, LenProperties DEF Receive, TypeOK, NewestExists
  <2>2. queue' \in Seq(Event) /\ Len(queue') <= QueueCap
    BY <1>12, <2>1, ServerAssumption DEF Receive, TypeOK, NewestExists
  <2>3. hand' \in Seq(Event) /\ Len(hand') = 1
    BY <1>12, <2>1 DEF Receive
  <2> QED
    BY <1>12, <2>2, <2>3 DEF Receive, TypeOK, NewestExists
<1>13. ASSUME Apply PROVE TypeOK' /\ NewestExists'
  <2>1. hand \in Seq(Event) /\ Len(hand) = 1
    BY <1>13 DEF Apply, TypeOK
  <2>2. Head(hand) \in Event
    BY <2>1, HeadTailProperties, EmptySeq
  <2>3. view' \in [Conn -> [state : {"absent", "accepted", "progress"} \cup Result,
                            sent : 0 .. MaxProgress]]
    <3> DEFINE e == Head(hand)  i == e.conn
    <3>1. /\ i \in Conn /\ e.state \in {"accepted", "progress"} \cup Result
          /\ e.sent \in 0 .. MaxProgress
      BY <2>2 DEF Event
    <3>2. view[i].state \in {"absent", "accepted", "progress"} \cup Result
          /\ view[i].sent \in 0 .. MaxProgress
      BY <3>1 DEF TypeOK
    <3>3. PICK v : /\ view' = [view EXCEPT ![i] = v]
                   /\ \/ \E s \in {"progress", view[i].state} : v = [state |-> s, sent |-> e.sent]
                      \/ v = [view[i] EXCEPT !.state = e.state]
      BY <1>13 DEF Apply
    <3> HIDE DEF e, i
    <3>4. view[i] \in [state : {"absent", "accepted", "progress"} \cup Result, sent : 0 .. MaxProgress]
      BY <3>1 DEF TypeOK, i, e
    <3>5. v \in [state : {"absent", "accepted", "progress"} \cup Result, sent : 0 .. MaxProgress]
      BY <3>1, <3>2, <3>3, <3>4
    <3> QED
      BY <3>3, <3>5 DEF TypeOK
  <2>4. hand' \in Seq(Event) /\ Len(hand') = 0
    BY <1>13 DEF Apply
  <2>5. /\ UNCHANGED <<ctx, caller, start, ln, stopped, newest, sock, conns, handler, sent, queue>>
        /\ consumer' = "select"
    BY <1>13 DEF Apply
  <2> QED
    BY <2>3, <2>4, <2>5 DEF TypeOK, NewestExists
<1>14. ASSUME UNCHANGED vars PROVE TypeOK' /\ NewestExists'
  BY <1>14 DEF vars, TypeOK, NewestExists
<1> QED
  BY <1>1, <1>2, <1>3, <1>4, <1>5, <1>6, <1>7, <1>8, <1>9, <1>10, <1>11, <1>12, <1>13, <1>14
     DEF Next, StartStep, HandlerStep, ConsumerStep

(* Type correctness; in particular the channel never holds more than its     *)
(* capacity, and the consumer works on one event at most.                    *)
THEOREM ServerTypeCorrect == Spec => []TypeOK
<1>1. Spec => [](TypeOK /\ NewestExists)
  BY InitTypes, StepKeepsTypes, PTL DEF Spec
<1> QED
  BY <1>1, PTL

-----------------------------------------------------------------------------
(* Stop.                                                                     *)

LEMMA InitStop == Init => StopInv
BY ServerAssumption DEF Init, StopInv, AcceptedInOrder, LineFollowsStart, StopReaches, Opened

LEMMA StopKeepsStop ==
  ASSUME TypeOK, StopInv, Stop, UNCHANGED <<start, newest, handler>>
  PROVE  StopInv'
<1>1. CASE stopped
  BY <1>1 DEF Stop, StopInv, AcceptedInOrder, LineFollowsStart, StopReaches, Opened, connVars
<1>2. CASE ~stopped
  <2>1. /\ stopped' = TRUE /\ conns' = {}
        /\ ln' = IF ln = "open" THEN "closed" ELSE ln
        /\ \A i \in Conn : sock'[i] = IF i \in conns THEN "closed" ELSE sock[i]
    BY <1>2 DEF Stop, TypeOK
  <2>2. AcceptedInOrder'
    BY <2>1 DEF StopInv, AcceptedInOrder
  <2>3. LineFollowsStart'
    BY <2>1 DEF StopInv, LineFollowsStart
  <2>4. Opened' = Opened \ conns
    BY <2>1 DEF Opened
  <2>5. StopReaches'
    BY <1>2, <2>1, <2>4 DEF StopInv, StopReaches
  <2> QED
    BY <2>2, <2>3, <2>5 DEF StopInv
<1> QED
  BY <1>1, <1>2

LEMMA StepKeepsStop == TypeOK /\ StopInv /\ [Next]_vars => StopInv'
<1> SUFFICES ASSUME TypeOK, StopInv, [Next]_vars PROVE StopInv'
  OBVIOUS
<1> USE DEF startVars, connVars, handlerVars, consumerVars
<1>1. ASSUME UNCHANGED <<startVars, connVars, handler>> PROVE StopInv'
  BY <1>1 DEF StopInv, AcceptedInOrder, LineFollowsStart, StopReaches, Opened
<1>2. ASSUME CallerStops \/ Watch PROVE StopInv'
  BY <1>2, StopKeepsStop DEF CallerStops, Watch
<1>3. ASSUME Listen \/ Publish \/ AcceptFails PROVE StopInv'
  <2>1. AcceptedInOrder'
    BY <1>3 DEF Listen, Publish, AcceptFails, StopInv, AcceptedInOrder
  <2>2. LineFollowsStart'
    BY <1>3 DEF Listen, Publish, AcceptFails, StopInv, LineFollowsStart, TypeOK
  <2>3. StopReaches'
    BY <1>3 DEF Listen, Publish, AcceptFails, StopInv, LineFollowsStart, StopReaches, Opened
  <2> QED
    BY <2>1, <2>2, <2>3 DEF StopInv
<1>4. ASSUME Accept PROVE StopInv'
  <2>1. newest + 1 \in Conn /\ newest \in Nat
    BY <1>4, ServerAssumption DEF Accept, TypeOK, Conn
  <2>2. /\ newest' = newest + 1 /\ sock'[newest + 1] = "open" /\ newest + 1 \notin conns
        /\ \A i \in Conn : i # newest + 1 => sock'[i] = sock[i]
    BY <1>4, <2>1 DEF Accept, TypeOK, StopInv, AcceptedInOrder
  <2>3. AcceptedInOrder'
    BY <1>4, <2>1, <2>2 DEF Accept, StopInv, AcceptedInOrder, Conn
  <2>4. LineFollowsStart' /\ ln' # "closed"
    BY <1>4 DEF Accept, StopInv, LineFollowsStart
  <2>5. Opened' = Opened \cup {newest + 1}
    BY <2>1, <2>2 DEF Opened
  <2>6. StopReaches'
    BY <1>4, <2>2, <2>4, <2>5 DEF Accept, StopInv, StopReaches
  <2> QED
    BY <2>3, <2>4, <2>6 DEF StopInv
<1>5. ASSUME Register PROVE StopInv'
  <2>1. newest \in Conn /\ newest \in Nat
    BY <1>5 DEF Register, StopInv, AcceptedInOrder, TypeOK, Conn
  <2>2. \A i \in Conn : i > newest => i # newest
    BY <2>1 DEF Conn
  <2>3. AcceptedInOrder'
    BY <1>5, <2>1, <2>2 DEF Register, StopInv, AcceptedInOrder
  <2>4. LineFollowsStart'
    BY <1>5 DEF Register, StopInv, LineFollowsStart
  <2>5. StopReaches'
    BY <1>5 DEF Register, StopInv, StopReaches, Opened
  <2> QED
    BY <2>3, <2>4, <2>5 DEF StopInv
<1>6. ASSUME Announce PROVE StopInv'
  <2>1. newest \in Conn /\ newest \in Nat
    BY <1>6 DEF Announce, StopInv, AcceptedInOrder, TypeOK, Conn
  <2>2. AcceptedInOrder'
    BY <1>6, <2>1 DEF Announce, StopInv, AcceptedInOrder, TypeOK, Conn
  <2>3. LineFollowsStart' /\ StopReaches'
    BY <1>6 DEF Announce, StopInv, LineFollowsStart, StopReaches, Opened
  <2> QED
    BY <2>2, <2>3 DEF StopInv
<1>7. ASSUME NEW i \in Conn,
             Report(i) \/ WriteFails(i) \/ HandlerEnds(i) \/ HandlerCloses(i) \/ HandlerDeletes(i)
      PROVE  StopInv'
  <2>1. /\ UNCHANGED startVars
        /\ \A k \in Conn : handler'[k] = "none" <=> handler[k] = "none"
        /\ \A k \in Conn : sock'[k] = "open" => sock[k] = "open"
        /\ \A k \in Conn : sock[k] = "none" => sock'[k] = "none" \/ k = i
    BY <1>7 DEF Report, WriteFails, HandlerEnds, HandlerCloses, HandlerDeletes, TypeOK, Result
  <2>2. handler[i] # "none" /\ i <= newest
    BY <1>7 DEF Report, WriteFails, HandlerEnds, HandlerCloses, HandlerDeletes, StopInv, AcceptedInOrder,
                Result, TypeOK, Conn
  <2>3. /\ conns' \subseteq conns
        /\ \A k \in conns \ conns' : sock[k] # "open"
    BY <1>7 DEF Report, WriteFails, HandlerEnds, HandlerCloses, HandlerDeletes, StopInv, AcceptedInOrder
  <2>4. \A k \in Conn : handler'[k] \in {"delete", "done"} => sock'[k] # "open"
    BY <1>7 DEF Report, WriteFails, HandlerEnds, HandlerCloses, HandlerDeletes, TypeOK, Result, StopInv,
                AcceptedInOrder
  <2>5. AcceptedInOrder'
    BY <2>1, <2>2, <2>3, <2>4 DEF StopInv, AcceptedInOrder, TypeOK, Conn
  <2>6. LineFollowsStart'
    BY <2>1 DEF StopInv, LineFollowsStart
  <2>7. Opened' \subseteq Opened /\ Opened' \ conns' \subseteq Opened \ conns
    BY <2>1, <2>3 DEF Opened
  <2>8. StopReaches'
    BY <2>1, <2>7 DEF StopInv, StopReaches
  <2> QED
    BY <2>5, <2>6, <2>8 DEF StopInv
<1> QED
  BY <1>1, <1>2, <1>3, <1>4, <1>5, <1>6, <1>7
     DEF Next, vars, CallerCancels, RunCancels, Progress, ConsumerExits, Receive, Apply,
         StartStep, HandlerStep, ConsumerStep

(* Whatever connects while Stop runs, at most one connection stays open once *)
(* the listening socket is closed.                                           *)
THEOREM ServerAtMostOneEscapes == Spec => []AtMostOneEscapes
<1>1. TypeOK /\ StopInv => AtMostOneEscapes
  <2> SUFFICES ASSUME TypeOK, StopInv PROVE AtMostOneEscapes
    OBVIOUS
  <2>1. ASSUME ln = "closed" PROVE Cardinality(Opened) <= 1
    <3>1. Opened \subseteq {newest}
      BY <2>1 DEF StopInv, StopReaches
    <3>2. IsFiniteSet({newest}) /\ Cardinality({newest}) = 1
      BY FS_Singleton
    <3> QED
      BY <3>1, <3>2, FS_Subset
  <2> QED
    BY <2>1 DEF StopInv, StopReaches, AtMostOneEscapes, Opened
<1>2. TypeOK /\ StopInv /\ [Next]_vars => StopInv'
  BY StepKeepsStop
<1> QED
  BY <1>1, <1>2, InitStop, ServerTypeCorrect, PTL DEF Spec

-----------------------------------------------------------------------------
(* Events.                                                                   *)

LEMMA StreamType ==
  ASSUME TypeOK
  PROVE  /\ Stream \in Seq(Event)
         /\ Len(Stream) \in Nat
         /\ \A n \in 1 .. Len(Stream) : Stream[n] \in Event
<1>1. Stream \in Seq(Event)
  BY ConcatProperties DEF TypeOK, Stream
<1> QED
  BY <1>1, ElementOfSeq

(* An event that is sent comes last in the stream.                           *)
LEMMA StreamGrows ==
  ASSUME TypeOK, NEW e \in Event, queue' = Append(queue, e), hand' = hand
  PROVE  /\ Len(Stream') = Len(Stream) + 1
         /\ Stream'[Len(Stream) + 1] = e
         /\ \A n \in 1 .. Len(Stream) : Stream'[n] = Stream[n]
<1>1. hand \in Seq(Event) /\ queue \in Seq(Event) /\ <<e>> \in Seq(Event)
  BY DEF TypeOK
<1>2. queue' = queue \o <<e>>
  BY <1>1, AppendIsConcat
<1>3. Stream' = Stream \o <<e>>
  BY <1>1, <1>2, ConcatAssociative DEF Stream
<1>4. Stream' = Append(Stream, e)
  BY <1>3, StreamType, AppendIsConcat
<1> QED
  BY <1>4, StreamType, AppendProperties

(* The consumer that receives an event leaves it in the stream.              *)
LEMMA StreamStays ==
  ASSUME TypeOK, consumer = "select", queue # <<>>,
         hand' = <<Head(queue)>>, queue' = Tail(queue)
  PROVE  Stream' = Stream
<1>1. queue \in Seq(Event) /\ Tail(queue) \in Seq(Event) /\ <<Head(queue)>> \in Seq(Event)
  BY HeadTailProperties DEF TypeOK
<1>2. hand = <<>>
  BY EmptySeq DEF TypeOK
<1>3. Stream = queue
  BY <1>1, <1>2, ConcatEmptySeq DEF Stream
<1>4. Len(Stream') = Len(Stream) /\ \A n \in 1 .. Len(Stream) : Stream'[n] = Stream[n]
  BY <1>1, <1>3, ConcatProperties, HeadTailProperties DEF Stream
<1> QED
  BY <1>1, <1>3, <1>4, ConcatProperties, SeqEqual DEF Stream

(* The event it applies was the first of the stream.                         *)
LEMMA StreamShrinks ==
  ASSUME TypeOK, consumer = "apply", hand' = <<>>, queue' = queue
  PROVE  /\ Len(Stream) # 0 /\ Head(hand) = Stream[1] /\ Stream[1] \in Event
         /\ Len(Stream') = Len(Stream) - 1
         /\ \A n \in 1 .. Len(Stream') : Stream'[n] = Stream[n + 1]
<1>1. hand \in Seq(Event) /\ queue \in Seq(Event) /\ Len(hand) = 1 /\ Len(queue) \in Nat
  BY DEF TypeOK
<1>2. Stream' = queue
  BY <1>1, ConcatEmptySeq DEF Stream
<1>3. /\ Len(Stream) = 1 + Len(queue)
      /\ \A n \in 1 .. 1 + Len(queue) : Stream[n] = IF n <= 1 THEN hand[n] ELSE queue[n - 1]
  <2>1. /\ Len(hand \o queue) = Len(hand) + Len(queue)
        /\ \A n \in 1 .. Len(hand) + Len(queue) :
             (hand \o queue)[n] = IF n <= Len(hand) THEN hand[n] ELSE queue[n - Len(hand)]
    BY <1>1, ConcatProperties
  <2> QED
    BY <1>1, <2>1 DEF Stream
<1>4. Head(hand) = hand[1] /\ hand[1] \in Event
  <2>0. Len(<<>>) = 0
    OBVIOUS
  <2>1. hand # <<>>
    <3>1. ASSUME hand = <<>> PROVE Len(hand) = 0
      BY <2>0, <3>1, Zenon
    <3> QED
      BY <1>1, <3>1
  <2>2. 1 \in 1 .. Len(hand)
    BY <1>1
  <2> QED
    BY <1>1, <2>1, <2>2, HeadTailProperties, ElementOfSeq
<1> QED
  BY <1>1, <1>2, <1>3, <1>4

LEMMA InitEvents == Init => EventsInv
<1> SUFFICES ASSUME Init PROVE EventsInv
  OBVIOUS
<1>1. Stream = <<>> /\ Len(Stream) = 0
  BY DEF Init, Stream
<1>2. ViewFits
  BY <1>1, ServerAssumption DEF Init, ViewFits, Result
<1> QED
  BY <1>1, <1>2 DEF EventsInv, EventsInOrder, EventsFit

(* Steps that send nothing; a handler may get further.                       *)
LEMMA QuietStep ==
  ASSUME TypeOK, EventsInv, UNCHANGED <<hand, queue, view>>,
         \A i \in Conn : sent[i] <= sent'[i] /\ sent'[i] \in Nat,
         \A i \in Conn : \/ handler'[i] = handler[i]
                         \/ handler[i] = "run" /\ handler'[i] \in Result
                         \/ handler[i] = "close" /\ handler'[i] = "delete"
                         \/ handler[i] = "delete" /\ handler'[i] = "done"
  PROVE  EventsInv'
<1>1. UNCHANGED Stream
  BY DEF Stream
<1>2. EventsInOrder'
  BY <1>1 DEF EventsInv, EventsInOrder
<1>3. \A i \in Conn :
        /\ handler[i] # "none" <=> handler'[i] # "none"
        /\ handler[i] \in {"close", "delete", "done"} => handler'[i] \in {"close", "delete", "done"}
        /\ handler'[i] \in {"run"} \cup Result => handler[i] \in {"run"} \cup Result
  BY DEF Result
<1>4. \A n \in 1 .. Len(Stream) : Stream[n].conn \in Conn /\ Stream[n].sent \in Nat
  BY StreamType DEF Event
<1>5. EventsFit'
  <2> SUFFICES ASSUME NEW n \in 1 .. Len(Stream)
               PROVE  LET e == Stream[n]  i == e.conn IN
                      /\ handler'[i] # "none"
                      /\ e.state \in Result => handler'[i] \in {"close", "delete", "done"}
                      /\ e.state = "accepted" => view[i].state = "absent"
                      /\ e.state # "accepted" =>
                           \/ view[i].state = "accepted"
                           \/ \E m \in 1 .. n - 1 :
                                Stream[m].conn = i /\ Stream[m].state = "accepted"
                      /\ view[i].sent <= e.sent /\ e.sent <= sent'[i]
    BY <1>1 DEF EventsFit
  <2> DEFINE i == Stream[n].conn
  <2>1. /\ handler[i] # "none"
        /\ Stream[n].state \in Result => handler[i] \in {"close", "delete", "done"}
        /\ Stream[n].state = "accepted" => view[i].state = "absent"
        /\ Stream[n].state # "accepted" =>
             \/ view[i].state = "accepted"
             \/ \E m \in 1 .. n - 1 : Stream[m].conn = i /\ Stream[m].state = "accepted"
        /\ view[i].sent <= Stream[n].sent /\ Stream[n].sent <= sent[i]
    BY DEF EventsInv, EventsFit
  <2>2. i \in Conn
    BY <1>4
  <2>3. /\ handler'[i] # "none"
        /\ Stream[n].state \in Result => handler'[i] \in {"close", "delete", "done"}
    BY <1>3, <2>1, <2>2
  <2>4. Stream[n].sent <= sent'[i]
    <3>1. /\ sent[i] \in Nat /\ Stream[n].sent \in Nat /\ Stream[n].sent <= sent[i]
          /\ sent[i] <= sent'[i] /\ sent'[i] \in Nat
      BY <1>4, <2>1, <2>2 DEF TypeOK
    <3> QED
      BY <3>1
  <2> QED
    BY <2>1, <2>3, <2>4
<1>6. ViewFits'
  <2> SUFFICES ASSUME NEW i \in Conn
               PROVE  /\ view[i].state # "progress" /\ view[i].sent <= sent'[i]
                      /\ view[i].state = "absent" => view[i].sent = 0
                      /\ handler'[i] = "none" => view[i].state = "absent"
                      /\ handler'[i] \in {"run"} \cup Result =>
                           \/ view[i].state = "accepted"
                           \/ \E m \in 1 .. Len(Stream) :
                                Stream[m].conn = i /\ Stream[m].state = "accepted"
    BY <1>1 DEF ViewFits
  <2>1. /\ view[i].sent \in Nat /\ sent[i] \in Nat /\ view[i].sent <= sent[i]
        /\ sent[i] <= sent'[i] /\ sent'[i] \in Nat
    BY DEF TypeOK, EventsInv, ViewFits
  <2>2. view[i].sent <= sent'[i]
    BY <2>1
  <2> QED
    BY <1>3, <2>2 DEF EventsInv, ViewFits
<1> QED
  BY <1>2, <1>5, <1>6 DEF EventsInv

(* A running handler, or one with a result to report, sends an event that    *)
(* goes no less far than all it sent before.                                 *)
LEMMA HandlerSends ==
  ASSUME TypeOK, EventsInv, NEW e \in Event, queue' = Append(queue, e),
         UNCHANGED <<hand, view>>, e.state # "accepted",
         handler[e.conn] \in {"run"} \cup Result,
         e.state \in Result => handler'[e.conn] = "close",
         handler'[e.conn] # "none",
         \A i \in Conn \ {e.conn} : handler'[i] = handler[i] /\ sent'[i] = sent[i],
         sent[e.conn] <= e.sent, e.sent = sent'[e.conn], sent'[e.conn] \in Nat
  PROVE  EventsInv'
<1> DEFINE i == e.conn  L == Len(Stream)
<1>1. /\ Len(Stream') = L + 1 /\ Stream'[L + 1] = e /\ L \in Nat
      /\ \A n \in 1 .. L : Stream'[n] = Stream[n] /\ Stream[n] \in Event
  BY StreamGrows, StreamType
<1>2. i \in Conn /\ e.state \in {"progress"} \cup Result
  BY DEF Event
<1>3. \A n \in 1 .. L : Stream[n].conn = i =>
        Stream[n].state \notin Result /\ Stream[n].sent <= sent[i]
  BY DEF EventsInv, EventsFit, Result
<1>4. \A n \in 1 .. L : Stream[n].sent \in Nat /\ Stream[n].conn \in Conn
  BY <1>1 DEF Event
<1>5. sent[i] \in Nat /\ e.sent \in Nat /\ view[i].sent \in Nat
  BY <1>2 DEF TypeOK, Event
<1>6. EventsInOrder'
  <2> SUFFICES ASSUME NEW m \in 1 .. L + 1, NEW n \in 1 .. L + 1, m < n,
                      Stream'[m].conn = Stream'[n].conn
               PROVE  /\ Stream'[n].state # "accepted" /\ Stream'[m].state \notin Result
                      /\ Stream'[m].sent <= Stream'[n].sent
    BY <1>1 DEF EventsInOrder
  <2>1. CASE n \in 1 .. L
    BY <1>1, <2>1, SMTT(60) DEF EventsInv, EventsInOrder
  <2>2. CASE n = L + 1
    <3>1. m \in 1 .. L
      BY <1>1, <2>2
    <3> QED
      BY <1>1, <1>3, <1>4, <1>5, <2>2, <3>1, SMTT(60)
  <2>3. n \in 1 .. L \/ n = L + 1
    <3>1. L \in Nat
      BY <1>1
    <3> QED
      BY <3>1
  <2> QED
    BY <2>1, <2>2, <2>3, Zenon
<1>7. view[i].state = "accepted" \/ \E m \in 1 .. L : Stream[m].conn = i /\ Stream[m].state = "accepted"
  BY <1>2 DEF EventsInv, ViewFits
<1>8. view[i].sent <= sent[i]
  BY <1>2 DEF EventsInv, ViewFits
<1>9. EventsFit'
  <2> SUFFICES ASSUME NEW n \in 1 .. L + 1
               PROVE  LET f == Stream'[n]  k == f.conn IN
                      /\ handler'[k] # "none"
                      /\ f.state \in Result => handler'[k] \in {"close", "delete", "done"}
                      /\ f.state = "accepted" => view[k].state = "absent"
                      /\ f.state # "accepted" =>
                           \/ view[k].state = "accepted"
                           \/ \E m \in 1 .. n - 1 :
                                Stream'[m].conn = k /\ Stream'[m].state = "accepted"
                      /\ view[k].sent <= f.sent /\ f.sent <= sent'[k]
    BY <1>1, SMTT(60) DEF EventsFit
  <2>1. CASE n \in 1 .. L
    <3> DEFINE f == Stream[n]  k == f.conn
    <3>1. Stream'[n] = f /\ k \in Conn /\ f.sent \in Nat /\ \A m \in 1 .. n - 1 : Stream'[m] = Stream[m]
      BY <1>1, <1>4, <2>1, SMTT(60)
    <3>2. /\ handler[k] # "none"
          /\ f.state \in Result => handler[k] \in {"close", "delete", "done"}
          /\ f.state = "accepted" => view[k].state = "absent"
          /\ f.state # "accepted" =>
               \/ view[k].state = "accepted"
               \/ \E m \in 1 .. n - 1 : Stream[m].conn = k /\ Stream[m].state = "accepted"
          /\ view[k].sent <= f.sent /\ f.sent <= sent[k]
      BY <2>1 DEF EventsInv, EventsFit
    <3>3. CASE k = i
      <4>1. f.state \notin Result /\ f.sent <= sent[i]
        BY <1>3, <2>1, <3>3
      <4>2. f.sent <= sent'[k]
        BY <1>5, <3>1, <3>3, <4>1, SMTT(60)
      <4>3. f.state # "accepted" =>
               \/ view[k].state = "accepted"
               \/ \E m \in 1 .. n - 1 : Stream'[m].conn = k /\ Stream'[m].state = "accepted"
        BY <3>1, <3>2
      <4> QED
        BY <3>1, <3>2, <3>3, <4>1, <4>2, <4>3
    <3>4. CASE k # i
      BY <3>1, <3>2, <3>4
    <3> QED
      BY <3>3, <3>4
  <2>2. CASE n = L + 1
    <3>1. Stream'[n] = e /\ n - 1 = L
      BY <1>1, <2>2
    <3>2. (\E m \in 1 .. L : Stream[m].conn = i /\ Stream[m].state = "accepted")
            => \E m \in 1 .. n - 1 : Stream'[m].conn = i /\ Stream'[m].state = "accepted"
      BY <1>1, <3>1
    <3> QED
      BY <1>2, <1>5, <1>7, <1>8, <3>1, <3>2, SMTT(60)
  <2>3. n \in 1 .. L \/ n = L + 1
    <3>1. L \in Nat
      BY <1>1
    <3> HIDE DEF L
    <3> QED
      BY <3>1
  <2> QED
    BY <2>1, <2>2, <2>3, Zenon
<1>10. ViewFits'
  <2> SUFFICES ASSUME NEW k \in Conn
               PROVE  /\ view[k].state # "progress" /\ view[k].sent <= sent'[k]
                      /\ view[k].state = "absent" => view[k].sent = 0
                      /\ handler'[k] = "none" => view[k].state = "absent"
                      /\ handler'[k] \in {"run"} \cup Result =>
                           \/ view[k].state = "accepted"
                           \/ \E m \in 1 .. L + 1 :
                                Stream'[m].conn = k /\ Stream'[m].state = "accepted"
    BY <1>1 DEF ViewFits
  <2>1. /\ view[k].state # "progress" /\ view[k].sent <= sent[k]
        /\ view[k].state = "absent" => view[k].sent = 0
        /\ handler[k] = "none" => view[k].state = "absent"
        /\ handler[k] \in {"run"} \cup Result =>
             \/ view[k].state = "accepted"
             \/ \E m \in 1 .. L : Stream'[m].conn = k /\ Stream'[m].state = "accepted"
    BY <1>1 DEF EventsInv, ViewFits
  <2>2. view[k].sent \in Nat
    BY DEF TypeOK
  <2>3. CASE k = i
    BY <1>1, <1>5, <2>1, <2>2, <2>3
  <2>4. CASE k # i
    BY <1>1, <2>1, <2>4
  <2> QED
    BY <2>3, <2>4
<1> QED
  BY <1>6, <1>9, <1>10 DEF EventsInv

(* Start announces a connection nothing was said about yet.                  *)
LEMMA AnnounceKeepsEvents ==
  ASSUME TypeOK, AcceptedInOrder, EventsInv, Announce
  PROVE  EventsInv'
<1> DEFINE L == Len(Stream)
           e == [conn |-> newest, state |-> "accepted", sent |-> sent[newest]]
<1>1. newest \in Conn /\ handler[newest] = "none"
  BY DEF Announce, AcceptedInOrder, TypeOK
<1>2. /\ e \in Event /\ queue' = Append(queue, e) /\ hand' = hand /\ view' = view /\ sent' = sent
      /\ handler' = [handler EXCEPT ![newest] = "run"]
  BY <1>1 DEF Announce, Enqueue, Event, TypeOK, consumerVars
<1>3. /\ e.conn = newest /\ e.state = "accepted" /\ e.sent = sent[newest]
      /\ e.state \notin Result
  BY DEF Result
<1> HIDE DEF e
<1>4. /\ Len(Stream') = L + 1 /\ Stream'[L + 1] = e /\ L \in Nat
      /\ \A n \in 1 .. L : Stream'[n] = Stream[n] /\ Stream[n].conn \in Conn
  BY <1>2, StreamGrows, StreamType DEF Event
<1>5. handler'[newest] = "run" /\ \A k \in Conn \ {newest} : handler'[k] = handler[k]
  BY <1>1, <1>2 DEF TypeOK
<1>6. \A n \in 1 .. L : Stream[n].conn # newest
  BY <1>1 DEF EventsInv, EventsFit
<1>7. view[newest].state = "absent" /\ view[newest].sent <= sent[newest]
      /\ sent[newest] \in Nat
  BY <1>1 DEF EventsInv, ViewFits, TypeOK
<1>8. EventsInOrder'
  <2> SUFFICES ASSUME NEW m \in 1 .. L + 1, NEW n \in 1 .. L + 1, m < n,
                      Stream'[m].conn = Stream'[n].conn
               PROVE  /\ Stream'[n].state # "accepted" /\ Stream'[m].state \notin Result
                      /\ Stream'[m].sent <= Stream'[n].sent
    BY <1>4 DEF EventsInOrder
  <2>1. m \in 1 .. L
    BY <1>4
  <2>2. n # L + 1
    BY <1>3, <1>4, <1>6, <2>1
  <2>3. n \in 1 .. L
    BY <1>4, <2>2
  <2> QED
    BY <1>4, <2>1, <2>3 DEF EventsInv, EventsInOrder
<1>9. EventsFit'
  <2> SUFFICES ASSUME NEW n \in 1 .. L + 1
               PROVE  LET f == Stream'[n]  k == f.conn IN
                      /\ handler'[k] # "none"
                      /\ f.state \in Result => handler'[k] \in {"close", "delete", "done"}
                      /\ f.state = "accepted" => view[k].state = "absent"
                      /\ f.state # "accepted" =>
                           \/ view[k].state = "accepted"
                           \/ \E m \in 1 .. n - 1 :
                                Stream'[m].conn = k /\ Stream'[m].state = "accepted"
                      /\ view[k].sent <= f.sent /\ f.sent <= sent[k]
    BY <1>2, <1>4 DEF EventsFit
  <2>1. CASE n \in 1 .. L
    <3> DEFINE f == Stream[n]  k == f.conn
    <3>1. /\ Stream'[n] = f /\ k \in Conn \ {newest}
          /\ \A m \in 1 .. n - 1 : Stream'[m] = Stream[m]
      BY <1>4, <1>6, <2>1, SMTT(60)
    <3>2. /\ handler[k] # "none"
          /\ f.state \in Result => handler[k] \in {"close", "delete", "done"}
          /\ f.state = "accepted" => view[k].state = "absent"
          /\ f.state # "accepted" =>
               \/ view[k].state = "accepted"
               \/ \E m \in 1 .. n - 1 : Stream[m].conn = k /\ Stream[m].state = "accepted"
          /\ view[k].sent <= f.sent /\ f.sent <= sent[k]
      BY <2>1 DEF EventsInv, EventsFit
    <3>3. handler'[k] = handler[k]
      BY <1>5, <3>1
    <3> QED
      BY <3>1, <3>2, <3>3
  <2>2. CASE n = L + 1
    BY <1>3, <1>4, <1>5, <1>7, <2>2
  <2> QED
    BY <1>4, <2>1, <2>2
<1>10. ViewFits'
  <2> SUFFICES ASSUME NEW k \in Conn
               PROVE  /\ view[k].state # "progress" /\ view[k].sent <= sent[k]
                      /\ view[k].state = "absent" => view[k].sent = 0
                      /\ handler'[k] = "none" => view[k].state = "absent"
                      /\ handler'[k] \in {"run"} \cup Result =>
                           \/ view[k].state = "accepted"
                           \/ \E m \in 1 .. L + 1 :
                                Stream'[m].conn = k /\ Stream'[m].state = "accepted"
    BY <1>2, <1>4 DEF ViewFits
  <2>1. /\ view[k].state # "progress" /\ view[k].sent <= sent[k]
        /\ view[k].state = "absent" => view[k].sent = 0
        /\ handler[k] = "none" => view[k].state = "absent"
        /\ handler[k] \in {"run"} \cup Result =>
             \/ view[k].state = "accepted"
             \/ \E m \in 1 .. L : Stream'[m].conn = k /\ Stream'[m].state = "accepted"
    BY <1>4 DEF EventsInv, ViewFits
  <2>2. L + 1 \in 1 .. L + 1
    BY <1>4
  <2>3. CASE k = newest
    BY <1>3, <1>4, <1>5, <2>1, <2>2, <2>3
  <2>4. CASE k # newest
    <3>1. handler'[k] = handler[k]
      BY <1>5, <2>4
    <3>2. (\E m \in 1 .. L : Stream'[m].conn = k /\ Stream'[m].state = "accepted") =>
            \E m \in 1 .. L + 1 : Stream'[m].conn = k /\ Stream'[m].state = "accepted"
      BY <1>4
    <3> QED
      BY <2>1, <3>1, <3>2
  <2> QED
    BY <2>3, <2>4
<1> QED
  BY <1>8, <1>9, <1>10 DEF EventsInv

(* What the consumer makes of the first event of the stream.                 *)
LEMMA ApplyAdvances ==
  ASSUME TypeOK, EventsInv, Apply
  PROVE  LET e == Stream[1]  i == e.conn IN
         /\ Len(Stream) \in Nat \ {0} /\ i \in Conn
         /\ Len(Stream') = Len(Stream) - 1
         /\ \A n \in 1 .. Len(Stream') : Stream'[n] = Stream[n + 1]
         /\ \A k \in Conn \ {i} : view'[k] = view[k]
         /\ ConnectionAdvances(view[i], view'[i])
         /\ view'[i].sent <= e.sent
         /\ \/ e.state = "accepted" /\ view'[i].state = "accepted"
            \/ e.state = "progress" /\ view'[i].state = "accepted"
            \/ e.state \in Result /\ view'[i].state = e.state
<1> DEFINE e == Stream[1]  i == e.conn
<1>1. /\ Len(Stream) \in Nat \ {0} /\ e \in Event /\ Head(hand) = e
      /\ Len(Stream') = Len(Stream) - 1
      /\ \A n \in 1 .. Len(Stream') : Stream'[n] = Stream[n + 1]
  BY StreamShrinks, StreamType DEF Apply
<1>2. i \in Conn /\ e.sent \in Nat /\ e.state \in {"accepted", "progress"} \cup Result
  BY <1>1 DEF Event
<1>3. /\ e.state = "accepted" => view[i].state = "absent"
      /\ e.state # "accepted" => view[i].state = "accepted"
      /\ view[i].sent <= e.sent
  <2>1. 1 \in 1 .. Len(Stream)
    BY <1>1
  <2> QED
    BY <2>1 DEF EventsInv, EventsFit
<1>4. /\ view[i].state = "absent" => view[i].sent = 0
      /\ view[i].sent \in Nat
      /\ view[i] = [state |-> view[i].state, sent |-> view[i].sent]
  BY <1>2 DEF EventsInv, ViewFits, TypeOK
<1>5. view' = [view EXCEPT ![i] =
                 IF e.state = "progress"
                   THEN [state |-> IF view[i].state = "absent" THEN "progress" ELSE view[i].state,
                         sent |-> e.sent]
                   ELSE [view[i] EXCEPT !.state = e.state]]
  BY <1>1 DEF Apply
<1>6. \A k \in Conn \ {i} : view'[k] = view[k]
  BY <1>5 DEF TypeOK
<1>7. view'[i] = IF e.state = "progress"
                   THEN [state |-> IF view[i].state = "absent" THEN "progress" ELSE view[i].state,
                         sent |-> e.sent]
                   ELSE [state |-> e.state, sent |-> view[i].sent]
  <2>1. [view[i] EXCEPT !.state = e.state] = [state |-> e.state, sent |-> view[i].sent]
    BY <1>4
  <2> HIDE DEF e, i
  <2>2. i \in DOMAIN view
    BY <1>2 DEF TypeOK
  <2> QED
    BY <1>5, <2>1, <2>2
<1> HIDE DEF i, e
<1>8. CASE e.state = "accepted"
  <2>1. view'[i] = [state |-> "accepted", sent |-> 0] /\ view[i].sent = 0
    BY <1>3, <1>4, <1>7, <1>8
  <2>2. ConnectionAdvances(view[i], view'[i]) /\ view'[i].sent <= e.sent /\ view'[i].state = "accepted"
    BY <1>3, <1>8, <2>1 DEF ConnectionAdvances
  <2> QED
    BY <1>1, <1>2, <1>6, <1>8, <2>2 DEF e, i
<1>9. CASE e.state = "progress"
  <2>1. view'[i] = [state |-> "accepted", sent |-> e.sent] /\ view[i].state = "accepted"
    BY <1>3, <1>7, <1>9
  <2>2. ConnectionAdvances(view[i], view'[i]) /\ view'[i].sent <= e.sent /\ view'[i].state = "accepted"
    BY <1>2, <1>3, <1>4, <2>1 DEF ConnectionAdvances
  <2> QED
    BY <1>1, <1>2, <1>6, <1>9, <2>2 DEF e, i
<1>10. CASE e.state \in Result
  <2>1. e.state # "accepted" /\ e.state # "progress"
    BY <1>10 DEF Result
  <2>2. view'[i] = [state |-> e.state, sent |-> view[i].sent] /\ view[i].state = "accepted"
    BY <1>3, <1>7, <2>1
  <2>3. ConnectionAdvances(view[i], view'[i]) /\ view'[i].sent <= e.sent /\ view'[i].state = e.state
    BY <1>3, <1>4, <1>10, <2>2 DEF ConnectionAdvances
  <2> QED
    BY <1>1, <1>2, <1>6, <1>10, <2>3 DEF e, i
<1> QED
  BY <1>2, <1>8, <1>9, <1>10

LEMMA ApplyKeepsEvents ==
  ASSUME TypeOK, NewestExists, EventsInv, Apply
  PROVE  EventsInv'
<1> DEFINE L == Len(Stream)  e == Stream[1]  i == e.conn
<1>1. /\ L \in Nat \ {0} /\ i \in Conn /\ Len(Stream') = L - 1
      /\ \A n \in 1 .. L - 1 : Stream'[n] = Stream[n + 1]
      /\ \A k \in Conn \ {i} : view'[k] = view[k]
      /\ ConnectionAdvances(view[i], view'[i])
      /\ view'[i].sent <= e.sent
      /\ \/ e.state = "accepted" /\ view'[i].state = "accepted"
         \/ e.state = "progress" /\ view'[i].state = "accepted"
         \/ e.state \in Result /\ view'[i].state = e.state
  BY ApplyAdvances
<1>2. handler' = handler /\ sent' = sent
  BY DEF Apply, handlerVars
<1>3. TypeOK'
  BY StepKeepsTypes DEF Next, ConsumerStep
<1>4. /\ e.sent \in Nat /\ view'[i].sent \in Nat /\ sent[i] \in Nat
      /\ \A n \in 1 .. L : Stream[n].conn \in Conn /\ Stream[n].sent \in Nat
  <2>1. \A n \in 1 .. L : Stream[n].conn \in Conn /\ Stream[n].sent \in Nat
    BY StreamType DEF Event
  <2>2. e.sent \in Nat
    BY <1>1, <2>1
  <2>3. sent[i] \in Nat
    BY <1>1 DEF TypeOK
  <2>4. view'[i].sent \in Nat
    BY <1>1, <1>3 DEF TypeOK
  <2> QED
    BY <2>1, <2>2, <2>3, <2>4
<1>5. \A n \in 2 .. L : Stream[n].conn = i =>
        Stream[n].state # "accepted" /\ e.state \notin Result /\ e.sent <= Stream[n].sent
  BY <1>1 DEF EventsInv, EventsInOrder
<1>6. /\ e.state \in Result => handler[i] \in {"close", "delete", "done"}
      /\ e.sent <= sent[i] /\ handler[i] # "none"
  <2>1. 1 \in 1 .. L
    BY <1>1
  <2> QED
    BY <2>1 DEF EventsInv, EventsFit
<1>7. \A k \in Conn \ {i}, n \in 0 .. L - 1 :
        (\E m \in 1 .. n + 1 : Stream[m].conn = k /\ Stream[m].state = "accepted") =>
          \E m \in 1 .. n : Stream'[m].conn = k /\ Stream'[m].state = "accepted"
  <2> SUFFICES ASSUME NEW k \in Conn \ {i}, NEW n \in 0 .. L - 1, NEW m \in 1 .. n + 1,
                      Stream[m].conn = k, Stream[m].state = "accepted"
               PROVE  \E l \in 1 .. n : Stream'[l].conn = k /\ Stream'[l].state = "accepted"
    OBVIOUS
  <2>1. m # 1
    OBVIOUS
  <2>2. m - 1 \in 1 .. n /\ m - 1 \in 1 .. L - 1 /\ (m - 1) + 1 = m
    BY <1>1, <2>1
  <2>3. Stream'[m - 1] = Stream[m]
    BY <1>1, <2>2
  <2> QED
    BY <2>2, <2>3
<1> HIDE DEF e, i
<1>8. EventsInOrder'
  <2> SUFFICES ASSUME NEW m \in 1 .. L - 1, NEW n \in 1 .. L - 1, m < n,
                      Stream'[m].conn = Stream'[n].conn
               PROVE  /\ Stream'[n].state # "accepted" /\ Stream'[m].state \notin Result
                      /\ Stream'[m].sent <= Stream'[n].sent
    BY <1>1 DEF EventsInOrder
  <2>1. m + 1 \in 1 .. L /\ n + 1 \in 1 .. L /\ m + 1 < n + 1
    BY <1>1
  <2>2. Stream'[m] = Stream[m + 1] /\ Stream'[n] = Stream[n + 1]
    BY <1>1
  <2> QED
    BY <2>1, <2>2 DEF EventsInv, EventsInOrder
<1>9. EventsFit'
  <2> SUFFICES ASSUME NEW n \in 1 .. L - 1
               PROVE  LET f == Stream'[n]  k == f.conn IN
                      /\ handler[k] # "none"
                      /\ f.state \in Result => handler[k] \in {"close", "delete", "done"}
                      /\ f.state = "accepted" => view'[k].state = "absent"
                      /\ f.state # "accepted" =>
                           \/ view'[k].state = "accepted"
                           \/ \E m \in 1 .. n - 1 :
                                Stream'[m].conn = k /\ Stream'[m].state = "accepted"
                      /\ view'[k].sent <= f.sent /\ f.sent <= sent[k]
    BY <1>1, <1>2 DEF EventsFit
  <2> DEFINE f == Stream[n + 1]  k == f.conn
  <2>1. /\ n + 1 \in 1 .. L /\ n + 1 \in 2 .. L /\ Stream'[n] = f
        /\ n - 1 \in 0 .. L - 1 /\ (n + 1) - 1 = (n - 1) + 1
    BY <1>1
  <2>2. /\ handler[k] # "none"
        /\ f.state \in Result => handler[k] \in {"close", "delete", "done"}
        /\ f.state = "accepted" => view[k].state = "absent"
        /\ f.state # "accepted" =>
             \/ view[k].state = "accepted"
             \/ \E m \in 1 .. (n + 1) - 1 : Stream[m].conn = k /\ Stream[m].state = "accepted"
        /\ view[k].sent <= f.sent /\ f.sent <= sent[k]
    BY <2>1 DEF EventsInv, EventsFit
  <2>3. k \in Conn /\ f.sent \in Nat
    BY <1>4, <2>1
  <2> HIDE DEF f, k
  <2>4. CASE k = i
    <3>1. f.state # "accepted" /\ e.state \notin Result /\ e.sent <= f.sent
      BY <1>5, <2>1, <2>4 DEF f, k
    <3>2. view'[k].state = "accepted"
      BY <1>1, <2>4, <3>1
    <3>3. view'[k].sent <= f.sent
      BY <1>1, <1>4, <2>3, <2>4, <3>1
    <3> QED
      BY <2>1, <2>2, <3>1, <3>2, <3>3 DEF k
  <2>5. CASE k # i
    <3>1. view'[k] = view[k]
      BY <1>1, <2>3, <2>5
    <3>2. (\E m \in 1 .. (n + 1) - 1 : Stream[m].conn = k /\ Stream[m].state = "accepted") =>
            \E m \in 1 .. n - 1 : Stream'[m].conn = k /\ Stream'[m].state = "accepted"
      BY <1>7, <2>1, <2>3, <2>5, SMTT(60)
    <3> QED
      BY <2>1, <2>2, <3>1, <3>2 DEF k
  <2> QED
    BY <2>4, <2>5
<1>10. ViewFits'
  <2> SUFFICES ASSUME NEW k \in Conn
               PROVE  /\ view'[k].state # "progress" /\ view'[k].sent <= sent[k]
                      /\ view'[k].state = "absent" => view'[k].sent = 0
                      /\ handler[k] = "none" => view'[k].state = "absent"
                      /\ handler[k] \in {"run"} \cup Result =>
                           \/ view'[k].state = "accepted"
                           \/ \E m \in 1 .. L - 1 :
                                Stream'[m].conn = k /\ Stream'[m].state = "accepted"
    BY <1>1, <1>2 DEF ViewFits
  <2>1. CASE k = i
    <3>1. view'[i].state \notin {"absent", "progress"}
      BY <1>1 DEF Result
    <3>2. view'[i].sent <= sent[i]
      BY <1>1, <1>4, <1>6
    <3>3. handler[i] \in {"run"} \cup Result => view'[i].state = "accepted"
      BY <1>1, <1>6 DEF Result
    <3> QED
      BY <1>6, <2>1, <3>1, <3>2, <3>3
  <2>2. CASE k # i
    <3>1. view'[k] = view[k]
      BY <1>1, <2>2
    <3>2. L - 1 \in 0 .. L - 1 /\ (L - 1) + 1 = L
      BY <1>1
    <3>3. (\E m \in 1 .. L : Stream[m].conn = k /\ Stream[m].state = "accepted") =>
            \E m \in 1 .. L - 1 : Stream'[m].conn = k /\ Stream'[m].state = "accepted"
      <4>1. k \in Conn \ {i}
        BY <2>2
      <4>2. (\E m \in 1 .. (L - 1) + 1 : Stream[m].conn = k /\ Stream[m].state = "accepted") =>
              \E m \in 1 .. L - 1 : Stream'[m].conn = k /\ Stream'[m].state = "accepted"
        BY <1>7, <3>2, <4>1, Zenon
      <4> QED
        BY <3>2, <4>2, Zenon
    <3> QED
      BY <3>1, <3>3 DEF EventsInv, ViewFits
  <2> QED
    BY <2>1, <2>2
<1> QED
  BY <1>8, <1>9, <1>10 DEF EventsInv

(* A handler writes and says how far it got, or finds the channel full.      *)
LEMMA ProgressKeepsEvents ==
  ASSUME TypeOK, EventsInv, NEW j \in Conn, Progress(j) \/ WriteFails(j)
  PROVE  EventsInv'
<1>1. /\ UNCHANGED <<hand, view>> /\ ReportProgress(j)
      /\ handler[j] = "run" /\ handler'[j] \in {"run"} \cup Result
      /\ \A k \in Conn \ {j} : handler'[k] = handler[k]
  BY DEF Progress, WriteFails, consumerVars, TypeOK, Result
<1>2. /\ sent[j] <= sent'[j] /\ sent'[j] \in 0 .. MaxProgress
      /\ \A k \in Conn \ {j} : sent'[k] = sent[k]
  BY SentAdvances
<1>3. CASE queue' = queue
  <2>1. \A k \in Conn : sent[k] \in Nat /\ sent[k] <= sent'[k] /\ sent'[k] \in Nat
    BY <1>2 DEF TypeOK
  <2>2. \A k \in Conn : \/ handler'[k] = handler[k]
                        \/ handler[k] = "run" /\ handler'[k] \in Result
    BY <1>1
  <2> QED
    BY <1>1, <1>3, <2>1, <2>2, QuietStep
<1>4. CASE queue' = Append(queue, [conn |-> j, state |-> "progress", sent |-> sent'[j]])
  <2> DEFINE e == [conn |-> j, state |-> "progress", sent |-> sent'[j]]
  <2>1. /\ e \in Event /\ e.conn = j /\ e.state = "progress" /\ e.sent = sent'[j]
        /\ e.state \notin Result /\ queue' = Append(queue, e)
    BY <1>2, <1>4 DEF Event, Result
  <2> HIDE DEF e
  <2>2. /\ handler[e.conn] \in {"run"} \cup Result
        /\ handler'[e.conn] # "none"
        /\ \A k \in Conn \ {e.conn} : handler'[k] = handler[k] /\ sent'[k] = sent[k]
        /\ sent[e.conn] <= e.sent /\ e.sent = sent'[e.conn] /\ sent'[e.conn] \in Nat
    BY <1>1, <1>2, <2>1 DEF Result
  <2> QED
    BY <1>1, <2>1, <2>2, HandlerSends
<1> QED
  BY <1>1, <1>3, <1>4 DEF ReportProgress

(* A handler reports its result.                                             *)
LEMMA ReportKeepsEvents ==
  ASSUME TypeOK, EventsInv, NEW j \in Conn, Report(j)
  PROVE  EventsInv'
<1> DEFINE e == [conn |-> j, state |-> handler[j], sent |-> sent[j]]
<1>1. /\ e \in Event /\ e.conn = j /\ e.state = handler[j] /\ e.sent = sent[j]
      /\ queue' = Append(queue, e)
  BY DEF Report, Enqueue, Event, TypeOK
<1>2. /\ handler[j] \in Result /\ handler' = [handler EXCEPT ![j] = "close"]
      /\ UNCHANGED <<hand, view, sent>> /\ sent[j] \in Nat
  BY DEF Report, consumerVars, TypeOK
<1>3. handler'[j] = "close" /\ \A k \in Conn \ {j} : handler'[k] = handler[k]
  BY <1>2 DEF TypeOK
<1> HIDE DEF e
<1>4. /\ e.state # "accepted" /\ e.state # "progress"
      /\ handler[e.conn] \in {"run"} \cup Result
      /\ handler'[e.conn] = "close" /\ handler'[e.conn] # "none"
      /\ \A k \in Conn \ {e.conn} : handler'[k] = handler[k] /\ sent'[k] = sent[k]
      /\ sent[e.conn] <= e.sent /\ e.sent = sent'[e.conn] /\ sent'[e.conn] \in Nat
  BY <1>1, <1>2, <1>3 DEF Result
<1> QED
  BY <1>1, <1>2, <1>4, HandlerSends

LEMMA StepKeepsEvents ==
  TypeOK /\ AcceptedInOrder /\ EventsInv /\ [Next]_vars => EventsInv'
<1> SUFFICES ASSUME TypeOK, AcceptedInOrder, EventsInv, [Next]_vars PROVE EventsInv'
  OBVIOUS
<1> USE DEF startVars, connVars, handlerVars, consumerVars
<1>1. ASSUME UNCHANGED sent PROVE \A i \in Conn : sent[i] <= sent'[i] /\ sent'[i] \in Nat
  BY <1>1 DEF TypeOK
<1>2. ASSUME UNCHANGED <<handlerVars, queue, hand, view>> PROVE EventsInv'
  BY <1>1, <1>2, QuietStep
<1>3. ASSUME CallerCancels \/ CallerStops \/ RunCancels \/ Watch \/ Accept \/ AcceptFails
               \/ Listen \/ Publish \/ Register \/ ConsumerExits
      PROVE  EventsInv'
  BY <1>2, <1>3 DEF CallerCancels, CallerStops, RunCancels, Watch, Accept, AcceptFails, Listen,
                    Publish, Register, ConsumerExits
<1>4. ASSUME NEW j \in Conn, HandlerEnds(j) \/ HandlerCloses(j) \/ HandlerDeletes(j)
      PROVE  EventsInv'
  <2>1. UNCHANGED <<hand, queue, view, sent>>
    BY <1>4 DEF HandlerEnds, HandlerCloses, HandlerDeletes
  <2>2. /\ \A i \in Conn \ {j} : handler'[i] = handler[i]
        /\ \/ handler[j] = "run" /\ handler'[j] \in Result
           \/ handler[j] = "close" /\ handler'[j] = "delete"
           \/ handler[j] = "delete" /\ handler'[j] = "done"
    BY <1>4 DEF HandlerEnds, HandlerCloses, HandlerDeletes, TypeOK
  <2> QED
    BY <1>1, <2>1, <2>2, QuietStep
<1>5. ASSUME Receive PROVE EventsInv'
  <2>1. UNCHANGED <<Stream, handler, sent, view>>
    BY <1>5, StreamStays DEF Receive
  <2> QED
    BY <2>1 DEF EventsInv, EventsInOrder, EventsFit, ViewFits
<1>6. NewestExists
  BY DEF AcceptedInOrder, NewestExists, TypeOK
<1> QED
  BY <1>2, <1>3, <1>4, <1>5, <1>6, AnnounceKeepsEvents, ApplyKeepsEvents, ProgressKeepsEvents,
     ReportKeepsEvents
     DEF Next, vars, StartStep, HandlerStep, ConsumerStep

LEMMA EventsAlways == Spec => [](StopInv /\ EventsInv)
<1>1. TypeOK /\ StopInv /\ [Next]_vars => StopInv'
  BY StepKeepsStop
<1>2. TypeOK /\ StopInv /\ EventsInv /\ [Next]_vars => EventsInv'
  BY StepKeepsEvents DEF StopInv
<1> QED
  BY <1>1, <1>2, InitStop, InitEvents, ServerTypeCorrect, PTL DEF Spec

(* The shown state of a connection only advances, however many handlers send *)
(* events into the channel and whichever of them are dropped.                *)
THEOREM ServerViewOnlyAdvances == Spec => ViewOnlyAdvances
<1>1. TypeOK /\ EventsInv /\ [Next]_vars =>
        [\A i \in Conn : view'[i] = view[i] \/ ConnectionAdvances(view[i], view'[i])]_vars
  <2> SUFFICES ASSUME TypeOK, EventsInv, Next
               PROVE  \A i \in Conn : view'[i] = view[i] \/ ConnectionAdvances(view[i], view'[i])
    OBVIOUS
  <2>1. CASE Apply
    BY <2>1, ApplyAdvances
  <2>2. CASE ~Apply
    <3>1. view' = view
      BY <2>2 DEF Next, CallerCancels, CallerStops, RunCancels, Watch, Accept, AcceptFails,
                  StartStep, Listen, Publish, Register, Announce, Progress, WriteFails, HandlerEnds,
                  HandlerStep, Report, HandlerCloses, HandlerDeletes, ConsumerStep, Receive,
                  ConsumerExits, consumerVars
    <3> QED
      BY <3>1
  <2> QED
    BY <2>1, <2>2
<1> QED
  BY <1>1, EventsAlways, ServerTypeCorrect, PTL DEF Spec, ViewOnlyAdvances
-----------------------------------------------------------------------------
(* Results.                                                                  *)

ResultOnItsWay(i) ==
  \E n \in 1 .. Len(Stream) : Stream[n].conn = i /\ Stream[n].state \in Result

(* A handler that is past its last event has left it in the list or on the   *)
(* way there.                                                                *)
ResultIsKept ==
  \A i \in Conn : handler[i] \in {"close", "delete", "done"} =>
    view[i].state \in Result \/ ResultOnItsWay(i)

(* An event that is applied is shown: what came on the way for a connection  *)
(* is still on the way or in the list, and a result in the list stays there. *)
LEMMA ApplyKeepsResult ==
  ASSUME TypeOK, EventsInv, Apply, NEW i \in Conn,
         view[i].state \in Result \/ ResultOnItsWay(i)
  PROVE  view'[i].state \in Result \/ ResultOnItsWay(i)'
<1>1. PICK e : /\ e = Stream[1] /\ e.conn \in Conn /\ Len(Stream) \in Nat \ {0}
               /\ Len(Stream') = Len(Stream) - 1
               /\ \A n \in 1 .. Len(Stream') : Stream'[n] = Stream[n + 1]
               /\ \A k \in Conn \ {e.conn} : view'[k] = view[k]
               /\ ConnectionAdvances(view[e.conn], view'[e.conn])
               /\ e.state \in Result => view'[e.conn].state = e.state
  BY ApplyAdvances DEF Result
<1>2. CASE view[i].state \in Result
  <2>1. view[i].state \notin {"absent", "accepted"}
    BY <1>2 DEF Result
  <2>2. i # e.conn
    BY <1>1, <2>1 DEF ConnectionAdvances
  <2> QED
    BY <1>1, <1>2, <2>2
<1>3. CASE ResultOnItsWay(i)
  <2>1. PICK n \in 1 .. Len(Stream) : Stream[n].conn = i /\ Stream[n].state \in Result
    BY <1>3 DEF ResultOnItsWay
  <2>2. n = 1 \/ n - 1 \in 1 .. Len(Stream')
    BY <1>1
  <2>3. CASE n = 1
    BY <1>1, <2>1, <2>3
  <2>4. CASE n - 1 \in 1 .. Len(Stream')
    <3>1. Stream'[n - 1] = Stream[n]
      BY <1>1, <2>4
    <3> QED
      BY <2>1, <2>4, <3>1 DEF ResultOnItsWay
  <2> QED
    BY <2>2, <2>3, <2>4
<1> QED
  BY <1>2, <1>3

(* An event that is sent leaves the others on their way.                     *)
LEMMA SendKeepsResult ==
  ASSUME TypeOK, NEW e \in Event, queue' = Append(queue, e), hand' = hand, NEW i \in Conn,
         ResultOnItsWay(i) \/ (e.conn = i /\ e.state \in Result)
  PROVE  ResultOnItsWay(i)'
<1>1. /\ Len(Stream') = Len(Stream) + 1 /\ Stream'[Len(Stream) + 1] = e
      /\ \A n \in 1 .. Len(Stream) : Stream'[n] = Stream[n]
  BY StreamGrows
<1>2. Len(Stream) \in Nat
  BY StreamType
<1>3. CASE ResultOnItsWay(i)
  <2>1. PICK n \in 1 .. Len(Stream) : Stream[n].conn = i /\ Stream[n].state \in Result
    BY <1>3 DEF ResultOnItsWay
  <2>2. n \in 1 .. Len(Stream') /\ Stream'[n] = Stream[n]
    BY <1>1, <1>2
  <2> QED
    BY <2>1, <2>2 DEF ResultOnItsWay
<1>4. CASE e.conn = i /\ e.state \in Result
  <2>1. Len(Stream) + 1 \in 1 .. Len(Stream')
    BY <1>1, <1>2
  <2> QED
    BY <1>1, <1>4, <2>1 DEF ResultOnItsWay
<1> QED
  BY <1>3, <1>4

LEMMA StepKeepsResult ==
  TypeOK /\ NewestExists /\ EventsInv /\ ResultIsKept /\ [Next]_vars => ResultIsKept'
<1> SUFFICES ASSUME TypeOK, NewestExists, EventsInv, ResultIsKept, [Next]_vars,
                    NEW i \in Conn, handler'[i] \in {"close", "delete", "done"}
             PROVE  view'[i].state \in Result \/ ResultOnItsWay(i)'
  BY DEF ResultIsKept
<1> USE DEF startVars, connVars, handlerVars, consumerVars
<1> DEFINE Kept == view[i].state \in Result \/ ResultOnItsWay(i)
<1>1. ASSUME handler[i] \in {"close", "delete", "done"} PROVE Kept
  BY <1>1 DEF ResultIsKept
<1>2. ASSUME Kept, UNCHANGED <<view, Stream>>
      PROVE  view'[i].state \in Result \/ ResultOnItsWay(i)'
  BY <1>2 DEF ResultOnItsWay
<1>3. ASSUME Kept, NEW e \in Event, queue' = Append(queue, e), UNCHANGED <<hand, view>>
      PROVE  view'[i].state \in Result \/ ResultOnItsWay(i)'
  BY <1>3, SendKeepsResult
<1>4. CASE UNCHANGED vars \/ CallerCancels \/ CallerStops \/ RunCancels \/ Watch \/ Accept
            \/ AcceptFails \/ Listen \/ Publish \/ Register \/ ConsumerExits
  <2>1. UNCHANGED <<handler, queue, hand, view>>
    BY <1>4 DEF vars, CallerCancels, CallerStops, RunCancels, Watch, Accept, AcceptFails,
                Listen, Publish, Register, ConsumerExits
  <2> QED
    BY <1>1, <1>2, <2>1 DEF Stream
<1>5. ASSUME NEW j \in Conn, HandlerEnds(j) \/ HandlerCloses(j) \/ HandlerDeletes(j)
      PROVE  view'[i].state \in Result \/ ResultOnItsWay(i)'
  <2>1. UNCHANGED <<queue, hand, view>>
    BY <1>5 DEF HandlerEnds, HandlerCloses, HandlerDeletes
  <2>2. handler'[i] = handler[i] \/ handler[i] \in {"close", "delete"} \/ handler'[i] \in Result
    BY <1>5 DEF HandlerEnds, HandlerCloses, HandlerDeletes, TypeOK
  <2>3. handler[i] \in {"close", "delete", "done"}
    BY <2>2 DEF Result
  <2> QED
    BY <1>1, <1>2, <2>1, <2>3 DEF Stream
<1>6. CASE Receive
  BY <1>1, <1>2, <1>6, StreamStays DEF Receive
<1>7. CASE Apply
  BY <1>1, <1>7, ApplyKeepsResult DEF Apply
<1>8. CASE Announce
  <2> DEFINE e == [conn |-> newest, state |-> "accepted", sent |-> sent[newest]]
  <2>1. e \in Event /\ queue' = Append(queue, e) /\ UNCHANGED <<hand, view>>
    BY <1>8 DEF Announce, Enqueue, Event, TypeOK, NewestExists
  <2>2. handler' = [handler EXCEPT ![newest] = "run"]
    BY <1>8 DEF Announce
  <2>3. handler[i] \in {"close", "delete", "done"}
    BY <2>2 DEF TypeOK
  <2> HIDE DEF e
  <2> QED
    BY <1>1, <1>3, <2>1, <2>3
<1>9. ASSUME NEW j \in Conn, Progress(j) \/ WriteFails(j)
      PROVE  view'[i].state \in Result \/ ResultOnItsWay(i)'
  <2>1. UNCHANGED <<hand, view>> /\ ReportProgress(j) /\ handler[i] \in {"close", "delete", "done"}
    BY <1>9 DEF Progress, WriteFails, TypeOK
  <2>2. sent'[j] \in 0 .. MaxProgress
    BY <1>9, SentAdvances
  <2>3. CASE queue' = queue
    BY <1>1, <1>2, <2>1, <2>3 DEF Stream
  <2>4. CASE queue' = Append(queue, [conn |-> j, state |-> "progress", sent |-> sent'[j]])
    <3> DEFINE e == [conn |-> j, state |-> "progress", sent |-> sent'[j]]
    <3>1. e \in Event
      BY <2>2 DEF Event
    <3> QED
      BY <1>1, <1>3, <2>1, <2>4, <3>1
  <2> QED
    BY <2>1, <2>3, <2>4 DEF ReportProgress
<1>10. ASSUME NEW j \in Conn, Report(j)
       PROVE  view'[i].state \in Result \/ ResultOnItsWay(i)'
  <2> DEFINE e == [conn |-> j, state |-> handler[j], sent |-> sent[j]]
  <2>1. /\ e \in Event /\ queue' = Append(queue, e) /\ UNCHANGED <<hand, view>>
        /\ e.conn = j /\ e.state \in Result
    BY <1>10 DEF Report, Enqueue, Event, TypeOK
  <2>2. \A k \in Conn \ {j} : handler'[k] = handler[k]
    BY <1>10 DEF Report, TypeOK
  <2> HIDE DEF e
  <2>3. CASE i = j
    BY <2>1, <2>3, SendKeepsResult
  <2>4. CASE i # j
    BY <1>1, <1>3, <2>1, <2>2, <2>4
  <2> QED
    BY <2>3, <2>4
<1> QED
  BY <1>4, <1>5, <1>6, <1>7, <1>8, <1>9, <1>10
     DEF Next, StartStep, HandlerStep, ConsumerStep

(* However full the channel was when a connection ended, its result is never *)
(* lost: when handleConn is past its last event, the connection list shows   *)
(* that result, or the event is with the consumer or in the channel.         *)
THEOREM ServerKeepsResults == Spec => []ResultIsKept
<1>1. Init => ResultIsKept
  BY DEF Init, ResultIsKept
<1>2. TypeOK /\ StopInv => NewestExists
  BY DEF StopInv, AcceptedInOrder, NewestExists, TypeOK
<1> QED
  BY <1>1, <1>2, EventsAlways, StepKeepsResult, ServerTypeCorrect, PTL DEF Spec

=============================================================================
