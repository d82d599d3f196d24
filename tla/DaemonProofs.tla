---------------------------- MODULE DaemonProofs ----------------------------
(***************************************************************************)
(* The safety of senderd as a whole, for any number of processes, clients, *)
(* requests and runs that end.                                             *)
(***************************************************************************)
EXTENDS Daemon, SequenceTheorems, TLAPS

HalfCall == {"start", "refuse", "load", "stop"}

CallSet == [name : CallName, half : Half, set : BOOLEAN]

(* The calls of a list, and the order in which a list may hold them: a call  *)
(* for the sender before one for the listener, both before a reconcile, and  *)
(* what main does about the socket after that.  No two have the same rank,   *)
(* so a list is the set of its calls.                                        *)
Steps(s) == {s[n] : n \in 1 .. Len(s)}

Rank(x) ==
  IF x.name \in HalfCall THEN IF x.half = "sender" THEN 1 ELSE 2
  ELSE CASE x.name = "reconcile" -> 3
         [] x.name = "remove" -> 4
         [] x.name = "bind" -> 5
         [] x.name = "close" -> 6
         [] x.name = "drain" -> 7
         [] x.name = "unlink" -> 8

Sorted(s) == \A m, n \in 1 .. Len(s) : m < n => Rank(s[m]) < Rank(s[n])

ListsSorted == \A g \in Thread : Sorted(todo[g])

(* Which calls a goroutine can have left.                                    *)
Has(g, name) == \E x \in Steps(todo[g]) : x.name = name

PlansFit ==
  /\ \A p \in Proc : \A x \in Steps(todo[p]) :
       \/ phase[p] = "boot" /\ x.name \in HalfCall \cup {"reconcile", "remove", "bind"}
       \/ phase[p] \in {"stop", "drain"} /\ x.name \in {"stop", "close", "drain", "unlink"}
  /\ \A c \in Caller : todo[c] # <<>> =>
       /\ at[c] \in Proc
       /\ \A x \in Steps(todo[c]) : x.name \in HalfCall \cup {"reconcile"}
  /\ \A c \in Caller : at[c] \in Proc => phase[at[c]] \in {"serve", "stop", "drain"}

PlanInv == TypeOK /\ ListsSorted /\ PlansFit

(* Main gets past the removal of the socket without an error, and then only  *)
(* the binding is left, to a name that nobody else has taken.                *)
Alone(p) == met[p] = {}

RemovedIsFree ==
  \A p \in Proc : phase[p] = "boot" /\ ~Has(p, "remove") =>
    /\ ~failed[p]
    /\ \A x \in Steps(todo[p]) : x.name = "bind"
    /\ Alone(p) => path = Nobody

FailedOnlyInBoot == \A p \in Proc : failed[p] => phase[p] = "boot"

LivingHaveMet == \A p, q \in Living : p # q => q \in met[p]

ReachInv ==
  RemovedIsFree /\ FailedOnlyInBoot /\ LivingHaveMet /\ LoneProcessIsReachable

(* Who works on the halves of a process before the signal.                   *)
Workers(p) == {g \in Thread : Host(g) = p /\ todo[g] # <<>>}

Early(p) == phase[p] \in {"boot", "serve"} /\ ~crossed[p]

Touches(x, h) == x.name = "reconcile" \/ (x.name \in HalfCall /\ x.half = h)

(* If no requests overlapped there is one worker at most, each half agrees   *)
(* with the settings or is still to be dealt with, and what is to be done    *)
(* for it fits the setting, unless the settings are to be read again.        *)
WorkOf(p) ==
  /\ \A g, k \in Workers(p) : g = k
  /\ \A h \in Half :
       Agrees(p, h) \/ \E g \in Workers(p) : \E x \in Steps(todo[g]) : Touches(x, h)
  /\ \A g \in Workers(p) : \A x \in Steps(todo[g]) :
       /\ x.name \in {"refuse", "load"} => enabled[p][x.half]
       /\ x.name = "start" => x.set \/ enabled[p][x.half]
       /\ x.name = "stop" => x.set \/ ~enabled[p][x.half] \/ Has(g, "reconcile")

WorkFits == \A p \in Proc : Early(p) => WorkOf(p)

-----------------------------------------------------------------------------
(* Lists of calls.                                                           *)

LEMMA RankType == \A x \in CallSet : Rank(x) \in 1 .. 8
  BY DEF CallSet, CallName, Rank, HalfCall

LEMMA RankNat == \A x \in CallSet : Rank(x) \in Nat
  BY RankType

LEMMA StepsType ==
  ASSUME NEW s \in Seq(CallSet)
  PROVE  /\ Len(s) \in Nat /\ Steps(s) \subseteq CallSet
         /\ Steps(s) = {} <=> s = <<>>
<1>1. Len(s) \in Nat /\ (s = <<>> => Len(s) = 0) /\ (s # <<>> => Len(s) # 0)
  BY LenProperties, EmptySeq
<1>2. Steps(s) \subseteq CallSet
  BY ElementOfSeq DEF Steps
<1>3. ASSUME s # <<>> PROVE s[1] \in Steps(s)
  BY <1>1, <1>3 DEF Steps
<1>4. ASSUME s = <<>> PROVE Steps(s) = {}
  BY <1>1, <1>4 DEF Steps
<1> QED
  BY <1>1, <1>2, <1>3, <1>4

LEMMA StepsOfTail ==
  ASSUME NEW s \in Seq(CallSet), s # <<>>, Sorted(s)
  PROVE  /\ Head(s) \in Steps(s) /\ Head(s) \in CallSet
         /\ Tail(s) \in Seq(CallSet) /\ Sorted(Tail(s))
         /\ Steps(Tail(s)) = Steps(s) \ {Head(s)}
         /\ \A x \in Steps(Tail(s)) : Rank(Head(s)) < Rank(x)
<1>1. /\ Len(s) \in Nat \ {0} /\ Head(s) = s[1] /\ Head(s) \in CallSet
      /\ Tail(s) \in Seq(CallSet) /\ Len(Tail(s)) = Len(s) - 1
      /\ \A n \in 1 .. Len(s) - 1 : Tail(s)[n] = s[n + 1]
  BY HeadTailProperties, EmptySeq
<1>2. \A n \in 1 .. Len(s) : s[n] \in CallSet /\ Rank(s[n]) \in 1 .. 8
  BY ElementOfSeq, RankType
<1>3. \A n \in 2 .. Len(s) : Rank(s[1]) < Rank(s[n]) /\ s[n] # s[1]
  <2> SUFFICES ASSUME NEW n \in 2 .. Len(s) PROVE Rank(s[1]) < Rank(s[n]) /\ s[n] # s[1]
    OBVIOUS
  <2>1. 1 \in 1 .. Len(s) /\ n \in 1 .. Len(s) /\ 1 < n
    BY <1>1
  <2>2. Rank(s[1]) < Rank(s[n])
    BY <2>1 DEF Sorted
  <2>3. Rank(s[1]) \in Nat /\ Rank(s[n]) \in Nat
    BY <1>2, <2>1
  <2>4. ASSUME s[n] = s[1] PROVE Rank(s[n]) = Rank(s[1])
    BY <2>4, Zenon
  <2> QED
    BY <2>2, <2>3, <2>4
<1>4. Steps(Tail(s)) = {s[n] : n \in 2 .. Len(s)}
  <2>1. Steps(Tail(s)) = {Tail(s)[n] : n \in 1 .. Len(s) - 1}
    BY <1>1 DEF Steps
  <2>2. \A n \in 2 .. Len(s) : n - 1 \in 1 .. Len(s) - 1 /\ (n - 1) + 1 = n
    BY <1>1
  <2>3. \A n \in 1 .. Len(s) - 1 : n + 1 \in 2 .. Len(s)
    BY <1>1
  <2>4. ASSUME NEW n \in 2 .. Len(s) PROVE s[n] \in {Tail(s)[m] : m \in 1 .. Len(s) - 1}
    <3>1. Tail(s)[n - 1] = s[n]
      BY <1>1, <2>2
    <3> QED
      BY <2>2, <3>1
  <2>5. ASSUME NEW n \in 1 .. Len(s) - 1 PROVE Tail(s)[n] \in {s[m] : m \in 2 .. Len(s)}
    <3>1. Tail(s)[n] = s[n + 1]
      BY <1>1
    <3> QED
      BY <2>3, <3>1
  <2> QED
    BY <2>1, <2>4, <2>5
<1>5. Steps(s) = {s[1]} \cup {s[n] : n \in 2 .. Len(s)}
  <2>1. 1 .. Len(s) = {1} \cup 2 .. Len(s)
    BY <1>1
  <2> QED
    BY <2>1 DEF Steps
<1>6. Steps(Tail(s)) = Steps(s) \ {Head(s)}
  BY <1>1, <1>3, <1>4, <1>5
<1>7. \A x \in Steps(Tail(s)) : Rank(Head(s)) < Rank(x)
  BY <1>1, <1>3, <1>4
<1>8. Sorted(Tail(s))
  <2> SUFFICES ASSUME NEW m \in 1 .. Len(s) - 1, NEW n \in 1 .. Len(s) - 1, m < n
               PROVE  Rank(Tail(s)[m]) < Rank(Tail(s)[n])
    BY <1>1 DEF Sorted
  <2>1. m + 1 \in 1 .. Len(s) /\ n + 1 \in 1 .. Len(s) /\ m + 1 < n + 1
    BY <1>1
  <2>2. Tail(s)[m] = s[m + 1] /\ Tail(s)[n] = s[n + 1]
    BY <1>1
  <2> QED
    BY <2>1, <2>2 DEF Sorted
<1> QED
  BY <1>1, <1>5, <1>6, <1>7, <1>8

LEMMA StepsOfConcat ==
  ASSUME NEW s \in Seq(CallSet), NEW t \in Seq(CallSet), Sorted(s), Sorted(t),
         \A x \in Steps(s), y \in Steps(t) : Rank(x) < Rank(y)
  PROVE  /\ s \o t \in Seq(CallSet) /\ Sorted(s \o t)
         /\ Steps(s \o t) = Steps(s) \cup Steps(t)
<1> DEFINE k == Len(s)  l == Len(t)  u == s \o t
<1>1. k \in Nat /\ l \in Nat
  BY LenProperties
<1>2. /\ u \in Seq(CallSet) /\ Len(u) = k + l
      /\ \A n \in 1 .. k + l : u[n] = IF n <= k THEN s[n] ELSE t[n - k]
  BY ConcatProperties
<1> HIDE DEF k, l, u
<1>3. \A n \in 1 .. k : n \in 1 .. k + l /\ u[n] = s[n]
  BY <1>1, <1>2
<1>4. \A n \in 1 .. l : n + k \in 1 .. k + l /\ u[n + k] = t[n]
  <2> SUFFICES ASSUME NEW n \in 1 .. l PROVE n + k \in 1 .. k + l /\ u[n + k] = t[n]
    OBVIOUS
  <2>1. n + k \in 1 .. k + l /\ ~(n + k <= k) /\ (n + k) - k = n
    BY <1>1
  <2> QED
    BY <1>2, <2>1
<1>5. \A n \in 1 .. k + l : n \in 1 .. k \/ (n - k \in 1 .. l /\ (n - k) + k = n)
  BY <1>1
<1>6. Steps(u) = Steps(s) \cup Steps(t)
  <2>1. Steps(s) \subseteq Steps(u)
    BY <1>2, <1>3 DEF Steps, k
  <2>2. Steps(t) \subseteq Steps(u)
    BY <1>2, <1>4 DEF Steps, l
  <2>3. ASSUME NEW n \in 1 .. k + l PROVE u[n] \in Steps(s) \cup Steps(t)
    <3>1. CASE n \in 1 .. k
      BY <1>3, <3>1 DEF Steps, k
    <3>2. CASE n - k \in 1 .. l /\ (n - k) + k = n
      <4>1. u[n] = t[n - k]
        BY <1>4, <3>2
      <4> QED
        BY <3>2, <4>1 DEF Steps, l
    <3> QED
      BY <1>5, <3>1, <3>2
  <2> QED
    BY <1>2, <2>1, <2>2, <2>3, ZenonT(60) DEF Steps
<1>7. Sorted(u)
  <2> SUFFICES ASSUME NEW m \in 1 .. k + l, NEW n \in 1 .. k + l, m < n
               PROVE  Rank(u[m]) < Rank(u[n])
    BY <1>2 DEF Sorted
  <2>1. CASE m \in 1 .. k /\ n \in 1 .. k
    BY <1>3, <2>1 DEF Sorted, k
  <2>2. CASE m \in 1 .. k /\ n \notin 1 .. k
    <3>1. n - k \in 1 .. l /\ u[n] = t[n - k] /\ u[m] = s[m]
      BY <1>3, <1>4, <1>5, <2>2
    <3> QED
      BY <2>2, <3>1 DEF Steps, k, l
  <2>3. CASE m \notin 1 .. k
    <3>1. n \notin 1 .. k
      BY <1>1, <2>3
    <3>2. /\ n - k \in 1 .. l /\ u[n] = t[n - k] /\ m - k \in 1 .. l /\ u[m] = t[m - k]
          /\ m - k < n - k
      BY <1>1, <1>4, <1>5, <2>3, <3>1
    <3> QED
      BY <3>2 DEF Sorted, l
  <2> QED
    BY <2>1, <2>2, <2>3
<1> QED
  BY <1>2, <1>6, <1>7 DEF u

LEMMA ShortLists ==
  /\ <<>> \in Seq(CallSet) /\ Steps(<<>>) = {} /\ Sorted(<<>>)
  /\ \A x \in CallSet : <<x>> \in Seq(CallSet) /\ Steps(<<x>>) = {x} /\ Sorted(<<x>>)
  /\ \A x, y \in CallSet : Rank(x) < Rank(y) =>
       /\ <<x, y>> \in Seq(CallSet) /\ Steps(<<x, y>>) = {x, y} /\ Sorted(<<x, y>>)
<1>1. <<>> \in Seq(CallSet) /\ Steps(<<>>) = {} /\ Sorted(<<>>)
  <2>1. <<>> \in Seq(CallSet) /\ Len(<<>>) = 0
    BY EmptySeq
  <2> QED
    BY <2>1 DEF Steps, Sorted
<1>2. ASSUME NEW x \in CallSet
      PROVE  <<x>> \in Seq(CallSet) /\ Steps(<<x>>) = {x} /\ Sorted(<<x>>)
  <2>1. <<x>> \in Seq(CallSet) /\ Len(<<x>>) = 1 /\ <<x>>[1] = x
    OBVIOUS
  <2>2. 1 .. 1 = {1}
    OBVIOUS
  <2> QED
    BY <2>1, <2>2 DEF Steps, Sorted
<1>3. ASSUME NEW x \in CallSet, NEW y \in CallSet, Rank(x) < Rank(y)
      PROVE  /\ <<x, y>> \in Seq(CallSet) /\ Steps(<<x, y>>) = {x, y} /\ Sorted(<<x, y>>)
  <2>1. /\ <<x, y>> \in Seq(CallSet) /\ Len(<<x, y>>) = 2
        /\ <<x, y>>[1] = x /\ <<x, y>>[2] = y
    OBVIOUS
  <2>2. 1 .. 2 = {1, 2}
    OBVIOUS
  <2>3. Steps(<<x, y>>) = {x, y}
    BY <2>1, <2>2 DEF Steps
  <2>4. \A m, n \in 1 .. 2 : m < n => m = 1 /\ n = 2
    BY <2>2
  <2>5. Sorted(<<x, y>>)
    BY <1>3, <2>1, <2>4 DEF Sorted
  <2> QED
    BY <2>1, <2>3, <2>5
<1> QED
  BY <1>1, <1>2, <1>3

LEMMA CallFields ==
  ASSUME NEW name \in CallName, NEW h \in Half, NEW set \in BOOLEAN
  PROVE  /\ Call(name, h, set) \in CallSet
         /\ Call(name, h, set).name = name /\ Call(name, h, set).half = h
         /\ Call(name, h, set).set = set
BY DEF Call, CallSet

LEMMA CallRank ==
  ASSUME NEW name \in CallName, NEW h \in Half, NEW set \in BOOLEAN, name \in HalfCall
  PROVE  Rank(Call(name, h, set)) = IF h = "sender" THEN 1 ELSE 2
<1>1. Call(name, h, set).name = name /\ Call(name, h, set).half = h
  BY CallFields, Zenon
<1> QED
  BY <1>1 DEF Rank

LEMMA PlainType ==
  /\ \A name \in CallName : Plain(name) \in CallSet /\ Plain(name).name = name
  /\ Rank(Plain("reconcile")) = 3 /\ Rank(Plain("remove")) = 4 /\ Rank(Plain("bind")) = 5
  /\ Rank(Plain("close")) = 6 /\ Rank(Plain("drain")) = 7 /\ Rank(Plain("unlink")) = 8
<1>1. \A name \in CallName : Plain(name) \in CallSet /\ Plain(name).name = name
  BY DEF Plain, Call, CallSet, Half
<1>2. /\ Rank(Plain("reconcile")) = 3 /\ Rank(Plain("remove")) = 4 /\ Rank(Plain("bind")) = 5
      /\ Rank(Plain("close")) = 6 /\ Rank(Plain("drain")) = 7 /\ Rank(Plain("unlink")) = 8
  BY DEF Rank, Plain, Call, HalfCall
<1> QED
  BY <1>1, <1>2

(* What main and a request set out to do.                                    *)
LEMMA BootList ==
  LET s == <<Plain("reconcile"), Plain("remove"), Plain("bind")>> IN
  /\ s \in Seq(CallSet) /\ Sorted(s)
  /\ Steps(s) = {Plain("reconcile"), Plain("remove"), Plain("bind")}
<1> DEFINE a == Plain("reconcile")  b == Plain("remove")  c == Plain("bind")
<1>1. /\ a \in CallSet /\ b \in CallSet /\ c \in CallSet
      /\ Rank(a) = 3 /\ Rank(b) = 4 /\ Rank(c) = 5
  BY PlainType DEF CallName
<1> HIDE DEF a, b, c
<1>2. /\ <<a>> \in Seq(CallSet) /\ Steps(<<a>>) = {a} /\ Sorted(<<a>>)
      /\ <<b, c>> \in Seq(CallSet) /\ Steps(<<b, c>>) = {b, c} /\ Sorted(<<b, c>>)
  BY <1>1, ShortLists
<1>3. \A x \in Steps(<<a>>), y \in Steps(<<b, c>>) : Rank(x) < Rank(y)
  BY <1>1, <1>2
<1>4. <<a, b, c>> = <<a>> \o <<b, c>>
  OBVIOUS
<1>5. /\ <<a, b, c>> \in Seq(CallSet) /\ Sorted(<<a, b, c>>)
      /\ Steps(<<a, b, c>>) = {a} \cup {b, c}
  BY <1>2, <1>3, <1>4, StepsOfConcat, ZenonT(60)
<1> QED
  BY <1>5 DEF a, b, c

LEMMA SignalList ==
  LET s == <<Call("stop", "sender", FALSE), Call("stop", "listener", FALSE),
             Plain("close"), Plain("drain"), Plain("unlink")>> IN
  /\ s \in Seq(CallSet) /\ Sorted(s) /\ s # <<>>
  /\ \A x \in Steps(s) : x.name \in {"stop", "close", "drain", "unlink"}
  /\ \A h \in Half : \E x \in Steps(s) : x.name = "stop" /\ x.half = h
<1> DEFINE a == Call("stop", "sender", FALSE)  b == Call("stop", "listener", FALSE)
           c == Plain("close")  d == Plain("drain")  e == Plain("unlink")
<1>1. /\ a \in CallSet /\ b \in CallSet /\ c \in CallSet /\ d \in CallSet /\ e \in CallSet
      /\ Rank(a) = 1 /\ Rank(b) = 2 /\ Rank(c) = 6 /\ Rank(d) = 7 /\ Rank(e) = 8
      /\ a.name = "stop" /\ b.name = "stop" /\ c.name = "close" /\ d.name = "drain"
      /\ e.name = "unlink"
  <2>1. /\ a \in CallSet /\ a.name = "stop" /\ Rank(a) = 1
        /\ b \in CallSet /\ b.name = "stop" /\ Rank(b) = 2
    BY DEF Call, CallSet, CallName, Half, Rank, HalfCall
  <2>2. /\ c \in CallSet /\ d \in CallSet /\ e \in CallSet
        /\ Rank(c) = 6 /\ Rank(d) = 7 /\ Rank(e) = 8
        /\ c.name = "close" /\ d.name = "drain" /\ e.name = "unlink"
    BY PlainType DEF CallName
  <2> QED
    BY <2>1, <2>2
<1>0. a.half = "sender" /\ b.half = "listener"
  BY DEF Call
<1> HIDE DEF a, b, c, d, e
<1>2. /\ <<a, b>> \in Seq(CallSet) /\ Steps(<<a, b>>) = {a, b} /\ Sorted(<<a, b>>)
      /\ <<c>> \in Seq(CallSet) /\ Steps(<<c>>) = {c} /\ Sorted(<<c>>)
      /\ <<d, e>> \in Seq(CallSet) /\ Steps(<<d, e>>) = {d, e} /\ Sorted(<<d, e>>)
  BY <1>1, ShortLists
<1>3. \A x \in Steps(<<c>>), y \in Steps(<<d, e>>) : Rank(x) < Rank(y)
  BY <1>1, <1>2
<1>4. /\ <<c>> \o <<d, e>> \in Seq(CallSet) /\ Sorted(<<c>> \o <<d, e>>)
      /\ Steps(<<c>> \o <<d, e>>) = {c} \cup {d, e}
  BY <1>2, <1>3, StepsOfConcat
<1>5. \A x \in Steps(<<a, b>>), y \in Steps(<<c>> \o <<d, e>>) : Rank(x) < Rank(y)
  BY <1>1, <1>2, <1>4
<1>6. <<a, b, c, d, e>> = <<a, b>> \o (<<c>> \o <<d, e>>)
  OBVIOUS
<1>7. /\ <<a, b, c, d, e>> \in Seq(CallSet) /\ Sorted(<<a, b, c, d, e>>)
      /\ Steps(<<a, b, c, d, e>>) = {a, b} \cup ({c} \cup {d, e})
  <2> DEFINE s == <<a, b>>  t == <<c>> \o <<d, e>>
  <2>1. s \in Seq(CallSet) /\ t \in Seq(CallSet) /\ Sorted(s) /\ Sorted(t)
    BY <1>2, <1>4, Zenon
  <2>2. \A x \in Steps(s), y \in Steps(t) : Rank(x) < Rank(y)
    BY <1>5, Zenon
  <2>3. Steps(s) = {a, b} /\ Steps(t) = {c} \cup {d, e}
    BY <1>2, <1>4, Zenon
  <2>4. <<a, b, c, d, e>> = s \o t
    BY <1>6, Zenon
  <2> HIDE DEF s, t
  <2>5. s \o t \in Seq(CallSet) /\ Sorted(s \o t) /\ Steps(s \o t) = Steps(s) \cup Steps(t)
    BY <2>1, <2>2, StepsOfConcat, Zenon
  <2> QED
    BY <2>3, <2>4, <2>5, Zenon
<1>8. <<a, b, c, d, e>> # <<>>
  OBVIOUS
<1>9. \A h \in Half : \E x \in {a, b} \cup ({c} \cup {d, e}) : x.name = "stop" /\ x.half = h
  BY <1>1, <1>0 DEF Half
<1> QED
  BY <1>1, <1>7, <1>8, <1>9 DEF a, b, c, d, e

(* The first call of a goroutine is replaced by others.                      *)
LEMMA ThenType ==
  ASSUME todo \in [Thread -> Seq(CallSet)], ListsSorted, NEW g \in Thread, todo[g] # <<>>,
         NEW calls \in Seq(CallSet), Sorted(calls), Then(g, calls),
         \A x \in Steps(calls) : Rank(x) <= Rank(Head(todo[g]))
  PROVE  /\ todo' \in [Thread -> Seq(CallSet)] /\ ListsSorted'
         /\ Head(todo[g]) \in Steps(todo[g]) /\ Head(todo[g]) \in CallSet
         /\ Steps(todo'[g]) = Steps(calls) \cup (Steps(todo[g]) \ {Head(todo[g])})
         /\ \A x \in Steps(todo[g]) \ {Head(todo[g])} : Rank(Head(todo[g])) < Rank(x)
         /\ \A k \in Thread \ {g} : todo'[k] = todo[k]
<1> DEFINE s == todo[g]  t == calls \o Tail(s)
<1>1. /\ Head(s) \in Steps(s) /\ Head(s) \in CallSet
      /\ Tail(s) \in Seq(CallSet) /\ Sorted(Tail(s))
      /\ Steps(Tail(s)) = Steps(s) \ {Head(s)}
      /\ \A x \in Steps(Tail(s)) : Rank(Head(s)) < Rank(x)
  BY StepsOfTail DEF ListsSorted
<1>2. \A x \in Steps(calls), y \in Steps(Tail(s)) : Rank(x) < Rank(y)
  <2> SUFFICES ASSUME NEW x \in Steps(calls), NEW y \in Steps(Tail(s)) PROVE Rank(x) < Rank(y)
    OBVIOUS
  <2>1. x \in CallSet /\ y \in CallSet
    BY <1>1, StepsType
  <2>2. Rank(x) \in Nat /\ Rank(y) \in Nat /\ Rank(Head(s)) \in Nat
    <3> QED
      BY <1>1, <2>1, RankNat, Zenon
  <2>3. Rank(x) <= Rank(Head(s)) /\ Rank(Head(s)) < Rank(y)
    BY <1>1, Zenon
  <2> QED
    BY <2>2, <2>3
<1>3. t \in Seq(CallSet) /\ Sorted(t) /\ Steps(t) = Steps(calls) \cup Steps(Tail(s))
  BY <1>1, <1>2, StepsOfConcat
<1>4. todo' = [todo EXCEPT ![g] = t]
  BY DEF Then
<1> HIDE DEF t
<1>5. todo'[g] = t /\ \A k \in Thread \ {g} : todo'[k] = todo[k]
  BY <1>4
<1>6. todo' \in [Thread -> Seq(CallSet)]
  BY <1>3, <1>4
<1>7. ListsSorted'
  BY <1>3, <1>5 DEF ListsSorted
<1> QED
  BY <1>1, <1>3, <1>5, <1>6, <1>7

-----------------------------------------------------------------------------
(* Types and plans.                                                          *)

LEMMA ProcIsNoCaller == Proc \subseteq Nat /\ Nobody \notin Proc /\ Caller \cap Proc = {}
  BY DaemonAssumption DEF Proc, Nobody

LEMMA HostType ==
  ASSUME PlanInv, NEW g \in Thread, todo[g] # <<>>
  PROVE  /\ todo[g] \in Seq(CallSet) /\ Host(g) \in Proc
         /\ Head(todo[g]) \in CallSet /\ Head(todo[g]) \in Steps(todo[g])
         /\ Head(todo[g]).half \in Half /\ Head(todo[g]).set \in BOOLEAN
         /\ phase[Host(g)] \in {"boot", "serve", "stop", "drain"}
         /\ g \in Proc => Host(g) = g /\ phase[g] # "serve"
         /\ g \in Caller => Host(g) = at[g] /\ phase[Host(g)] # "boot"
<1>1. todo[g] \in Seq(CallSet) /\ Sorted(todo[g])
  BY DEF PlanInv, TypeOK, ListsSorted, CallSet
<1>2. Head(todo[g]) \in CallSet /\ Head(todo[g]) \in Steps(todo[g])
  BY <1>1, StepsOfTail
<1>3. CASE g \in Proc
  BY <1>1, <1>2, <1>3, ProcIsNoCaller DEF PlanInv, PlansFit, Host, CallSet
<1>4. CASE g \in Caller
  <2>1. g \notin Proc /\ Host(g) = at[g] /\ at[g] \in Proc
    BY <1>4, ProcIsNoCaller DEF PlanInv, PlansFit, Host
  <2>2. phase[at[g]] \in {"serve", "stop", "drain"}
    BY <1>4, <2>1 DEF PlanInv, PlansFit
  <2> QED
    BY <1>1, <1>2, <2>1, <2>2 DEF CallSet
<1> QED
  BY <1>3, <1>4 DEF Thread

(* What a call into daemon.go puts in its own place.                         *)
LEMMA CallStepShape ==
  ASSUME PlanInv, NEW g \in Thread, CallStep(g)
  PROVE  /\ todo[g] # <<>>
         /\ UNCHANGED <<phase, at, haveFiles, path, budget, crossed, late, met>>
         /\ failed' = failed \/ (failed' = [p \in Proc |-> failed[p] \/ p = g]
                                 /\ Head(todo[g]).name \in HalfCall)
         /\ \E calls \in Seq(CallSet) :
              /\ Then(g, calls) /\ Sorted(calls)
              /\ \A x \in Steps(calls) : /\ x.name \in HalfCall /\ Rank(x) <= Rank(Head(todo[g]))
                                         /\ Head(todo[g]).name \in {"start", "reconcile"}
<1> USE DEF historyVars, daemonVars
<1> DEFINE x == Head(todo[g])  h == x.half
<1>1. todo[g] # <<>>
  BY DEF CallStep, StartCheck, StartFails, Install, StopHalf, Reconcile, Making
<1>2. UNCHANGED <<phase, at, haveFiles, path, budget, crossed, late, met>>
  BY DEF CallStep, StartCheck, StartFails, Install, StopHalf, Reconcile
<1>3. /\ x \in CallSet /\ h \in Half /\ Rank(x) \in Nat
      /\ x.name \in HalfCall => Rank(x) = IF h = "sender" THEN 1 ELSE 2
      /\ x.name = "reconcile" => Rank(x) = 3
  <2>1. x \in CallSet /\ h \in Half
    BY <1>1, HostType
  <2>2. Rank(x) \in 1 .. 8
    BY <2>1, RankType
  <2>3. Rank(x) \in Nat
    BY <2>2
  <2> HIDE DEF x
  <2>4. x.name \in HalfCall => Rank(x) = IF x.half = "sender" THEN 1 ELSE 2
    BY DEF Rank
  <2>5. x.name = "reconcile" => Rank(x) = 3
    BY DEF Rank, HalfCall
  <2> QED
    BY <2>1, <2>3, <2>4, <2>5
<1>4. <<>> \in Seq(CallSet) /\ Sorted(<<>>) /\ Steps(<<>>) = {}
  BY ShortLists
<1>5. CASE StartCheck(g)
  <2>1. x.name = "start"
    BY <1>5 DEF StartCheck, Making
  <2>2. PICK calls \in {<<>>, <<Call("refuse", h, FALSE)>>, <<Call("load", h, FALSE)>>} : Then(g, calls)
    BY <1>5 DEF StartCheck
  <2>3. ASSUME NEW name \in {"refuse", "load"}
        PROVE  LET c == Call(name, h, FALSE) IN
               /\ c \in CallSet /\ c.name \in HalfCall /\ Rank(c) <= Rank(x)
               /\ <<c>> \in Seq(CallSet) /\ Sorted(<<c>>) /\ Steps(<<c>>) = {c}
    <3> DEFINE c == Call(name, h, FALSE)
    <3>1. name \in CallName /\ name \in HalfCall
      BY DEF CallName, HalfCall
    <3>2. c \in CallSet /\ c.name = name /\ Rank(c) = IF h = "sender" THEN 1 ELSE 2
      <4>1. h \in Half /\ FALSE \in BOOLEAN
        BY <1>3
      <4>2. c \in CallSet /\ c.name = name
        BY <3>1, <4>1, CallFields, Zenon
      <4>3. Rank(c) = IF h = "sender" THEN 1 ELSE 2
        BY <3>1, <4>1, CallRank, Zenon
      <4> QED
        BY <4>2, <4>3
    <3> HIDE DEF c
    <3>3. Rank(x) = IF h = "sender" THEN 1 ELSE 2
      BY <1>3, <2>1 DEF HalfCall
    <3>4. Rank(c) <= Rank(x)
      BY <3>2, <3>3
    <3>5. <<c>> \in Seq(CallSet) /\ Sorted(<<c>>) /\ Steps(<<c>>) = {c}
      BY <3>2, ShortLists
    <3> QED
      BY <3>1, <3>2, <3>4, <3>5 DEF c
  <2>4. /\ calls \in Seq(CallSet) /\ Sorted(calls)
        /\ \A y \in Steps(calls) : y.name \in HalfCall /\ Rank(y) <= Rank(x)
    <3>1. CASE calls = <<>>
      BY <1>4, <3>1, Zenon
    <3>2. CASE calls = <<Call("refuse", h, FALSE)>>
      BY <2>3, <3>2
    <3>3. CASE calls = <<Call("load", h, FALSE)>>
      BY <2>3, <3>3
    <3> QED
      BY <2>2, <3>1, <3>2, <3>3
  <2>5. failed' = failed
    BY <1>5 DEF StartCheck
  <2> QED
    BY <1>1, <1>2, <2>1, <2>2, <2>4, <2>5, SMTT(60)
<1>6. CASE StartFails(g)
  <2>1. Then(g, <<>>) /\ failed' = [p \in Proc |-> failed[p] \/ p = g] /\ x.name \in HalfCall
    BY <1>6 DEF StartFails, Making, HalfCall
  <2> QED
    BY <1>1, <1>2, <1>4, <2>1, Zenon
<1>7. CASE Install(g) \/ StopHalf(g)
  <2>1. Then(g, <<>>) /\ failed' = failed
    BY <1>7 DEF Install, StopHalf
  <2> QED
    BY <1>1, <1>2, <1>4, <2>1, Zenon
<1>8. CASE Reconcile(g)
  <2> DEFINE on == enabled[Host(g)]
             a == Call(IF on["sender"] THEN "start" ELSE "stop", "sender", FALSE)
             b == Call(IF on["listener"] THEN "start" ELSE "stop", "listener", FALSE)
  <2>1. Then(g, <<a, b>>) /\ failed' = failed /\ x.name = "reconcile"
    BY <1>8 DEF Reconcile, Making
  <2>2. /\ a \in CallSet /\ a.name \in HalfCall /\ Rank(a) = 1
        /\ b \in CallSet /\ b.name \in HalfCall /\ Rank(b) = 2
    BY DEF Call, CallSet, CallName, Half, Rank, HalfCall
  <2> HIDE DEF a, b
  <2>3. <<a, b>> \in Seq(CallSet) /\ Sorted(<<a, b>>) /\ Steps(<<a, b>>) = {a, b}
    BY <2>2, ShortLists
  <2>4. \A y \in Steps(<<a, b>>) : y.name \in HalfCall /\ Rank(y) <= Rank(x)
    BY <1>3, <2>1, <2>2, <2>3
  <2> QED
    BY <1>1, <1>2, <2>1, <2>3, <2>4, Zenon
<1> QED
  BY <1>5, <1>6, <1>7, <1>8, SMTT(60) DEF CallStep

LEMMA CallStepKeepsPlans ==
  ASSUME PlanInv, NEW g \in Thread, CallStep(g)
  PROVE  /\ todo' \in [Thread -> Seq(CallSet)] /\ ListsSorted' /\ PlansFit'
         /\ \A k \in Thread \ {g} : todo'[k] = todo[k]
         /\ \A x \in Steps(todo[g]) : x # Head(todo[g]) => x \in Steps(todo'[g])
<1>1. PICK calls \in Seq(CallSet) :
        /\ todo[g] # <<>> /\ Then(g, calls) /\ Sorted(calls)
        /\ \A x \in Steps(calls) : /\ x.name \in HalfCall /\ Rank(x) <= Rank(Head(todo[g]))
                                   /\ Head(todo[g]).name \in {"start", "reconcile"}
  BY CallStepShape
<1>2. UNCHANGED <<phase, at>>
  BY CallStepShape
<1>3. /\ todo' \in [Thread -> Seq(CallSet)] /\ ListsSorted'
      /\ Head(todo[g]) \in Steps(todo[g]) /\ Head(todo[g]) \in CallSet
      /\ Steps(todo'[g]) = Steps(calls) \cup (Steps(todo[g]) \ {Head(todo[g])})
      /\ \A k \in Thread \ {g} : todo'[k] = todo[k]
  BY <1>1, ThenType DEF PlanInv, TypeOK, CallSet
<1>4. \A p \in Proc : \A x \in Steps(todo'[p]) :
        \/ phase[p] = "boot" /\ x.name \in HalfCall \cup {"reconcile", "remove", "bind"}
        \/ phase[p] \in {"stop", "drain"} /\ x.name \in {"stop", "close", "drain", "unlink"}
  <2> SUFFICES ASSUME NEW p \in Proc, NEW x \in Steps(todo'[p])
               PROVE  \/ phase[p] = "boot" /\ x.name \in HalfCall \cup {"reconcile", "remove", "bind"}
                      \/ /\ phase[p] \in {"stop", "drain"}
                         /\ x.name \in {"stop", "close", "drain", "unlink"}
    OBVIOUS
  <2>1. p \in Thread
    BY DEF Thread
  <2>2. CASE x \in Steps(todo[p])
    BY <2>2 DEF PlanInv, PlansFit
  <2>3. CASE x \notin Steps(todo[p])
    <3>1. p = g
      BY <1>3, <2>1, <2>3
    <3>2. x \in Steps(calls)
      BY <1>3, <2>3, <3>1
    <3>3. x.name \in HalfCall /\ Head(todo[g]).name \in {"start", "reconcile"}
      BY <1>1, <3>2
    <3>4. phase[p] = "boot"
      BY <1>3, <3>1, <3>3 DEF PlanInv, PlansFit
    <3> QED
      BY <3>3, <3>4
  <2> QED
    BY <2>2, <2>3
<1>5. ASSUME NEW c \in Caller, todo'[c] # <<>>
      PROVE  at[c] \in Proc /\ \A x \in Steps(todo'[c]) : x.name \in HalfCall \cup {"reconcile"}
  <2>1. todo[c] # <<>>
    BY <1>1, <1>3, <1>5 DEF Thread
  <2>2. at[c] \in Proc /\ \A x \in Steps(todo[c]) : x.name \in HalfCall \cup {"reconcile"}
    BY <2>1 DEF PlanInv, PlansFit
  <2> QED
    BY <1>1, <1>3, <2>2 DEF Thread
<1>6. PlansFit'
  BY <1>2, <1>4, <1>5 DEF PlanInv, PlansFit
<1> QED
  BY <1>3, <1>6

LEMMA CallStepKeepsTypes ==
  ASSUME PlanInv, NEW g \in Thread, CallStep(g)
  PROVE  TypeOK'
<1> USE DEF historyVars, daemonVars
<1> DEFINE p == Host(g)  h == Head(todo[g]).half  set == Head(todo[g]).set
<1>1. /\ todo[g] # <<>>
      /\ UNCHANGED <<phase, at, haveFiles, path, budget, crossed, late, met>>
      /\ failed' = failed \/ failed' = [q \in Proc |-> failed[q] \/ q = g]
  BY CallStepShape
<1>2. p \in Proc /\ h \in Half /\ set \in BOOLEAN
  BY <1>1, HostType
<1>3. todo' \in [Thread -> Seq(CallSet)]
  BY CallStepKeepsPlans
<1>4. \A q \in Proc : phase[q] = "serve" => todo'[q] = <<>>
  <2> SUFFICES ASSUME NEW q \in Proc, phase[q] = "serve" PROVE todo'[q] = <<>>
    OBVIOUS
  <2>1. q # g
    BY <1>1, HostType
  <2>2. todo'[q] = todo[q]
    BY <2>1, CallStepKeepsPlans DEF Thread
  <2> QED
    BY <2>2 DEF PlanInv, TypeOK
<1>5. failed' \in [Proc -> BOOLEAN]
  BY <1>1 DEF PlanInv, TypeOK
<1>6. /\ enabled' \in [Proc -> [Half -> BOOLEAN]] /\ running' \in [Proc -> [Half -> BOOLEAN]]
      /\ lastError' \in [Proc -> [Half -> BOOLEAN]] /\ lapsed' \in SUBSET Proc
  <2>1. CASE StartCheck(g)
    BY <1>2, <2>1 DEF StartCheck, PlanInv, TypeOK
  <2>2. CASE StartFails(g)
    BY <1>2, <2>2 DEF StartFails, PlanInv, TypeOK
  <2>3. CASE Install(g)
    BY <1>2, <2>3 DEF Install, PlanInv, TypeOK
  <2>4. CASE StopHalf(g)
    BY <1>2, <2>4 DEF StopHalf, PlanInv, TypeOK
  <2>5. CASE Reconcile(g)
    BY <2>5 DEF Reconcile, PlanInv, TypeOK
  <2> QED
    BY <2>1, <2>2, <2>3, <2>4, <2>5 DEF CallStep
<1> QED
  BY <1>1, <1>3, <1>4, <1>5, <1>6 DEF PlanInv, TypeOK, CallSet

(* Main's own calls are done in the order of their ranks.                    *)
LEMMA MainCall ==
  ASSUME PlanInv, NEW p \in Proc, NEW name \in CallName, Making(p, name)
  PROVE  /\ todo[p] # <<>> /\ Host(p) = p /\ p \in Thread
         /\ name \in {"remove", "bind"} => phase[p] = "boot"
         /\ name \in {"close", "drain", "unlink"} => phase[p] \in {"stop", "drain"}
         /\ \A x \in Steps(todo[p]) \ {Head(todo[p])} : Rank(Head(todo[p])) < Rank(x)
         /\ name = "bind" => Steps(todo[p]) = {Head(todo[p])}
         /\ name = "remove" => \A x \in Steps(todo[p]) \ {Head(todo[p])} : x.name = "bind"
<1> DEFINE x == Head(todo[p])
<1>1. p \in Thread /\ todo[p] # <<>> /\ x.name = name /\ Host(p) = p
  BY DEF Making, Thread, Host
<1>2. /\ todo[p] \in Seq(CallSet) /\ x \in CallSet /\ x \in Steps(todo[p])
      /\ phase[p] \in {"boot", "stop", "drain"}
  BY <1>1, HostType
<1>3. \A y \in Steps(todo[p]) \ {x} : Rank(x) < Rank(y)
  BY <1>1, <1>2, StepsOfTail DEF PlanInv, ListsSorted
<1>4. \A y \in Steps(todo[p]) :
        \/ phase[p] = "boot" /\ y.name \in HalfCall \cup {"reconcile", "remove", "bind"}
        \/ phase[p] \in {"stop", "drain"} /\ y.name \in {"stop", "close", "drain", "unlink"}
  BY DEF PlanInv, PlansFit
<1>5. /\ name \in {"remove", "bind"} => phase[p] = "boot"
      /\ name \in {"close", "drain", "unlink"} => phase[p] \in {"stop", "drain"}
  BY <1>1, <1>2, <1>4 DEF HalfCall
<1> HIDE DEF x
<1>6. \A y \in Steps(todo[p]) : phase[p] = "boot" =>
        /\ Rank(y) \in 1 .. 5
        /\ Rank(y) = 5 => y.name = "bind"
        /\ y.name = "bind" => Rank(y) = 5
        /\ y.name = "remove" => Rank(y) = 4
  BY <1>4 DEF Rank, HalfCall
<1>7. ASSUME name = "bind" PROVE Steps(todo[p]) = {x}
  <2>1. Rank(x) = 5 /\ \A y \in Steps(todo[p]) : Rank(y) \in 1 .. 5
    BY <1>1, <1>2, <1>5, <1>6, <1>7
  <2>2. \A y \in Steps(todo[p]) : y = x
    BY <1>3, <2>1
  <2> QED
    BY <1>2, <2>2
<1>8. ASSUME name = "remove", NEW y \in Steps(todo[p]) \ {x} PROVE y.name = "bind"
  <2>1. Rank(x) = 4 /\ Rank(y) \in 1 .. 5 /\ Rank(x) < Rank(y)
    BY <1>1, <1>2, <1>3, <1>5, <1>6, <1>8
  <2>2. Rank(y) = 5
    BY <2>1
  <2> QED
    BY <1>5, <1>6, <1>8, <2>2
<1> QED
  BY <1>1, <1>3, <1>5, <1>7, <1>8 DEF x

LEMMA InitPlans == Init => PlanInv
<1> SUFFICES ASSUME Init PROVE PlanInv
  OBVIOUS
<1>1. todo = [g \in Thread |-> <<>>] /\ <<>> \in Seq(CallSet) /\ Steps(<<>>) = {} /\ Sorted(<<>>)
  BY ShortLists DEF Init
<1>2. \A g \in Thread : todo[g] = <<>>
  BY <1>1
<1>3. TypeOK
  BY <1>1, DaemonAssumption DEF Init, TypeOK, Neither, CallSet, Thread, Over
<1>4. ListsSorted
  BY <1>1, <1>2 DEF ListsSorted
<1>5. PlansFit
  BY <1>1, <1>2, ProcIsNoCaller DEF Init, PlansFit, Thread
<1> QED
  BY <1>3, <1>4, <1>5 DEF PlanInv

(* A goroutine that does something else than call into daemon.go: the list   *)
(* of g is new, all others stay.                                             *)
LEMMA NewList ==
  ASSUME PlanInv, NEW g \in Thread, NEW s \in Seq(CallSet), Sorted(s),
         todo' = [todo EXCEPT ![g] = s]
  PROVE  /\ todo' \in [Thread -> Seq(CallSet)] /\ ListsSorted'
         /\ todo'[g] = s /\ \A k \in Thread \ {g} : todo'[k] = todo[k]
<1>1. todo \in [Thread -> Seq(CallSet)]
  BY DEF PlanInv, TypeOK, CallSet
<1>2. /\ todo' \in [Thread -> Seq(CallSet)]
      /\ todo'[g] = s /\ \A k \in Thread \ {g} : todo'[k] = todo[k]
  BY <1>1
<1> QED
  BY <1>2 DEF PlanInv, ListsSorted

LEMMA BudgetType ==
  ASSUME TypeOK, NEW what \in {"procs", "requests", "ends"}, Spend(what)
  PROVE  budget' \in [procs : Nat, requests : Nat, ends : Nat]
<1>1. budget \in [procs : Nat, requests : Nat, ends : Nat] /\ budget[what] > 0
  BY DEF TypeOK, Spend
<1>2. budget[what] - 1 \in Nat
  BY <1>1
<1>3. budget' = [budget EXCEPT ![what] = budget[what] - 1]
  BY DEF Spend
<1> QED
  BY <1>1, <1>2, <1>3

LEMMA EndKeepsPlans ==
  ASSUME PlanInv, NEW p \in Proc, NEW how \in Over, End(p, how), path' \in Proc \cup {Nobody}
  PROVE  PlanInv'
<1>1. /\ todo' = [g \in Thread |-> IF Host(g) = p THEN <<>> ELSE todo[g]]
      /\ at' = [c \in Caller |-> IF at[c] = p THEN Nobody ELSE at[c]]
      /\ phase' = [phase EXCEPT ![p] = how]
  BY DEF End
<1>2. <<>> \in Seq(CallSet) /\ Steps(<<>>) = {} /\ Sorted(<<>>)
  BY ShortLists
<1>3. todo' \in [Thread -> Seq(CallSet)]
  BY <1>1, <1>2 DEF PlanInv, TypeOK, CallSet
<1>4. /\ phase'[p] = how /\ how \notin {"boot", "serve", "stop", "drain", "off"}
      /\ \A q \in Proc \ {p} : phase'[q] = phase[q]
      /\ phase' \in [Proc -> Over \cup {"off", "boot", "serve", "stop", "drain"}]
  BY <1>1 DEF PlanInv, TypeOK, Over
<1>5. ListsSorted'
  <2> SUFFICES ASSUME NEW g \in Thread PROVE Sorted(todo'[g])
    BY DEF ListsSorted
  <2>1. todo'[g] = <<>> \/ todo'[g] = todo[g]
    BY <1>1
  <2> QED
    BY <1>2, <2>1 DEF PlanInv, ListsSorted
<1>6. \A q \in Proc : todo'[q] = IF q = p THEN <<>> ELSE todo[q]
  BY <1>1 DEF Thread, Host
<1>7. \A c \in Caller : IF at[c] = p THEN todo'[c] = <<>> /\ at'[c] = Nobody
                        ELSE todo'[c] = todo[c] /\ at'[c] = at[c]
  BY <1>1, ProcIsNoCaller DEF Thread, Host
<1>8. TypeOK'
  <2>1. \A q \in Proc : phase'[q] = "serve" => todo'[q] = <<>>
    BY <1>4, <1>6 DEF PlanInv, TypeOK
  <2>2. at' \in [Caller -> Proc \cup {Nobody}]
    BY <1>1 DEF PlanInv, TypeOK
  <2>3. /\ failed' \in [Proc -> BOOLEAN] /\ enabled' \in [Proc -> [Half -> BOOLEAN]]
        /\ running' \in [Proc -> [Half -> BOOLEAN]] /\ lastError' \in [Proc -> [Half -> BOOLEAN]]
        /\ haveFiles' \in [Proc -> BOOLEAN] /\ crossed' \in [Proc -> BOOLEAN]
    BY DEF End, Neither, PlanInv, TypeOK
  <2>4. /\ lapsed' \in SUBSET Proc /\ late' \in SUBSET Proc
        /\ budget' \in [procs : Nat, requests : Nat, ends : Nat] /\ met' \in [Proc -> SUBSET Proc]
    BY DEF End, PlanInv, TypeOK
  <2> QED
    BY <1>3, <1>4, <2>1, <2>2, <2>3, <2>4 DEF TypeOK, CallSet
<1>9. PlansFit'
  <2>1. \A q \in Proc : \A x \in Steps(todo'[q]) :
          \/ phase'[q] = "boot" /\ x.name \in HalfCall \cup {"reconcile", "remove", "bind"}
          \/ phase'[q] \in {"stop", "drain"} /\ x.name \in {"stop", "close", "drain", "unlink"}
    <3> SUFFICES ASSUME NEW q \in Proc, NEW x \in Steps(todo'[q])
                 PROVE  \/ phase'[q] = "boot" /\ x.name \in HalfCall \cup {"reconcile", "remove", "bind"}
                        \/ /\ phase'[q] \in {"stop", "drain"}
                           /\ x.name \in {"stop", "close", "drain", "unlink"}
      OBVIOUS
    <3>1. q # p /\ todo'[q] = todo[q] /\ phase'[q] = phase[q]
      BY <1>2, <1>4, <1>6
    <3> QED
      BY <3>1 DEF PlanInv, PlansFit
  <2>2. \A c \in Caller : todo'[c] # <<>> =>
          /\ at'[c] \in Proc
          /\ \A x \in Steps(todo'[c]) : x.name \in HalfCall \cup {"reconcile"}
    BY <1>7 DEF PlanInv, PlansFit
  <2>3. ASSUME NEW c \in Caller, at'[c] \in Proc PROVE phase'[at'[c]] \in {"serve", "stop", "drain"}
    <3>1. at[c] # p /\ at'[c] = at[c]
      BY <1>7, <2>3, ProcIsNoCaller
    <3>2. phase'[at[c]] = phase[at[c]]
      BY <1>4, <2>3, <3>1
    <3> QED
      BY <2>3, <3>1, <3>2 DEF PlanInv, PlansFit
  <2> QED
    BY <2>1, <2>2, <2>3 DEF PlansFit
<1> QED
  BY <1>5, <1>8, <1>9 DEF PlanInv

(* A step that changes one list of main, and its phase, and nothing else     *)
(* that plans depend on.                                                     *)
LEMMA MainStepKeepsPlans ==
  ASSUME PlanInv, NEW p \in Proc, NEW s \in Seq(CallSet), Sorted(s),
         todo' = [todo EXCEPT ![p] = s],
         NEW to \in {"boot", "serve", "stop", "drain"}, phase' = [phase EXCEPT ![p] = to],
         UNCHANGED at,
         \A x \in Steps(s) :
           \/ to = "boot" /\ x.name \in HalfCall \cup {"reconcile", "remove", "bind"}
           \/ to \in {"stop", "drain"} /\ x.name \in {"stop", "close", "drain", "unlink"},
         to = "boot" => phase[p] \notin {"serve", "stop", "drain"}
  PROVE  /\ todo' \in [Thread -> Seq(CallSet)] /\ ListsSorted' /\ PlansFit'
         /\ phase' \in [Proc -> Over \cup {"off", "boot", "serve", "stop", "drain"}]
         /\ \A q \in Proc : phase'[q] = "serve" => todo'[q] = <<>>
         /\ phase'[p] = to /\ \A q \in Proc \ {p} : phase'[q] = phase[q]
         /\ todo'[p] = s /\ \A k \in Thread \ {p} : todo'[k] = todo[k]
<1>1. p \in Thread
  BY DEF Thread
<1>2. /\ todo' \in [Thread -> Seq(CallSet)] /\ ListsSorted'
      /\ todo'[p] = s /\ \A k \in Thread \ {p} : todo'[k] = todo[k]
  BY <1>1, NewList
<1>3. /\ phase' \in [Proc -> Over \cup {"off", "boot", "serve", "stop", "drain"}]
      /\ phase'[p] = to /\ \A q \in Proc \ {p} : phase'[q] = phase[q]
  BY DEF PlanInv, TypeOK
<1>4. \A q \in Proc : \A x \in Steps(todo'[q]) :
        \/ phase'[q] = "boot" /\ x.name \in HalfCall \cup {"reconcile", "remove", "bind"}
        \/ phase'[q] \in {"stop", "drain"} /\ x.name \in {"stop", "close", "drain", "unlink"}
  <2> SUFFICES ASSUME NEW q \in Proc, NEW x \in Steps(todo'[q])
               PROVE  \/ phase'[q] = "boot" /\ x.name \in HalfCall \cup {"reconcile", "remove", "bind"}
                      \/ /\ phase'[q] \in {"stop", "drain"}
                         /\ x.name \in {"stop", "close", "drain", "unlink"}
    OBVIOUS
  <2>1. CASE q = p
    BY <1>2, <1>3, <2>1
  <2>2. CASE q # p
    <3>1. todo'[q] = todo[q] /\ phase'[q] = phase[q]
      BY <1>2, <1>3, <2>2 DEF Thread
    <3> QED
      BY <3>1 DEF PlanInv, PlansFit
  <2> QED
    BY <2>1, <2>2
<1>5. \A c \in Caller : todo'[c] = todo[c]
  BY <1>2, ProcIsNoCaller DEF Thread
<1>6. PlansFit'
  <2>1. \A c \in Caller : at[c] \in Proc => phase'[at[c]] \in {"serve", "stop", "drain"}
    <3> SUFFICES ASSUME NEW c \in Caller, at[c] \in Proc
                 PROVE  phase'[at[c]] \in {"serve", "stop", "drain"}
      OBVIOUS
    <3>1. phase[at[c]] \in {"serve", "stop", "drain"}
      BY DEF PlanInv, PlansFit
    <3> QED
      BY <1>3, <3>1
  <2> QED
    BY <1>4, <1>5, <2>1 DEF PlanInv, PlansFit
<1>7. ASSUME NEW q \in Proc, phase'[q] = "serve" PROVE todo'[q] = <<>>
  <2>1. CASE q = p
    <3>1. to = "serve"
      BY <1>3, <1>7, <2>1
    <3>2. Steps(s) = {}
      BY <3>1
    <3> QED
      BY <1>2, <2>1, <3>2, StepsType
  <2>2. CASE q # p
    BY <1>2, <1>3, <1>7, <2>2 DEF Thread, PlanInv, TypeOK
  <2> QED
    BY <2>1, <2>2
<1> QED
  BY <1>2, <1>3, <1>6, <1>7

(* The calls of main that take one call off its list.                        *)
LEMMA SocketStepKeepsPlans ==
  ASSUME PlanInv, NEW p \in Proc, RemoveStale(p) \/ Bind(p) \/ CloseListener(p) \/ Drain(p)
  PROVE  PlanInv'
<1> USE DEF historyVars, daemonVars
<1> DEFINE s == Tail(todo[p])
<1>1. PICK name \in {"remove", "bind", "close", "drain"} : Making(p, name)
  BY DEF RemoveStale, Bind, CloseListener, Drain
<1>2. /\ todo[p] # <<>> /\ p \in Thread
      /\ name = "bind" => Steps(todo[p]) = {Head(todo[p])}
      /\ phase[p] \in {"boot", "stop", "drain"}
  BY <1>1, MainCall DEF CallName
<1>3. /\ s \in Seq(CallSet) /\ Sorted(s) /\ Steps(s) = Steps(todo[p]) \ {Head(todo[p])}
  BY <1>2, StepsOfTail DEF PlanInv, TypeOK, ListsSorted, CallSet
<1>4. todo' = [todo EXCEPT ![p] = s]
  <2>1. <<>> \o Tail(todo[p]) = Tail(todo[p])
    BY <1>3, ConcatEmptySeq
  <2>2. todo' = [todo EXCEPT ![p] = <<>> \o Tail(todo[p])]
    BY DEF RemoveStale, Bind, CloseListener, Drain, Then
  <2> QED
    BY <2>1, <2>2
<1>5. \A x \in Steps(todo[p]) :
        \/ phase[p] = "boot" /\ x.name \in HalfCall \cup {"reconcile", "remove", "bind"}
        \/ phase[p] \in {"stop", "drain"} /\ x.name \in {"stop", "close", "drain", "unlink"}
  BY DEF PlanInv, PlansFit
<1> HIDE DEF s
<1>6. PICK to \in {"boot", "serve", "stop", "drain"} :
        /\ phase' = [phase EXCEPT ![p] = to]
        /\ to = "boot" => phase[p] \notin {"serve", "stop", "drain"}
        /\ \A x \in Steps(s) :
             \/ to = "boot" /\ x.name \in HalfCall \cup {"reconcile", "remove", "bind"}
             \/ to \in {"stop", "drain"} /\ x.name \in {"stop", "close", "drain", "unlink"}
  <2>1. CASE RemoveStale(p) \/ Drain(p)
    <3>1. phase' = phase
      BY <2>1 DEF RemoveStale, Drain
    <3>2. phase' = [phase EXCEPT ![p] = phase[p]]
      BY <3>1 DEF PlanInv, TypeOK
    <3>3. \A x \in Steps(s) : x \in Steps(todo[p])
      BY <1>3
    <3>4. \/ phase[p] = "boot" /\ phase[p] \notin {"serve", "stop", "drain"}
          \/ phase[p] \in {"stop", "drain"} /\ phase[p] # "boot"
      BY <1>2
    <3> QED
      BY <1>2, <1>5, <3>2, <3>3, <3>4
  <2>2. CASE Bind(p)
    <3>1. Making(p, "bind") /\ phase' = [phase EXCEPT ![p] = "serve"]
      BY <2>2 DEF Bind
    <3>2. Steps(todo[p]) = {Head(todo[p])}
      BY <3>1, MainCall DEF CallName
    <3>3. Steps(s) = {}
      BY <1>3, <3>2
    <3> QED
      BY <3>1, <3>3
  <2>3. CASE CloseListener(p)
    <3>1. Making(p, "close") /\ phase' = [phase EXCEPT ![p] = "drain"]
      BY <2>3 DEF CloseListener
    <3>2. phase[p] \in {"stop", "drain"}
      BY <3>1, MainCall DEF CallName
    <3>3. \A x \in Steps(s) : x.name \in {"stop", "close", "drain", "unlink"}
      BY <1>3, <1>5, <3>2
    <3> QED
      BY <3>1, <3>3
  <2> QED
    BY <2>1, <2>2, <2>3
<1>7. UNCHANGED <<failed, at, daemonVars, budget, historyVars>> /\ path' \in Proc \cup {Nobody}
  BY DEF RemoveStale, Bind, CloseListener, Drain, PlanInv, TypeOK
<1>8. /\ todo' \in [Thread -> Seq(CallSet)] /\ ListsSorted' /\ PlansFit'
      /\ phase' \in [Proc -> Over \cup {"off", "boot", "serve", "stop", "drain"}]
      /\ \A q \in Proc : phase'[q] = "serve" => todo'[q] = <<>>
  BY <1>3, <1>4, <1>6, <1>7, MainStepKeepsPlans, ZenonT(60)
<1> QED
  BY <1>7, <1>8 DEF PlanInv, TypeOK, CallSet

LEMMA BootKeepsPlans ==
  ASSUME PlanInv, NEW p \in Proc, Boot(p)
  PROVE  PlanInv'
<1> DEFINE s == <<Plain("reconcile"), Plain("remove"), Plain("bind")>>
<1>1. /\ s \in Seq(CallSet) /\ Sorted(s)
      /\ \A x \in Steps(s) : x.name \in HalfCall \cup {"reconcile", "remove", "bind"}
  BY BootList, PlainType DEF CallName
<1> HIDE DEF s
<1>2. /\ phase[p] = "off" /\ phase' = [phase EXCEPT ![p] = "boot"]
      /\ todo' = [todo EXCEPT ![p] = s] /\ UNCHANGED at
  BY DEF Boot, s
<1>3. /\ todo' \in [Thread -> Seq(CallSet)] /\ ListsSorted' /\ PlansFit'
      /\ phase' \in [Proc -> Over \cup {"off", "boot", "serve", "stop", "drain"}]
      /\ \A q \in Proc : phase'[q] = "serve" => todo'[q] = <<>>
  BY <1>1, <1>2, MainStepKeepsPlans
<1>4. enabled' \in [Proc -> [Half -> BOOLEAN]]
  BY DEF Boot, PlanInv, TypeOK
<1>5. met' \in [Proc -> SUBSET Proc]
  <2>1. Living \subseteq Proc
    BY DEF Living
  <2> QED
    BY <2>1 DEF Boot, PlanInv, TypeOK
<1>6. budget' \in [procs : Nat, requests : Nat, ends : Nat]
  BY BudgetType DEF Boot, PlanInv
<1>7. UNCHANGED <<failed, at, running, lastError, haveFiles, path, crossed, lapsed, late>>
  BY DEF Boot
<1> QED
  BY <1>3, <1>4, <1>5, <1>6, <1>7 DEF PlanInv, TypeOK, CallSet

LEMMA SignalKeepsPlans ==
  ASSUME PlanInv, NEW p \in Proc, Signal(p)
  PROVE  PlanInv'
<1> DEFINE s == <<Call("stop", "sender", FALSE), Call("stop", "listener", FALSE),
                  Plain("close"), Plain("drain"), Plain("unlink")>>
<1>1. /\ s \in Seq(CallSet) /\ Sorted(s)
      /\ \A x \in Steps(s) : x.name \in {"stop", "close", "drain", "unlink"}
  BY SignalList
<1> HIDE DEF s
<1>2. /\ phase' = [phase EXCEPT ![p] = "stop"]
      /\ todo' = [todo EXCEPT ![p] = s] /\ UNCHANGED at
  BY DEF Signal, s
<1>3. /\ todo' \in [Thread -> Seq(CallSet)] /\ ListsSorted' /\ PlansFit'
      /\ phase' \in [Proc -> Over \cup {"off", "boot", "serve", "stop", "drain"}]
      /\ \A q \in Proc : phase'[q] = "serve" => todo'[q] = <<>>
  BY <1>1, <1>2, MainStepKeepsPlans
<1>4. late' \in SUBSET Proc
  BY DEF Signal, PlanInv, TypeOK
<1>5. UNCHANGED <<failed, at, daemonVars, path, budget, crossed, lapsed, met>>
  BY DEF Signal
<1> QED
  BY <1>3, <1>4, <1>5 DEF PlanInv, TypeOK, CallSet, daemonVars

(* The list of an update: the halves that ran are stopped, then reconcile.   *)
LEMMA UpdateList ==
  ASSUME NEW first \in BOOLEAN, NEW second \in BOOLEAN
  PROVE  LET s == IF first THEN <<Call("stop", "sender", FALSE)>> ELSE <<>>
             t == IF second THEN <<Call("stop", "listener", FALSE)>> ELSE <<>>
             u == s \o t \o <<Plain("reconcile")>> IN
         /\ u \in Seq(CallSet) /\ Sorted(u) /\ Plain("reconcile") \in Steps(u)
         /\ \A x \in Steps(u) : x.name \in {"stop", "reconcile"}
<1> DEFINE a == Call("stop", "sender", FALSE)  b == Call("stop", "listener", FALSE)
           c == Plain("reconcile")
           s == IF first THEN <<a>> ELSE <<>>  t == IF second THEN <<b>> ELSE <<>>
<1>1. /\ a \in CallSet /\ b \in CallSet /\ c \in CallSet
      /\ Rank(a) = 1 /\ Rank(b) = 2 /\ Rank(c) = 3
      /\ a.name = "stop" /\ b.name = "stop" /\ c.name = "reconcile"
  <2>1. a \in CallSet /\ b \in CallSet /\ Rank(a) = 1 /\ Rank(b) = 2
        /\ a.name = "stop" /\ b.name = "stop"
    BY DEF Call, CallSet, CallName, Half, Rank, HalfCall
  <2>2. c \in CallSet /\ Rank(c) = 3 /\ c.name = "reconcile"
    BY PlainType DEF CallName
  <2> QED
    BY <2>1, <2>2
<1> HIDE DEF a, b, c
<1>2. /\ <<>> \in Seq(CallSet) /\ Steps(<<>>) = {} /\ Sorted(<<>>)
      /\ <<a>> \in Seq(CallSet) /\ Steps(<<a>>) = {a} /\ Sorted(<<a>>)
      /\ <<b>> \in Seq(CallSet) /\ Steps(<<b>>) = {b} /\ Sorted(<<b>>)
      /\ <<c>> \in Seq(CallSet) /\ Steps(<<c>>) = {c} /\ Sorted(<<c>>)
  BY <1>1, ShortLists
<1>3. s \in Seq(CallSet) /\ Sorted(s) /\ Steps(s) \subseteq {a}
  BY <1>2
<1>4. t \in Seq(CallSet) /\ Sorted(t) /\ Steps(t) \subseteq {b}
  BY <1>2
<1> HIDE DEF s, t
<1>5. \A x \in Steps(s), y \in Steps(t) : Rank(x) < Rank(y)
  BY <1>1, <1>3, <1>4
<1>6. /\ s \o t \in Seq(CallSet) /\ Sorted(s \o t)
      /\ Steps(s \o t) = Steps(s) \cup Steps(t)
  BY <1>3, <1>4, <1>5, StepsOfConcat
<1>7. \A x \in Steps(s \o t), y \in Steps(<<c>>) : Rank(x) < Rank(y)
  BY <1>1, <1>2, <1>3, <1>4, <1>6
<1>8. /\ (s \o t) \o <<c>> \in Seq(CallSet) /\ Sorted((s \o t) \o <<c>>)
      /\ Steps((s \o t) \o <<c>>) = Steps(s \o t) \cup Steps(<<c>>)
  BY <1>2, <1>6, <1>7, StepsOfConcat
<1>9. c \in Steps((s \o t) \o <<c>>)
  BY <1>2, <1>8
<1>10. \A x \in Steps((s \o t) \o <<c>>) : x.name \in {"stop", "reconcile"}
  BY <1>1, <1>2, <1>3, <1>4, <1>6, <1>8
<1> QED
  BY <1>8, <1>9, <1>10 DEF s, t, a, b, c

(* What a request sets out to do, and for whom.                              *)
LEMMA RequestGuards ==
  ASSUME NEW c \in Caller, NEW p \in Proc,
         StartOrStop(c, p) \/ SetSenderFiles(c, p) \/ UpdateSettings(c, p)
  PROVE  /\ todo[c] = <<>> /\ phase[p] \in {"serve", "stop"}
         /\ at' = [at EXCEPT ![c] = p]
         /\ UNCHANGED <<phase, failed, running, lastError, path, lapsed, met>>
BY DEF StartOrStop, SetSenderFiles, UpdateSettings, Request, Accepting

LEMMA RequestShape ==
  ASSUME PlanInv, NEW c \in Caller, NEW p \in Proc,
         StartOrStop(c, p) \/ SetSenderFiles(c, p) \/ UpdateSettings(c, p)
  PROVE  /\ todo[c] = <<>> /\ phase[p] \in {"serve", "stop"}
         /\ at' = [at EXCEPT ![c] = p] /\ UNCHANGED <<phase, failed, running, lastError, path, lapsed, met>>
         /\ \E s \in Seq(CallSet) :
              /\ todo' = [todo EXCEPT ![c] = s] /\ Sorted(s)
              /\ \A x \in Steps(s) : x.name \in {"start", "stop", "reconcile"}
              /\ UpdateSettings(c, p) =>
                   /\ \E x \in Steps(s) : x.name = "reconcile"
                   /\ \A x \in Steps(s) : x.name \in {"stop", "reconcile"}
              /\ SetSenderFiles(c, p) => s = <<>>
              /\ StartOrStop(c, p) => \E h \in Half, name \in {"start", "stop"} :
                                         s = <<Call(name, h, TRUE)>>
<1>1. /\ todo[c] = <<>> /\ phase[p] \in {"serve", "stop"}
      /\ at' = [at EXCEPT ![c] = p] /\ UNCHANGED <<phase, failed, running, lastError, path, lapsed, met>>
  BY RequestGuards
<1>2. c \in Thread /\ todo \in [Thread -> Seq(CallSet)]
  BY DEF Thread, PlanInv, TypeOK, CallSet
<1> DEFINE Fits(s) ==
      /\ todo' = [todo EXCEPT ![c] = s] /\ Sorted(s)
      /\ \A x \in Steps(s) : x.name \in {"start", "stop", "reconcile"}
      /\ UpdateSettings(c, p) =>
           /\ \E x \in Steps(s) : x.name = "reconcile"
           /\ \A x \in Steps(s) : x.name \in {"stop", "reconcile"}
      /\ SetSenderFiles(c, p) => s = <<>>
      /\ StartOrStop(c, p) => \E h \in Half, name \in {"start", "stop"} :
                                 s = <<Call(name, h, TRUE)>>
<1>3. CASE UpdateSettings(c, p)
  <2> DEFINE s == IF running[p]["sender"] THEN <<Call("stop", "sender", FALSE)>> ELSE <<>>
             t == IF running[p]["listener"] THEN <<Call("stop", "listener", FALSE)>> ELSE <<>>
             u == s \o t \o <<Plain("reconcile")>>
  <2>1. running[p]["sender"] \in BOOLEAN /\ running[p]["listener"] \in BOOLEAN
    BY DEF PlanInv, TypeOK, Half
  <2>2. /\ u \in Seq(CallSet) /\ Sorted(u) /\ Plain("reconcile") \in Steps(u)
        /\ \A x \in Steps(u) : x.name \in {"stop", "reconcile"}
    BY <2>1, UpdateList
  <2>3. Plain("reconcile").name = "reconcile"
    BY PlainType DEF CallName
  <2>4. todo' = [todo EXCEPT ![c] = u]
    BY <1>3 DEF UpdateSettings
  <2> HIDE DEF u
  <2>5. u # <<>>
    BY <2>2, ShortLists
  <2>6. todo'[c] = u
    BY <1>2, <2>4
  <2>7. ~SetSenderFiles(c, p)
    BY <1>1, <2>5, <2>6 DEF SetSenderFiles
  <2>8. ASSUME StartOrStop(c, p) PROVE \E h \in Half, name \in {"start", "stop"} : u = <<Call(name, h, TRUE)>>
    <3>1. PICK h \in Half, name \in {"start", "stop"} : todo' = [todo EXCEPT ![c] = <<Call(name, h, TRUE)>>]
      BY <2>8 DEF StartOrStop
    <3>2. todo'[c] = <<Call(name, h, TRUE)>>
      BY <1>2, <3>1
    <3> QED
      BY <2>6, <3>2
  <2>9. Fits(u)
    BY <2>2, <2>3, <2>4, <2>7, <2>8
  <2> QED
    BY <1>1, <2>2, <2>9
<1>4. CASE ~UpdateSettings(c, p) /\ SetSenderFiles(c, p)
  <2>1. UNCHANGED todo
    BY <1>4 DEF SetSenderFiles
  <2>2. todo' = [todo EXCEPT ![c] = <<>>]
    BY <1>1, <1>2, <2>1
  <2>3. <<>> \in Seq(CallSet) /\ Steps(<<>>) = {} /\ Sorted(<<>>)
    BY ShortLists
  <2>4. ~StartOrStop(c, p)
    <3> SUFFICES ASSUME StartOrStop(c, p) PROVE FALSE
      OBVIOUS
    <3>1. PICK h \in Half, name \in {"start", "stop"} : todo' = [todo EXCEPT ![c] = <<Call(name, h, TRUE)>>]
      BY DEF StartOrStop
    <3>2. todo'[c] = <<Call(name, h, TRUE)>>
      BY <1>2, <3>1
    <3>3. <<Call(name, h, TRUE)>> # <<>>
      OBVIOUS
    <3> QED
      BY <1>1, <2>1, <3>2, <3>3
  <2>5. Fits(<<>>)
    BY <1>4, <2>2, <2>3, <2>4
  <2> QED
    BY <1>1, <2>3, <2>5
<1>5. CASE ~UpdateSettings(c, p) /\ ~SetSenderFiles(c, p) /\ StartOrStop(c, p)
  <2>1. PICK h \in Half, name \in {"start", "stop"} : todo' = [todo EXCEPT ![c] = <<Call(name, h, TRUE)>>]
    BY <1>5 DEF StartOrStop
  <2> DEFINE x == Call(name, h, TRUE)
  <2>2. x \in CallSet /\ x.name \in {"start", "stop"}
    <3>1. name \in CallName /\ TRUE \in BOOLEAN
      BY DEF CallName
    <3>2. x \in CallSet /\ x.name = name
      BY <3>1, CallFields, Zenon
    <3> QED
      BY <3>2
  <2>3. todo' = [todo EXCEPT ![c] = <<x>>]
    BY <2>1
  <2>4. <<x>> \in Seq(CallSet) /\ Steps(<<x>>) = {x} /\ Sorted(<<x>>)
    BY <2>2, ShortLists
  <2>5. \E k \in Half, other \in {"start", "stop"} : <<x>> = <<Call(other, k, TRUE)>>
    OBVIOUS
  <2> HIDE DEF x
  <2>6. Fits(<<x>>)
    BY <1>5, <2>2, <2>3, <2>4, <2>5
  <2> QED
    BY <1>1, <2>4, <2>6
<1> QED
  BY <1>3, <1>4, <1>5

LEMMA RequestKeepsPlans ==
  ASSUME PlanInv, NEW c \in Caller, NEW p \in Proc,
         StartOrStop(c, p) \/ SetSenderFiles(c, p) \/ UpdateSettings(c, p)
  PROVE  PlanInv'
<1>1. /\ todo[c] = <<>> /\ phase[p] \in {"serve", "stop"}
      /\ at' = [at EXCEPT ![c] = p]
      /\ UNCHANGED <<phase, failed, running, lastError, path, lapsed, met>>
  BY RequestGuards, Zenon
<1>2. PICK s \in Seq(CallSet) :
        /\ todo' = [todo EXCEPT ![c] = s] /\ Sorted(s)
        /\ \A x \in Steps(s) : x.name \in {"start", "stop", "reconcile"}
  BY RequestShape
<1>3. c \in Thread /\ c \notin Proc
  BY ProcIsNoCaller DEF Thread
<1>4. /\ todo' \in [Thread -> Seq(CallSet)] /\ ListsSorted'
      /\ todo'[c] = s /\ \A k \in Thread \ {c} : todo'[k] = todo[k]
  BY <1>2, <1>3, NewList
<1>5. /\ at' \in [Caller -> Proc \cup {Nobody}]
      /\ at'[c] = p /\ \A k \in Caller \ {c} : at'[k] = at[k]
  BY <1>1 DEF PlanInv, TypeOK
<1>6. \A q \in Proc : todo'[q] = todo[q]
  BY <1>3, <1>4 DEF Thread
<1>7. \A k \in Caller : todo'[k] # <<>> =>
        /\ at'[k] \in Proc
        /\ \A x \in Steps(todo'[k]) : x.name \in HalfCall \cup {"reconcile"}
  <2>1. CASE c = c
    <3>1. \A x \in Steps(todo'[c]) : x.name \in HalfCall \cup {"reconcile"}
      BY <1>2, <1>4 DEF HalfCall
    <3>2. \A k \in Caller \ {c} : todo'[k] # <<>> =>
            /\ at'[k] \in Proc
            /\ \A x \in Steps(todo'[k]) : x.name \in HalfCall \cup {"reconcile"}
      BY <1>4, <1>5 DEF PlanInv, PlansFit, Thread
    <3> QED
      BY <1>5, <3>1, <3>2
  <2> QED
    BY <2>1
<1>8. \A k \in Caller : at'[k] \in Proc => phase[at'[k]] \in {"serve", "stop", "drain"}
  BY <1>1, <1>5 DEF PlanInv, PlansFit
<1>9. PlansFit'
  <2>1. phase' = phase
    BY <1>1
  <2> QED
    BY <1>6, <1>7, <1>8, <2>1 DEF PlanInv, PlansFit
<1>10. \A q \in Proc : phase'[q] = "serve" => todo'[q] = <<>>
  BY <1>1, <1>6 DEF PlanInv, TypeOK
<1>11. enabled' \in [Proc -> [Half -> BOOLEAN]] /\ haveFiles' \in [Proc -> BOOLEAN]
       /\ crossed' \in [Proc -> BOOLEAN]
  <2>1. enabled' \in [Proc -> [Half -> BOOLEAN]]
    BY ZenonT(60) DEF StartOrStop, SetSenderFiles, UpdateSettings, PlanInv, TypeOK
  <2>2. haveFiles' \in [Proc -> BOOLEAN]
    BY DEF StartOrStop, SetSenderFiles, UpdateSettings, PlanInv, TypeOK
  <2>3. PICK b \in BOOLEAN : crossed' = [crossed EXCEPT ![p] = b]
    <3>1. /\ crossed[p] \in BOOLEAN /\ (InFlight(p) # {}) \in BOOLEAN
          /\ (crossed[p] \/ InFlight(p) # {}) \in BOOLEAN
      BY DEF PlanInv, TypeOK
    <3> QED
      BY <3>1, Zenon DEF StartOrStop, SetSenderFiles, UpdateSettings, Crossing
  <2>4. crossed' \in [Proc -> BOOLEAN]
    BY <2>3 DEF PlanInv, TypeOK
  <2> QED
    BY <2>1, <2>2, <2>4
<1>12. budget' \in [procs : Nat, requests : Nat, ends : Nat] /\ late' \in SUBSET Proc
  <2>1. Request(c, p)
    BY DEF StartOrStop, SetSenderFiles, UpdateSettings
  <2>2. budget' \in [procs : Nat, requests : Nat, ends : Nat]
    BY <2>1, BudgetType DEF Request, PlanInv
  <2> QED
    BY <2>1, <2>2 DEF Request, PlanInv, TypeOK
<1> QED
  BY <1>1, <1>4, <1>5, <1>9, <1>10, <1>11, <1>12 DEF PlanInv, TypeOK, CallSet

LEMMA StepKeepsPlans == PlanInv /\ [Next]_vars => PlanInv'
<1> SUFFICES ASSUME PlanInv, [Next]_vars PROVE PlanInv'
  OBVIOUS
<1>1. CASE UNCHANGED vars
  BY <1>1 DEF vars, threadVars, daemonVars, historyVars, PlanInv, TypeOK, ListsSorted, PlansFit
<1>2. ASSUME NEW c \in Caller, NEW p \in Proc,
             StartOrStop(c, p) \/ SetSenderFiles(c, p) \/ UpdateSettings(c, p)
      PROVE  PlanInv'
  BY <1>2, RequestKeepsPlans
<1>3. ASSUME NEW g \in Thread, CallStep(g) PROVE PlanInv'
  BY <1>3, CallStepKeepsPlans, CallStepKeepsTypes DEF PlanInv
<1>4. ASSUME NEW p \in Proc, Boot(p) PROVE PlanInv'
  BY <1>4, BootKeepsPlans
<1>5. ASSUME NEW p \in Proc, MainStep(p) PROVE PlanInv'
  <2>1. CASE RemoveStale(p) \/ Bind(p) \/ CloseListener(p) \/ Drain(p)
    BY <2>1, SocketStepKeepsPlans
  <2>2. CASE BootFails(p) \/ BindFails(p) \/ Exit(p)
    <3>1. PICK how \in Over : End(p, how)
      BY <2>2 DEF BootFails, BindFails, Exit, Over
    <3>2. path' \in Proc \cup {Nobody}
      BY <2>2 DEF BootFails, BindFails, Exit, PlanInv, TypeOK
    <3> QED
      BY <3>1, <3>2, EndKeepsPlans
  <2> QED
    BY <1>5, <2>1, <2>2 DEF MainStep
<1>6. ASSUME NEW p \in Proc, Signal(p) PROVE PlanInv'
  BY <1>6, SignalKeepsPlans
<1>7. ASSUME NEW p \in Proc, Kill(p) PROVE PlanInv'
  <2>1. End(p, "killed") /\ "killed" \in Over /\ path' \in Proc \cup {Nobody}
    BY <1>7 DEF Kill, Over, PlanInv, TypeOK
  <2> QED
    BY <2>1, EndKeepsPlans
<1>8. ASSUME NEW p \in Proc, NEW h \in Half, RunEnds(p, h) PROVE PlanInv'
  <2>1. UNCHANGED <<phase, todo, failed, at, enabled, haveFiles, path, crossed, late, met>>
    BY <1>8 DEF RunEnds, threadVars
  <2>2. ListsSorted' /\ PlansFit'
    BY <2>1 DEF PlanInv, ListsSorted, PlansFit
  <2>3. budget' \in [procs : Nat, requests : Nat, ends : Nat]
    BY <1>8, BudgetType DEF RunEnds, PlanInv
  <2>4. /\ running' \in [Proc -> [Half -> BOOLEAN]] /\ lastError' \in [Proc -> [Half -> BOOLEAN]]
        /\ lapsed' \in SUBSET Proc
    <3>1. running' \in [Proc -> [Half -> BOOLEAN]]
      BY <1>8 DEF RunEnds, PlanInv, TypeOK
    <3>2. lapsed' \in SUBSET Proc
      BY <1>8 DEF RunEnds, PlanInv, TypeOK
    <3>3. lastError' = lastError \/ lastError' = [lastError EXCEPT ![p][h] = TRUE]
      BY <1>8 DEF RunEnds
    <3>4. lastError' \in [Proc -> [Half -> BOOLEAN]]
      <4>1. lastError \in [Proc -> [Half -> BOOLEAN]]
        BY DEF PlanInv, TypeOK
      <4>2. [lastError EXCEPT ![p][h] = TRUE] \in [Proc -> [Half -> BOOLEAN]]
        BY <4>1
      <4> QED
        BY <3>3, <4>1, <4>2, Zenon
    <3> QED
      BY <3>1, <3>2, <3>4
  <2> QED
    BY <2>1, <2>2, <2>3, <2>4 DEF PlanInv, TypeOK
<1> QED
  BY <1>1, <1>2, <1>3, <1>4, <1>5, <1>6, <1>7, <1>8 DEF Next

LEMMA PlansAlways == Spec => []PlanInv
<1>1. Init => PlanInv
  BY InitPlans
<1>2. PlanInv /\ [Next]_vars => PlanInv'
  BY StepKeepsPlans
<1> QED
  BY <1>1, <1>2, PTL DEF Spec

(* The variables keep their types: a process that serves has nothing left to *)
(* do of its own, and a goroutine's list holds calls that daemon.go and main *)
(* know.                                                                     *)
THEOREM DaemonTypeCorrect == Spec => []TypeOK
<1>1. PlanInv => TypeOK
  BY DEF PlanInv
<1> QED
  BY <1>1, PlansAlways, PTL

-----------------------------------------------------------------------------
(* A process alone on its endpoint.                                          *)

LEMMA InitReach == Init => ReachInv
  BY DEF Init, ReachInv, RemovedIsFree, FailedOnlyInBoot, LivingHaveMet, LoneProcessIsReachable,
         Living

(* Nothing here depends on what clients do or on the halves.                 *)
LEMMA UnmovedKeepsReach ==
  ASSUME ReachInv, UNCHANGED <<phase, failed, path, met>>, \A p \in Proc : todo'[p] = todo[p]
  PROVE  ReachInv'
<1>1. \A p \in Proc : Has(p, "remove")' = Has(p, "remove")
  BY DEF Has
<1>2. RemovedIsFree'
  BY <1>1 DEF ReachInv, RemovedIsFree, Alone
<1>3. FailedOnlyInBoot' /\ LivingHaveMet' /\ LoneProcessIsReachable'
  BY DEF ReachInv, FailedOnlyInBoot, LivingHaveMet, LoneProcessIsReachable, Living
<1> QED
  BY <1>2, <1>3 DEF ReachInv

LEMMA CallStepKeepsReach ==
  ASSUME PlanInv, ReachInv, NEW g \in Thread, CallStep(g)
  PROVE  ReachInv'
<1>1. /\ todo[g] # <<>> /\ UNCHANGED <<phase, path, met>>
      /\ failed' = failed \/ failed' = [p \in Proc |-> failed[p] \/ p = g]
  BY CallStepShape
<1>2. /\ \A k \in Thread \ {g} : todo'[k] = todo[k]
      /\ \A x \in Steps(todo[g]) : x # Head(todo[g]) => x \in Steps(todo'[g])
      /\ Head(todo[g]) \in Steps(todo[g])
  BY <1>1, CallStepKeepsPlans, HostType
<1>3. failed \in [Proc -> BOOLEAN]
  BY DEF PlanInv, TypeOK
<1>4. CASE g \in Caller
  <2>1. g \notin Proc
    BY <1>4, ProcIsNoCaller
  <2>2. \A p \in Proc : todo'[p] = todo[p]
    BY <1>2, <2>1 DEF Thread
  <2>3. \A p \in Proc : (failed[p] \/ p = g) = failed[p]
    BY <1>3, <2>1
  <2>4. failed' = failed
    BY <1>1, <1>3, <2>3
  <2> QED
    BY <1>1, <2>2, <2>4, UnmovedKeepsReach
<1>5. CASE g \in Proc
  <2>1. Head(todo[g]).name \in {"start", "refuse", "load", "stop", "reconcile"}
    BY DEF CallStep, StartCheck, StartFails, Install, StopHalf, Reconcile, Making
  <2>2. \A p \in Proc \ {g} : todo'[p] = todo[p] /\ failed'[p] = failed[p]
    BY <1>1, <1>2, <1>3 DEF Thread
  <2>3. ASSUME phase[g] = "boot" PROVE Has(g, "remove")'
    <3>1. Has(g, "remove")
      BY <1>2, <1>5, <2>1, <2>3 DEF ReachInv, RemovedIsFree
    <3>2. PICK x \in Steps(todo[g]) : x.name = "remove"
      BY <3>1 DEF Has
    <3>3. x # Head(todo[g])
      BY <2>1, <3>2
    <3>4. x \in Steps(todo'[g])
      BY <1>2, <3>3
    <3> QED
      BY <3>2, <3>4 DEF Has
  <2>4. ASSUME failed'[g] PROVE phase[g] = "boot"
    <3>1. CASE failed' = failed
      BY <1>5, <2>4, <3>1 DEF ReachInv, FailedOnlyInBoot
    <3>2. CASE failed' # failed
      <4>1. StartFails(g)
        BY <3>2 DEF CallStep, StartCheck, Install, StopHalf, Reconcile
      <4>2. Head(todo[g]).name \in {"refuse", "load"}
        BY <4>1 DEF StartFails, Making
      <4> QED
        BY <1>2, <1>5, <4>2, SMTT(60) DEF PlanInv, PlansFit
    <3> QED
      BY <3>1, <3>2
  <2>5. \A p \in Proc \ {g} : Has(p, "remove")' = Has(p, "remove")
    BY <2>2 DEF Has
  <2>6. RemovedIsFree'
    BY <1>1, <2>2, <2>3, <2>5 DEF ReachInv, RemovedIsFree, Alone
  <2>7. FailedOnlyInBoot'
    BY <1>1, <2>2, <2>4 DEF ReachInv, FailedOnlyInBoot
  <2>8. LivingHaveMet' /\ LoneProcessIsReachable'
    BY <1>1 DEF ReachInv, LivingHaveMet, LoneProcessIsReachable, Living
  <2> QED
    BY <2>6, <2>7, <2>8, SMTT(60) DEF ReachInv
<1> QED
  BY <1>4, <1>5 DEF Thread

LEMMA BootKeepsReach ==
  ASSUME PlanInv, ReachInv, NEW p \in Proc, Boot(p)
  PROVE  ReachInv'
<1> DEFINE s == <<Plain("reconcile"), Plain("remove"), Plain("bind")>>
<1>1. Plain("remove") \in Steps(s) /\ Plain("remove").name = "remove" /\ s \in Seq(CallSet)
  BY BootList, PlainType DEF CallName
<1> HIDE DEF s
<1>2. /\ phase[p] = "off" /\ phase' = [phase EXCEPT ![p] = "boot"]
      /\ todo' = [todo EXCEPT ![p] = s] /\ UNCHANGED <<failed, path>>
      /\ met' = [q \in Proc |-> IF q = p THEN Living
                                ELSE IF q \in Living THEN met[q] \cup {p} ELSE met[q]]
  BY DEF Boot, s
<1>3. /\ phase \in [Proc -> Over \cup {"off", "boot", "serve", "stop", "drain"}]
      /\ todo \in [Thread -> Seq(CallSet)] /\ p \in Thread /\ Proc \subseteq Thread
  BY DEF PlanInv, TypeOK, CallSet, Thread
<1>4. /\ phase'[p] = "boot" /\ \A q \in Proc \ {p} : phase'[q] = phase[q]
      /\ todo'[p] = s /\ \A q \in Proc \ {p} : todo'[q] = todo[q]
  BY <1>2, <1>3
<1>5. p \notin Living /\ Living' = Living \cup {p}
  BY <1>2, <1>4 DEF Living, Over
<1>6. Has(p, "remove")' /\ \A q \in Proc \ {p} : Has(q, "remove")' = Has(q, "remove")
  BY <1>1, <1>4 DEF Has
<1>7. \A q \in Proc \ {p} : phase[q] \in {"boot", "serve"} => met'[q] # {}
  BY <1>2 DEF Living, Over
<1>8. RemovedIsFree'
  BY <1>2, <1>4, <1>6, <1>7 DEF ReachInv, RemovedIsFree, Alone
<1>9. FailedOnlyInBoot'
  BY <1>2, <1>4 DEF ReachInv, FailedOnlyInBoot
<1>10. LivingHaveMet'
  <2> SUFFICES ASSUME NEW q \in Living', NEW r \in Living', q # r PROVE r \in met'[q]
    BY DEF LivingHaveMet
  <2>1. q \in Proc /\ r \in Proc
    BY DEF Living
  <2>2. q # p => q \in Living
    BY <1>5
  <2>3. r # p => r \in Living
    BY <1>5
  <2>4. met'[q] = IF q = p THEN Living ELSE met[q] \cup {p}
    BY <1>2, <2>1, <2>2
  <2>5. q # p /\ r # p => r \in met[q]
    BY <2>2, <2>3 DEF ReachInv, LivingHaveMet
  <2> QED
    BY <2>3, <2>4, <2>5
<1>11. LoneProcessIsReachable'
  <2> SUFFICES ASSUME NEW q \in Proc, met'[q] = {}
               PROVE  phase'[q] # "noEndpoint" /\ (phase'[q] = "serve" => path = q)
    BY <1>2 DEF LoneProcessIsReachable
  <2>1. CASE q = p
    BY <1>4, <2>1
  <2>2. CASE q # p
    <3>1. met[q] = {}
      BY <1>2, <2>2
    <3> QED
      BY <1>4, <2>2, <3>1 DEF ReachInv, LoneProcessIsReachable
  <2> QED
    BY <2>1, <2>2
<1> QED
  BY <1>8, <1>9, <1>10, <1>11 DEF ReachInv

LEMMA EndKeepsReach ==
  ASSUME PlanInv, ReachInv, NEW p \in Proc, NEW how \in Over, End(p, how),
         path' = path \/ (path' = Nobody /\ p \in Living), how = "noEndpoint" => met[p] # {}
  PROVE  ReachInv'
<1>1. /\ phase' = [phase EXCEPT ![p] = how] /\ failed' = [failed EXCEPT ![p] = FALSE]
      /\ todo' = [g \in Thread |-> IF Host(g) = p THEN <<>> ELSE todo[g]] /\ met' = met
  BY DEF End
<1>2. /\ phase'[p] = how /\ \A q \in Proc \ {p} : phase'[q] = phase[q]
      /\ ~failed'[p] /\ \A q \in Proc \ {p} : failed'[q] = failed[q]
      /\ \A q \in Proc \ {p} : todo'[q] = todo[q]
  BY <1>1 DEF PlanInv, TypeOK, Thread, Host
<1>3. how \notin {"boot", "serve", "off"} /\ Living' = Living \ {p}
  BY <1>2 DEF Living, Over
<1>4. \A q \in Proc \ {p} : Has(q, "remove")' = Has(q, "remove")
  BY <1>2 DEF Has
<1>5. RemovedIsFree'
  BY <1>1, <1>2, <1>3, <1>4 DEF ReachInv, RemovedIsFree, Alone
<1>6. FailedOnlyInBoot'
  BY <1>2 DEF ReachInv, FailedOnlyInBoot
<1>7. LivingHaveMet'
  BY <1>1, <1>3 DEF ReachInv, LivingHaveMet
<1>8. LoneProcessIsReachable'
  <2> SUFFICES ASSUME NEW q \in Proc, met[q] = {}
               PROVE  phase'[q] # "noEndpoint" /\ (phase'[q] = "serve" => path' = q)
    BY <1>1 DEF LoneProcessIsReachable
  <2>1. CASE q = p
    BY <1>2, <1>3, <2>1
  <2>2. CASE q # p
    <3>1. phase[q] # "noEndpoint" /\ (phase[q] = "serve" => path = q)
      BY DEF ReachInv, LoneProcessIsReachable
    <3>2. ASSUME phase[q] = "serve" PROVE p \notin Living
      BY <2>2, <3>2 DEF ReachInv, LivingHaveMet, Living, Over
    <3> QED
      BY <1>2, <2>2, <3>1, <3>2
  <2> QED
    BY <2>1, <2>2
<1> QED
  BY <1>5, <1>6, <1>7, <1>8 DEF ReachInv

(* Main's steps that neither start nor end the process: at most its own      *)
(* phase and list change, and the path.                                      *)
LEMMA SocketStepKeepsReach ==
  ASSUME PlanInv, ReachInv, NEW p \in Proc,
         RemoveStale(p) \/ Bind(p) \/ CloseListener(p) \/ Drain(p) \/ Signal(p)
  PROVE  ReachInv'
<1> USE DEF historyVars
<1>1. UNCHANGED <<failed, met>>
  BY DEF RemoveStale, Bind, CloseListener, Drain, Signal
<1>2. \A q \in Proc \ {p} : todo'[q] = todo[q] /\ phase'[q] = phase[q]
  BY ZenonT(60) DEF RemoveStale, Bind, CloseListener, Drain, Signal, Then, PlanInv, TypeOK, Thread
<1>3. p \in Living /\ phase'[p] \in {"boot", "serve", "stop", "drain"}
  <2>1. CASE RemoveStale(p)
    <3>1. Making(p, "remove") /\ phase' = phase
      BY <2>1 DEF RemoveStale
    <3>2. phase[p] = "boot"
      BY <3>1, MainCall DEF CallName
    <3> QED
      BY <3>1, <3>2 DEF Living, Over
  <2>2. CASE Bind(p)
    <3>1. Making(p, "bind") /\ phase' = [phase EXCEPT ![p] = "serve"]
      BY <2>2 DEF Bind
    <3>2. phase[p] = "boot"
      BY <3>1, MainCall DEF CallName
    <3> QED
      BY <3>1, <3>2 DEF Living, Over, PlanInv, TypeOK
  <2>3. CASE CloseListener(p)
    <3>1. Making(p, "close") /\ phase' = [phase EXCEPT ![p] = "drain"]
      BY <2>3 DEF CloseListener
    <3>2. phase[p] \in {"stop", "drain"}
      BY <3>1, MainCall DEF CallName
    <3> QED
      BY <3>1, <3>2 DEF Living, Over, PlanInv, TypeOK
  <2>4. CASE Drain(p)
    <3>1. Making(p, "drain") /\ phase' = phase
      BY <2>4 DEF Drain
    <3>2. phase[p] \in {"stop", "drain"}
      BY <3>1, MainCall DEF CallName
    <3> QED
      BY <3>1, <3>2 DEF Living, Over
  <2>5. CASE Signal(p)
    <3>1. phase[p] = "serve" /\ phase' = [phase EXCEPT ![p] = "stop"]
      BY <2>5 DEF Signal
    <3> QED
      BY <3>1 DEF Living, Over, PlanInv, TypeOK
  <2> QED
    BY <2>1, <2>2, <2>3, <2>4, <2>5
<1>4. Living' = Living
  BY <1>2, <1>3 DEF Living, Over
<1>5. LivingHaveMet'
  BY <1>1, <1>4 DEF ReachInv, LivingHaveMet
<1>6. \A q \in Proc \ {p} : q \in Living => met[q] # {}
  BY <1>3 DEF ReachInv, LivingHaveMet
<1>7. \A q \in Proc \ {p} : Has(q, "remove")' = Has(q, "remove")
  BY <1>2 DEF Has
<1>8. /\ phase'[p] = "boot" /\ ~Has(p, "remove")' =>
           /\ ~failed[p] /\ path' = Nobody
           /\ \A x \in Steps(todo'[p]) : x.name = "bind"
      /\ phase'[p] # "boot" => ~failed[p]
      /\ phase'[p] = "serve" => path' = p
  <2>1. CASE RemoveStale(p)
    <3>1. Making(p, "remove") /\ ~failed[p] /\ path' = Nobody /\ phase' = phase /\ Then(p, <<>>)
      BY <2>1 DEF RemoveStale
    <3>2. /\ phase[p] = "boot" /\ todo[p] # <<>> /\ p \in Thread
          /\ \A x \in Steps(todo[p]) \ {Head(todo[p])} : x.name = "bind"
      BY <3>1, MainCall DEF CallName
    <3>3. <<>> \in Seq(CallSet) /\ Sorted(<<>>) /\ Steps(<<>>) = {}
      BY ShortLists
    <3>4. Steps(todo'[p]) = {} \cup (Steps(todo[p]) \ {Head(todo[p])})
      BY <3>1, <3>2, <3>3, ThenType, ZenonT(60) DEF PlanInv, TypeOK, CallSet
    <3> QED
      BY <3>1, <3>2, <3>4
  <2>2. CASE Bind(p)
    <3>1. Making(p, "bind") /\ phase' = [phase EXCEPT ![p] = "serve"] /\ path' = p
      BY <2>2 DEF Bind
    <3>2. phase[p] = "boot" /\ Steps(todo[p]) = {Head(todo[p])}
      BY <3>1, MainCall DEF CallName
    <3>3. ~Has(p, "remove")
      BY <3>1, <3>2 DEF Has, Making
    <3>4. ~failed[p]
      BY <3>2, <3>3 DEF ReachInv, RemovedIsFree
    <3>5. phase'[p] = "serve"
      BY <3>1 DEF PlanInv, TypeOK
    <3> QED
      BY <3>1, <3>4, <3>5
  <2>3. CASE CloseListener(p)
    <3>1. Making(p, "close") /\ phase' = [phase EXCEPT ![p] = "drain"]
      BY <2>3 DEF CloseListener
    <3>2. phase[p] \in {"stop", "drain"}
      BY <3>1, MainCall DEF CallName
    <3>3. phase'[p] = "drain" /\ ~failed[p]
      BY <3>1, <3>2 DEF PlanInv, TypeOK, ReachInv, FailedOnlyInBoot
    <3> QED
      BY <3>3
  <2>4. CASE Drain(p)
    <3>1. Making(p, "drain") /\ phase' = phase
      BY <2>4 DEF Drain
    <3>2. phase[p] \in {"stop", "drain"}
      BY <3>1, MainCall DEF CallName
    <3> QED
      BY <3>1, <3>2 DEF ReachInv, FailedOnlyInBoot
  <2>5. CASE Signal(p)
    <3>1. phase[p] = "serve" /\ phase'[p] = "stop"
      BY <2>5 DEF Signal, PlanInv, TypeOK
    <3> QED
      BY <3>1 DEF ReachInv, FailedOnlyInBoot
  <2> QED
    BY <2>1, <2>2, <2>3, <2>4, <2>5
<1>9. RemovedIsFree'
  <2>1. ASSUME NEW q \in Proc \ {p}, phase[q] = "boot", ~Has(q, "remove")
        PROVE  ~failed[q] /\ (\A x \in Steps(todo[q]) : x.name = "bind") /\ met[q] # {}
    <3>1. q \in Living
      BY <2>1 DEF Living, Over
    <3> QED
      BY <1>6, <2>1, <3>1 DEF ReachInv, RemovedIsFree
  <2> QED
    BY <1>1, <1>2, <1>7, <1>8, <2>1 DEF RemovedIsFree, Alone
<1>10. FailedOnlyInBoot'
  BY <1>1, <1>2, <1>8 DEF ReachInv, FailedOnlyInBoot
<1>11. LoneProcessIsReachable'
  <2> SUFFICES ASSUME NEW q \in Proc, met[q] = {}
               PROVE  phase'[q] # "noEndpoint" /\ (phase'[q] = "serve" => path' = q)
    BY <1>1 DEF LoneProcessIsReachable
  <2>1. CASE q = p
    BY <1>3, <1>8, <2>1
  <2>2. CASE q # p
    <3>1. phase[q] # "noEndpoint" /\ q \notin Living
      BY <1>6, <2>2 DEF ReachInv, LoneProcessIsReachable
    <3>2. phase[q] # "serve"
      BY <3>1 DEF Living, Over
    <3> QED
      BY <1>2, <2>2, <3>1, <3>2
  <2> QED
    BY <2>1, <2>2
<1> QED
  BY <1>5, <1>9, <1>10, <1>11 DEF ReachInv

LEMMA StepKeepsReach == PlanInv /\ ReachInv /\ [Next]_vars => ReachInv'
<1> SUFFICES ASSUME PlanInv, ReachInv, [Next]_vars PROVE ReachInv'
  OBVIOUS
<1>1. CASE UNCHANGED vars
  BY <1>1, UnmovedKeepsReach DEF vars, threadVars, historyVars
<1>2. ASSUME NEW c \in Caller, NEW p \in Proc,
             StartOrStop(c, p) \/ SetSenderFiles(c, p) \/ UpdateSettings(c, p)
      PROVE  ReachInv'
  <2>1. UNCHANGED <<phase, failed, path, met>>
    BY <1>2, RequestShape
  <2>2. PICK s \in Seq(CallSet) :
          /\ todo' = [todo EXCEPT ![c] = s] /\ Sorted(s)
          /\ \A x \in Steps(s) : x.name \in {"start", "stop", "reconcile"}
    BY <1>2, RequestShape
  <2>3. \A q \in Proc : todo'[q] = todo[q]
    BY <2>2, ProcIsNoCaller DEF PlanInv, TypeOK, Thread
  <2> QED
    BY <2>1, <2>3, UnmovedKeepsReach
<1>3. ASSUME NEW g \in Thread, CallStep(g) PROVE ReachInv'
  BY <1>3, CallStepKeepsReach
<1>4. ASSUME NEW p \in Proc, Boot(p) PROVE ReachInv'
  BY <1>4, BootKeepsReach
<1>5. ASSUME NEW p \in Proc, MainStep(p) \/ Signal(p) PROVE ReachInv'
  <2>1. CASE RemoveStale(p) \/ Bind(p) \/ CloseListener(p) \/ Drain(p) \/ Signal(p)
    BY <2>1, SocketStepKeepsReach
  <2>2. CASE BootFails(p)
    <3>1. End(p, "fatal") /\ "fatal" \in Over /\ path' = path
      BY <2>2 DEF BootFails, Over
    <3> QED
      BY <3>1, EndKeepsReach
  <2>3. CASE BindFails(p)
    <3>1. /\ End(p, "noEndpoint") /\ "noEndpoint" \in Over /\ path' = path
          /\ path # Nobody /\ Making(p, "bind")
      BY <2>3 DEF BindFails, Over
    <3>2. phase[p] = "boot" /\ Steps(todo[p]) = {Head(todo[p])}
      BY <3>1, MainCall DEF CallName
    <3>3. ~Has(p, "remove")
      BY <3>1, <3>2 DEF Has, Making
    <3>4. met[p] # {}
      BY <3>1, <3>2, <3>3 DEF ReachInv, RemovedIsFree, Alone
    <3> QED
      BY <3>1, <3>4, EndKeepsReach
  <2>4. CASE Exit(p)
    <3>1. End(p, "exited") /\ "exited" \in Over /\ path' = Nobody /\ Making(p, "unlink")
      BY <2>4 DEF Exit, Over
    <3>2. phase[p] \in {"stop", "drain"}
      BY <3>1, MainCall DEF CallName
    <3>3. p \in Living
      BY <3>2 DEF Living, Over
    <3> QED
      BY <3>1, <3>3, EndKeepsReach
  <2> QED
    BY <1>5, <2>1, <2>2, <2>3, <2>4 DEF MainStep
<1>6. ASSUME NEW p \in Proc, Kill(p) PROVE ReachInv'
  <2>1. End(p, "killed") /\ "killed" \in Over /\ path' = path
    BY <1>6 DEF Kill, Over
  <2> QED
    BY <2>1, EndKeepsReach
<1>7. ASSUME NEW p \in Proc, NEW h \in Half, RunEnds(p, h) PROVE ReachInv'
  <2>1. UNCHANGED <<phase, todo, failed, path, met>>
    BY <1>7 DEF RunEnds, threadVars
  <2> QED
    BY <2>1, UnmovedKeepsReach
<1> QED
  BY <1>1, <1>2, <1>3, <1>4, <1>5, <1>6, <1>7 DEF Next

LEMMA ReachAlways == Spec => []ReachInv
<1>1. Init => ReachInv
  BY InitReach
<1>2. PlanInv /\ ReachInv /\ [Next]_vars => ReachInv'
  BY StepKeepsReach
<1> QED
  BY <1>1, <1>2, PlansAlways, PTL DEF Spec

(* A process that no other one lived beside gets through ipc.Listen and can  *)
(* be reached while it serves, whatever those before it left at the path.    *)
(* Between RemoveStale and Bind only another living process could take the   *)
(* name, and once a process is bound only another living one could unlink    *)
(* it; two that live at once have met.                                       *)
THEOREM DaemonLoneProcessIsReachable == Spec => []LoneProcessIsReachable
<1>1. ReachInv => LoneProcessIsReachable
  BY DEF ReachInv
<1> QED
  BY <1>1, ReachAlways, PTL

-----------------------------------------------------------------------------
(* Settings and components.                                                  *)

(* What others do leaves the work of a process as it is.                     *)
LEMMA ElsewhereKeepsWork ==
  ASSUME NEW p \in Proc, Early(p) => WorkOf(p), Early(p)' => Early(p),
         enabled'[p] = enabled[p], running'[p] = running[p], lastError'[p] = lastError[p],
         p \in lapsed' <=> p \in lapsed,
         \A g \in Thread : (Host(g)' = p /\ todo'[g] # <<>>) <=> (Host(g) = p /\ todo[g] # <<>>),
         \A g \in Thread : Host(g) = p => todo'[g] = todo[g]
  PROVE  Early(p)' => WorkOf(p)'
<1> SUFFICES ASSUME Early(p)', WorkOf(p) PROVE WorkOf(p)'
  OBVIOUS
<1>1. Workers(p)' = Workers(p)
  BY DEF Workers
<1>2. \A g \in Workers(p) : todo'[g] = todo[g] /\ Has(g, "reconcile")' = Has(g, "reconcile")
  BY DEF Workers, Has
<1>3. \A h \in Half : Agrees(p, h)' <=> Agrees(p, h)
  BY DEF Agrees
<1>4. \A g, k \in Workers(p)' : g = k
  BY <1>1 DEF WorkOf
<1>5. \A h \in Half :
        Agrees(p, h)' \/ \E g \in Workers(p)' : \E x \in Steps(todo'[g]) : Touches(x, h)
  BY <1>1, <1>2, <1>3 DEF WorkOf
<1>6. \A g \in Workers(p)' : \A x \in Steps(todo'[g]) :
        /\ x.name \in {"refuse", "load"} => enabled'[p][x.half]
        /\ x.name = "start" => x.set \/ enabled'[p][x.half]
        /\ x.name = "stop" => x.set \/ ~enabled'[p][x.half] \/ Has(g, "reconcile")'
  BY <1>1, <1>2 DEF WorkOf
<1> QED
  BY <1>4, <1>5, <1>6 DEF WorkOf

(* The first call of the one worker there is gives way to others.            *)
LEMMA WorkerCallKeepsWork ==
  ASSUME PlanInv, NEW g \in Thread, todo[g] # <<>>, NEW p \in Proc, p = Host(g),
         WorkOf(p), UNCHANGED at,
         NEW calls \in Seq(CallSet), Sorted(calls), Then(g, calls),
         \A x \in Steps(calls) : Rank(x) <= Rank(Head(todo[g])),
         \A h \in Half :
           \/ Agrees(p, h)'
           \/ \E x \in Steps(calls) \cup (Steps(todo[g]) \ {Head(todo[g])}) : Touches(x, h),
         \A x \in Steps(calls) \cup (Steps(todo[g]) \ {Head(todo[g])}) :
           /\ x.name \in {"refuse", "load"} => enabled'[p][x.half]
           /\ x.name = "start" => x.set \/ enabled'[p][x.half]
           /\ x.name = "stop" =>
                \/ x.set \/ ~enabled'[p][x.half]
                \/ \E y \in Steps(calls) \cup (Steps(todo[g]) \ {Head(todo[g])}) :
                     y.name = "reconcile"
  PROVE  WorkOf(p)'
<1> DEFINE rest == Steps(calls) \cup (Steps(todo[g]) \ {Head(todo[g])})
<1>1. /\ todo' \in [Thread -> Seq(CallSet)] /\ Steps(todo'[g]) = rest
      /\ \A k \in Thread \ {g} : todo'[k] = todo[k]
  BY ThenType DEF PlanInv, TypeOK, CallSet
<1>2. \A k \in Thread : Host(k)' = Host(k)
  BY DEF Host
<1>3. g \in Workers(p) /\ Workers(p) = {g}
  BY DEF Workers, WorkOf
<1>4. Workers(p)' \subseteq {g}
  BY <1>1, <1>2, <1>3 DEF Workers
<1>5. rest # {} => g \in Workers(p)'
  <2>1. rest # {} => todo'[g] # <<>>
    BY <1>1, ShortLists
  <2> QED
    BY <1>2, <2>1 DEF Workers
<1>6. Has(g, "reconcile")' <=> \E x \in rest : x.name = "reconcile"
  BY <1>1 DEF Has
<1> HIDE DEF rest
<1>7. \A h \in Half : Agrees(p, h)' \/ \E x \in rest : Touches(x, h)
  BY DEF rest
<1>8. \A x \in rest :
        /\ x.name \in {"refuse", "load"} => enabled'[p][x.half]
        /\ x.name = "start" => x.set \/ enabled'[p][x.half]
        /\ x.name = "stop" => x.set \/ ~enabled'[p][x.half] \/ \E y \in rest : y.name = "reconcile"
  BY DEF rest
<1>9. \A k, l \in Workers(p)' : k = l
  BY <1>4
<1>10. \A h \in Half :
         Agrees(p, h)' \/ \E k \in Workers(p)' : \E x \in Steps(todo'[k]) : Touches(x, h)
  <2> SUFFICES ASSUME NEW h \in Half, NEW x \in rest, Touches(x, h)
               PROVE  \E k \in Workers(p)' : \E y \in Steps(todo'[k]) : Touches(y, h)
    BY <1>7
  <2>1. g \in Workers(p)' /\ x \in Steps(todo'[g])
    BY <1>1, <1>5
  <2> QED
    BY <2>1
<1>11. \A k \in Workers(p)' : \A x \in Steps(todo'[k]) :
         /\ x.name \in {"refuse", "load"} => enabled'[p][x.half]
         /\ x.name = "start" => x.set \/ enabled'[p][x.half]
         /\ x.name = "stop" => x.set \/ ~enabled'[p][x.half] \/ Has(k, "reconcile")'
  <2> SUFFICES ASSUME NEW k \in Workers(p)', NEW x \in Steps(todo'[k])
               PROVE  /\ x.name \in {"refuse", "load"} => enabled'[p][x.half]
                      /\ x.name = "start" => x.set \/ enabled'[p][x.half]
                      /\ x.name = "stop" => x.set \/ ~enabled'[p][x.half] \/ Has(k, "reconcile")'
    OBVIOUS
  <2>1. k = g /\ x \in rest
    BY <1>1, <1>4
  <2> QED
    BY <1>6, <1>8, <2>1
<1> QED
  BY <1>9, <1>10, <1>11 DEF WorkOf

(* What follows the first call deals with something else.                    *)
LEMMA RestIsElsewhere ==
  ASSUME PlanInv, NEW g \in Thread, todo[g] # <<>>
  PROVE  \A y \in Steps(todo[g]) \ {Head(todo[g])} :
           /\ Head(todo[g]).name \in HalfCall /\ y.name \in HalfCall => y.half # Head(todo[g]).half
           /\ Head(todo[g]).name = "reconcile" => y.name \notin HalfCall \cup {"reconcile"}
<1> DEFINE x == Head(todo[g])
<1>1. todo[g] \in Seq(CallSet) /\ Sorted(todo[g])
  BY HostType DEF PlanInv, ListsSorted
<1>2. /\ \A y \in Steps(todo[g]) \ {x} : Rank(x) < Rank(y)
      /\ x \in CallSet /\ Steps(todo[g]) \subseteq CallSet
  BY <1>1, StepsOfTail, StepsType
<1> HIDE DEF x
<1> SUFFICES ASSUME NEW y \in Steps(todo[g]) \ {x}
             PROVE  /\ x.name \in HalfCall /\ y.name \in HalfCall => y.half # x.half
                    /\ x.name = "reconcile" => y.name \notin HalfCall \cup {"reconcile"}
  BY DEF x
<1>3. Rank(x) < Rank(y) /\ x \in CallSet /\ y \in CallSet
  BY <1>2
<1> QED
  BY <1>3 DEF Rank, HalfCall, CallSet, Half

LEMMA CallStepKeepsWork ==
  ASSUME PlanInv, NEW g \in Thread, CallStep(g), NEW p \in Proc, p = Host(g), WorkOf(p)
  PROVE  WorkOf(p)'
<1> USE DEF historyVars, daemonVars
<1> PICK x : x = Head(todo[g])
  OBVIOUS
<1> DEFINE rest == Steps(todo[g]) \ {x}
<1>1. todo[g] # <<>> /\ UNCHANGED <<at, haveFiles>>
  BY CallStepShape
<1>2. /\ p \in Proc /\ x \in CallSet /\ x \in Steps(todo[g]) /\ x.half \in Half
      /\ x.set \in BOOLEAN
  BY <1>1, HostType
<1>3. \A y \in rest :
        /\ x.name \in HalfCall /\ y.name \in HalfCall => y.half # x.half
        /\ x.name = "reconcile" => y.name \notin HalfCall \cup {"reconcile"}
  BY <1>1, RestIsElsewhere
<1>4. g \in Workers(p) /\ Workers(p) = {g}
  BY <1>1 DEF Workers, WorkOf
<1>5. /\ x.name \in {"refuse", "load"} => enabled[p][x.half]
      /\ x.name = "start" => x.set \/ enabled[p][x.half]
      /\ x.name = "stop" => x.set \/ ~enabled[p][x.half] \/ Has(g, "reconcile")
  BY <1>2, <1>4 DEF WorkOf
<1>6. \A y \in rest :
        /\ y.name \in {"refuse", "load"} => enabled[p][y.half]
        /\ y.name = "start" => y.set \/ enabled[p][y.half]
        /\ y.name = "stop" => y.set \/ ~enabled[p][y.half] \/ Has(g, "reconcile")
  BY <1>4 DEF WorkOf
<1>7. Has(g, "reconcile") /\ x.name # "reconcile" => \E y \in rest : y.name = "reconcile"
  BY DEF Has
<1>8. \A h \in Half : Agrees(p, h) \/ Touches(x, h) \/ \E y \in rest : Touches(y, h)
  BY <1>4 DEF WorkOf
<1>9. \A y \in Steps(todo[g]) : y \in CallSet
  BY <1>1, HostType, StepsType
<1>10. /\ enabled \in [Proc -> [Half -> BOOLEAN]] /\ running \in [Proc -> [Half -> BOOLEAN]]
       /\ lastError \in [Proc -> [Half -> BOOLEAN]]
  BY DEF PlanInv, TypeOK
<1>11. <<>> \in Seq(CallSet) /\ Sorted(<<>>) /\ Steps(<<>>) = {}
  BY ShortLists
<1>12. \A y \in rest : y.half \in Half
  BY <1>9 DEF CallSet
<1> HIDE DEF rest
(* A call for one half, which leaves the other half alone.                   *)
<1>13. ASSUME x.name \in HalfCall,
              \A h \in Half \ {x.half} : /\ enabled'[p][h] = enabled[p][h]
                                         /\ Agrees(p, h)' <=> Agrees(p, h)
       PROVE  /\ \A h \in Half \ {x.half} : Agrees(p, h)' \/ \E y \in rest : Touches(y, h)
              /\ \A y \in rest :
                   /\ y.name \in {"refuse", "load"} => enabled'[p][y.half]
                   /\ y.name = "start" => y.set \/ enabled'[p][y.half]
                   /\ y.name = "stop" =>
                        \/ y.set \/ ~enabled'[p][y.half]
                        \/ \E z \in rest : z.name = "reconcile"
  <2>1. x.name # "reconcile"
    BY <1>13 DEF HalfCall
  <2>2. \A h \in Half \ {x.half} : ~Touches(x, h)
    BY <2>1 DEF Touches
  <2>3. \A h \in Half \ {x.half} : Agrees(p, h)' \/ \E y \in rest : Touches(y, h)
    BY <1>8, <1>13, <2>2
  <2>4. ASSUME NEW y \in rest, y.name \in HalfCall PROVE enabled'[p][y.half] = enabled[p][y.half]
    <3>1. y.half \in Half \ {x.half}
      BY <1>3, <1>12, <1>13, <2>4
    <3> QED
      BY <1>13, <3>1
  <2>5. \A y \in rest :
          /\ y.name \in {"refuse", "load"} => enabled'[p][y.half]
          /\ y.name = "start" => y.set \/ enabled'[p][y.half]
          /\ y.name = "stop" =>
               \/ y.set \/ ~enabled'[p][y.half]
               \/ \E z \in rest : z.name = "reconcile"
    BY <1>6, <1>7, <2>1, <2>4 DEF HalfCall
  <2> QED
    BY <2>3, <2>5
<1> DEFINE
      Dealt(calls) == \A h \in Half : Agrees(p, h)' \/ \E y \in Steps(calls) \cup rest : Touches(y, h)
      Fitting(calls) ==
        \A y \in Steps(calls) \cup rest :
          /\ y.name \in {"refuse", "load"} => enabled'[p][y.half]
          /\ y.name = "start" => y.set \/ enabled'[p][y.half]
          /\ y.name = "stop" =>
               \/ y.set \/ ~enabled'[p][y.half]
               \/ \E z \in Steps(calls) \cup rest : z.name = "reconcile"
<1>14. ASSUME NEW calls \in Seq(CallSet), Sorted(calls), Then(g, calls),
              \A y \in Steps(calls) : Rank(y) <= Rank(x),
              Dealt(calls), Fitting(calls)
       PROVE  WorkOf(p)'
  BY <1>1, <1>14, WorkerCallKeepsWork DEF rest
<1>15. CASE StartFails(g)
  <2>1. /\ x.name \in {"refuse", "load"} /\ Then(g, <<>>)
        /\ lastError' = [lastError EXCEPT ![p][x.half] = TRUE]
        /\ UNCHANGED <<enabled, running, lapsed>>
    BY <1>15 DEF StartFails, Making
  <2>2. lastError'[p][x.half] /\ \A h \in Half \ {x.half} : lastError'[p][h] = lastError[p][h]
    BY <1>2, <1>10, <2>1
  <2>3. Agrees(p, x.half)'
    BY <1>5, <2>1, <2>2 DEF Agrees
  <2>4. \A h \in Half \ {x.half} : enabled'[p][h] = enabled[p][h] /\ (Agrees(p, h)' <=> Agrees(p, h))
    BY <2>1, <2>2 DEF Agrees
  <2>5. x.name \in HalfCall
    BY <2>1 DEF HalfCall
  <2>6. Dealt(<<>>) /\ Fitting(<<>>)
    BY <1>11, <1>13, <2>3, <2>4, <2>5
  <2> QED
    BY <1>11, <1>14, <2>1, <2>6
<1>16. CASE Install(g)
  <2>1. /\ x.name = "load" /\ Then(g, <<>>)
        /\ running' = [running EXCEPT ![p][x.half] = TRUE]
        /\ lastError' = [lastError EXCEPT ![p][x.half] = FALSE]
        /\ lapsed' = IF x.half = "listener" THEN lapsed \ {p} ELSE lapsed
        /\ UNCHANGED enabled
    BY <1>16 DEF Install, Making
  <2>2. /\ running'[p][x.half]
        /\ \A h \in Half \ {x.half} : running'[p][h] = running[p][h] /\ lastError'[p][h] = lastError[p][h]
    BY <1>2, <1>10, <2>1
  <2>3. Agrees(p, x.half)'
    BY <1>5, <2>1, <2>2 DEF Agrees
  <2>4. ASSUME NEW h \in Half \ {x.half}
        PROVE  enabled'[p][h] = enabled[p][h] /\ (Agrees(p, h)' <=> Agrees(p, h))
    <3>1. h = "listener" => (p \in lapsed' <=> p \in lapsed)
      BY <1>2, <2>1
    <3> QED
      BY <2>1, <2>2, <3>1 DEF Agrees
  <2>5. x.name \in HalfCall
    BY <2>1 DEF HalfCall
  <2>6. Dealt(<<>>) /\ Fitting(<<>>)
    BY <1>11, <1>13, <2>3, <2>4, <2>5, SMTT(60)
  <2> QED
    BY <1>11, <1>14, <2>1, <2>6
<1>17. CASE StopHalf(g)
  <2>1. /\ x.name = "stop" /\ Then(g, <<>>)
        /\ enabled' = [enabled EXCEPT ![p][x.half] = enabled[p][x.half] /\ ~x.set]
        /\ running' = [running EXCEPT ![p][x.half] = FALSE]
        /\ UNCHANGED <<lastError, lapsed>>
    BY <1>17 DEF StopHalf, Making
  <2>2. /\ ~running'[p][x.half] /\ enabled'[p][x.half] = (enabled[p][x.half] /\ ~x.set)
        /\ \A h \in Half \ {x.half} : running'[p][h] = running[p][h] /\ enabled'[p][h] = enabled[p][h]
    BY <1>2, <1>10, <2>1, ZenonT(60)
  <2>3. Agrees(p, x.half)' \/ \E y \in rest : Touches(y, x.half)
    <3>1. CASE x.set \/ ~enabled[p][x.half]
      BY <2>2, <3>1 DEF Agrees
    <3>2. CASE Has(g, "reconcile")
      <4>1. \E y \in rest : y.name = "reconcile"
        BY <1>7, <2>1, <3>2
      <4> QED
        BY <4>1 DEF Touches
    <3> QED
      BY <1>5, <2>1, <3>1, <3>2
  <2>4. \A h \in Half \ {x.half} : enabled'[p][h] = enabled[p][h] /\ (Agrees(p, h)' <=> Agrees(p, h))
    BY <2>1, <2>2 DEF Agrees
  <2>5. x.name \in HalfCall
    BY <2>1 DEF HalfCall
  <2>6. Dealt(<<>>) /\ Fitting(<<>>)
    BY <1>11, <1>13, <2>3, <2>4, <2>5
  <2> QED
    BY <1>11, <1>14, <2>1, <2>6
<1>18. CASE StartCheck(g)
  <2>1. /\ x.name = "start"
        /\ enabled' = [enabled EXCEPT ![p][x.half] = enabled[p][x.half] \/ x.set]
        /\ UNCHANGED <<running, lastError, lapsed>>
    BY <1>18 DEF StartCheck, Making
  <2>2. /\ enabled'[p][x.half]
        /\ \A h \in Half \ {x.half} : enabled'[p][h] = enabled[p][h]
    <3>1. enabled'[p][x.half] = (enabled[p][x.half] \/ x.set)
      BY <1>2, <1>10, <2>1
    <3>2. \A h \in Half \ {x.half} : enabled'[p][h] = enabled[p][h]
      BY <1>2, <1>10, <2>1
    <3> QED
      BY <1>5, <2>1, <3>1, <3>2
  <2>3. \A h \in Half \ {x.half} : enabled'[p][h] = enabled[p][h] /\ (Agrees(p, h)' <=> Agrees(p, h))
    BY <2>1, <2>2 DEF Agrees
  <2>4. x.name \in HalfCall
    BY <2>1 DEF HalfCall
  <2>5. CASE running[p][x.half]
    <3>1. Then(g, <<>>)
      BY <1>18, <2>5 DEF StartCheck
    <3>2. Agrees(p, x.half)'
      BY <2>1, <2>2, <2>5 DEF Agrees
    <3>3. Dealt(<<>>) /\ Fitting(<<>>)
      BY <1>11, <1>13, <2>3, <2>4, <3>2
    <3> QED
      BY <1>11, <1>14, <3>1, <3>3
  <2>6. CASE ~running[p][x.half]
    <3>1. PICK name \in {"refuse", "load"} : Then(g, <<Call(name, x.half, FALSE)>>)
      BY <1>18, <2>6 DEF StartCheck
    <3> DEFINE c == Call(name, x.half, FALSE)
    <3>2. name \in CallName /\ name \in HalfCall /\ FALSE \in BOOLEAN
      BY DEF CallName, HalfCall
    <3>3. /\ c \in CallSet /\ c.name = name /\ c.half = x.half
          /\ Rank(c) = IF x.half = "sender" THEN 1 ELSE 2
      <4>1. x.half \in Half
        BY <1>2
      <4>2. c \in CallSet /\ c.name = name /\ c.half = x.half
        BY <3>2, <4>1, CallFields, ZenonT(60)
      <4>3. Rank(c) = IF x.half = "sender" THEN 1 ELSE 2
        BY <3>2, <4>1, CallRank, Zenon
      <4> QED
        BY <4>2, <4>3
    <3>4. Then(g, <<c>>)
      BY <3>1
    <3> HIDE DEF c
    <3>5. <<c>> \in Seq(CallSet) /\ Sorted(<<c>>) /\ Steps(<<c>>) = {c}
      BY <3>3, ShortLists
    <3>6. Rank(x) = IF x.half = "sender" THEN 1 ELSE 2
      BY <2>4 DEF Rank
    <3>7. \A y \in Steps(<<c>>) : Rank(y) <= Rank(x)
      BY <3>3, <3>5, <3>6
    <3>8. Touches(c, x.half)
      BY <3>2, <3>3 DEF Touches
    <3>9. Dealt(<<c>>)
      BY <1>13, <2>3, <2>4, <3>5, <3>8
    <3>10. c.name # "start" /\ c.name # "stop" /\ enabled'[p][c.half]
      BY <2>2, <3>3
    <3>11. Fitting(<<c>>)
      BY <1>13, <2>3, <2>4, <3>5, <3>10
    <3> QED
      BY <1>14, <3>4, <3>5, <3>7, <3>9, <3>11
  <2> QED
    BY <2>5, <2>6, SMTT(60)
<1>19. CASE Reconcile(g)
  <2> DEFINE a == Call(IF enabled[p]["sender"] THEN "start" ELSE "stop", "sender", FALSE)
             b == Call(IF enabled[p]["listener"] THEN "start" ELSE "stop", "listener", FALSE)
  <2>1. Then(g, <<a, b>>) /\ x.name = "reconcile" /\ UNCHANGED enabled
    BY <1>19 DEF Reconcile, Making
  <2>2. /\ a \in CallSet /\ a.name = (IF enabled[p]["sender"] THEN "start" ELSE "stop")
        /\ a.half = "sender" /\ a.name \in HalfCall /\ Rank(a) = 1
        /\ b \in CallSet /\ b.name = (IF enabled[p]["listener"] THEN "start" ELSE "stop")
        /\ b.half = "listener" /\ b.name \in HalfCall /\ Rank(b) = 2
    BY DEF Call, CallSet, CallName, Half, Rank, HalfCall
  <2> HIDE DEF a, b
  <2>3. <<a, b>> \in Seq(CallSet) /\ Steps(<<a, b>>) = {a, b} /\ Sorted(<<a, b>>)
    BY <2>2, ShortLists
  <2>4. Rank(x) = 3
    BY <2>1 DEF Rank, HalfCall
  <2>5. \A y \in Steps(<<a, b>>) : Rank(y) <= Rank(x)
    BY <2>2, <2>3, <2>4
  <2>6. Touches(a, "sender") /\ Touches(b, "listener")
    BY <2>2 DEF Touches
  <2>7. Dealt(<<a, b>>)
    BY <2>3, <2>6 DEF Half
  <2>8. \A y \in rest : y.name \notin HalfCall
    BY <1>3, <2>1
  <2>9. Fitting(<<a, b>>)
    BY <2>1, <2>2, <2>3, <2>8 DEF HalfCall
  <2> QED
    BY <1>14, <2>1, <2>3, <2>5, <2>7, <2>9
<1> QED
  BY <1>15, <1>16, <1>17, <1>18, <1>19 DEF CallStep

(* A process that nobody works for has been left with both halves agreeing.  *)
LEMMA RestedAgrees ==
  ASSUME NEW p \in Proc, WorkOf(p), Workers(p) = {}
  PROVE  \A h \in Half : Agrees(p, h)
  BY DEF WorkOf

(* Main does not serve, and a process that serves has only requests.         *)
LEMMA ServeWorkers ==
  ASSUME PlanInv, NEW p \in Proc, phase[p] = "serve"
  PROVE  Workers(p) = InFlight(p)
<1>1. todo[p] = <<>>
  BY DEF PlanInv, TypeOK
<1>2. \A q \in Proc : Host(q) = q
  BY DEF Host
<1>3. \A c \in Caller : c \notin Proc /\ Host(c) = at[c]
  BY ProcIsNoCaller DEF Host
<1>4. \A g \in Workers(p) : g \in InFlight(p)
  BY <1>1, <1>2, <1>3 DEF Workers, InFlight, Thread
<1>5. \A c \in InFlight(p) : c \in Workers(p)
  BY <1>3 DEF Workers, InFlight, Thread
<1> QED
  BY <1>4, <1>5

(* Before it serves, only main works for a process.                          *)
LEMMA BootWorkers ==
  ASSUME PlanInv, NEW p \in Proc, phase[p] \in {"off", "boot"}
  PROVE  /\ \A c \in Caller : Host(c) # p
         /\ \A g \in Thread : Host(g) = p => g = p
<1>1. \A c \in Caller : Host(c) = at[c] /\ at[c] # p
  BY ProcIsNoCaller DEF Host, PlanInv, PlansFit
<1>2. \A q \in Proc : Host(q) = q
  BY DEF Host
<1> QED
  BY <1>1, <1>2 DEF Thread

LEMMA InitWork == Init => WorkFits
  BY DEF Init, WorkFits, Early

LEMMA RequestKeepsWork ==
  ASSUME PlanInv, WorkFits, NEW c \in Caller, NEW p \in Proc,
         StartOrStop(c, p) \/ SetSenderFiles(c, p) \/ UpdateSettings(c, p)
  PROVE  WorkFits'
<1>1. /\ todo[c] = <<>> /\ phase[p] \in {"serve", "stop"}
      /\ at' = [at EXCEPT ![c] = p]
      /\ UNCHANGED <<phase, failed, running, lastError, path, lapsed, met>>
  BY RequestGuards, Zenon
<1>2. PICK s \in Seq(CallSet) :
        /\ todo' = [todo EXCEPT ![c] = s] /\ Sorted(s)
        /\ \A x \in Steps(s) : x.name \in {"start", "stop", "reconcile"}
        /\ UpdateSettings(c, p) =>
             /\ \E x \in Steps(s) : x.name = "reconcile"
             /\ \A x \in Steps(s) : x.name \in {"stop", "reconcile"}
        /\ SetSenderFiles(c, p) => s = <<>>
        /\ StartOrStop(c, p) => \E h \in Half, name \in {"start", "stop"} : s = <<Call(name, h, TRUE)>>
  BY RequestShape, ZenonT(60)
<1>3. c \in Thread /\ c \notin Proc /\ \A k \in Caller : k \notin Proc
  BY ProcIsNoCaller DEF Thread
<1>4. /\ todo \in [Thread -> Seq(CallSet)] /\ at \in [Caller -> Proc \cup {Nobody}]
      /\ crossed \in [Proc -> BOOLEAN] /\ enabled \in [Proc -> [Half -> BOOLEAN]]
  BY DEF PlanInv, TypeOK, CallSet
<1>5. todo'[c] = s /\ \A g \in Thread \ {c} : todo'[g] = todo[g]
  BY <1>2, <1>3, <1>4
<1>6. Host(c)' = p /\ \A g \in Thread \ {c} : Host(g)' = Host(g)
  BY <1>1, <1>3, <1>4 DEF Host, Thread
<1>7. \A q \in Proc \ {p} : enabled'[q] = enabled[q] /\ crossed'[q] = crossed[q]
  BY <1>4 DEF StartOrStop, SetSenderFiles, UpdateSettings, Crossing
<1>8. ASSUME NEW q \in Proc \ {p} PROVE Early(q)' => WorkOf(q)'
  <2>1. Early(q)' => Early(q)
    BY <1>1, <1>7 DEF Early
  <2>2. \A g \in Thread : (Host(g)' = q /\ todo'[g] # <<>>) <=> (Host(g) = q /\ todo[g] # <<>>)
    BY <1>1, <1>5, <1>6
  <2>3. CASE Host(c) = q /\ s # <<>>
    <3>1. Workers(q)' = Workers(q) /\ c \notin Workers(q)
      BY <1>1, <2>2 DEF Workers
    <3>2. \A g \in Workers(q) : todo'[g] = todo[g] /\ Has(g, "reconcile")' = Has(g, "reconcile")
      BY <1>5, <3>1 DEF Workers, Has
    <3>3. \A h \in Half : Agrees(q, h)' <=> Agrees(q, h)
      BY <1>1, <1>7 DEF Agrees
    <3> QED
      BY <1>7, <2>1, <3>1, <3>2, <3>3 DEF WorkFits, WorkOf
  <2>4. CASE Host(c) # q \/ s = <<>>
    <3>1. \A g \in Thread : Host(g) = q => todo'[g] = todo[g]
      BY <1>1, <1>5, <2>4
    <3>2. Early(q) => WorkOf(q)
      BY DEF WorkFits
    <3> QED
      BY <1>1, <1>7, <2>1, <2>2, <3>1, <3>2, ElsewhereKeepsWork
  <2> QED
    BY <2>3, <2>4
<1>9. ASSUME Early(p)' PROVE WorkOf(p)'
  <2>1. phase[p] = "serve" /\ ~crossed'[p]
    BY <1>1, <1>9 DEF Early
  <2>2. InFlight(p) = {}
    BY <1>4, <2>1 DEF StartOrStop, SetSenderFiles, UpdateSettings, Crossing
  <2>3. Workers(p) = {}
    BY <2>1, <2>2, ServeWorkers
  <2>4. Workers(p)' = IF s = <<>> THEN {} ELSE {c}
    BY <1>3, <1>5, <1>6, <2>3 DEF Workers
  <2>5. CASE UpdateSettings(c, p)
    <3>1. Has(c, "reconcile")' /\ s # <<>>
      BY <1>2, <1>5, <2>5, ShortLists DEF Has
    <3>2. \E x \in Steps(todo'[c]) : \A h \in Half : Touches(x, h)
      BY <1>2, <1>5, <2>5 DEF Touches
    <3>3. \A x \in Steps(todo'[c]) : x.name \notin {"refuse", "load", "start"}
      BY <1>2, <1>5, <2>5
    <3> QED
      BY <2>4, <3>1, <3>2, <3>3 DEF WorkOf
  <2>6. CASE ~UpdateSettings(c, p)
    <3>1. UNCHANGED enabled /\ ~crossed[p]
      BY <1>4, <2>1, <2>6 DEF StartOrStop, SetSenderFiles, Crossing
    <3>2. WorkOf(p)
      BY <2>1, <3>1 DEF WorkFits, Early
    <3>3. \A h \in Half : Agrees(p, h)
      BY <2>3, <3>2, RestedAgrees
    <3>4. \A h \in Half : Agrees(p, h)'
      BY <1>1, <3>1, <3>3 DEF Agrees
    <3>5. CASE s = <<>>
      BY <2>4, <3>4, <3>5 DEF WorkOf
    <3>6. CASE s # <<>>
      <4>1. PICK h \in Half, name \in {"start", "stop"} : s = <<Call(name, h, TRUE)>>
        BY <1>2, <2>6, <3>6
      <4> DEFINE x == Call(name, h, TRUE)
      <4>2. name \in CallName /\ TRUE \in BOOLEAN
        BY DEF CallName
      <4>3. x \in CallSet /\ x.name = name /\ x.set = TRUE
        BY <4>2, CallFields, Zenon
      <4>4. s = <<x>>
        BY <4>1
      <4> HIDE DEF x
      <4>5. Steps(s) = {x}
        BY <4>3, <4>4, ShortLists
      <4> QED
        BY <1>5, <2>4, <3>4, <4>3, <4>5 DEF WorkOf
    <3> QED
      BY <3>5, <3>6
  <2> QED
    BY <2>5, <2>6
<1> QED
  BY <1>8, <1>9 DEF WorkFits

LEMMA RunEndKeepsWork ==
  ASSUME PlanInv, WorkFits, NEW p \in Proc, NEW h \in Half, RunEnds(p, h)
  PROVE  WorkFits'
<1>1. /\ UNCHANGED <<phase, todo, at, enabled, crossed>>
      /\ running' = [running EXCEPT ![p][h] = FALSE]
      /\ \/ h = "sender" /\ lastError' = [lastError EXCEPT ![p][h] = TRUE] /\ UNCHANGED lapsed
         \/ h = "listener" /\ lapsed' = lapsed \cup {p} /\ UNCHANGED lastError
  BY DEF RunEnds, threadVars
<1>2. running \in [Proc -> [Half -> BOOLEAN]] /\ lastError \in [Proc -> [Half -> BOOLEAN]]
  BY DEF PlanInv, TypeOK
<1>3. \A q \in Proc : Early(q)' = Early(q) /\ Workers(q)' = Workers(q)
  BY <1>1 DEF Early, Workers, Host
<1>4. \A g \in Thread : Has(g, "reconcile")' = Has(g, "reconcile")
  BY <1>1 DEF Has
<1>5. ASSUME NEW q \in Proc, NEW k \in Half, Agrees(q, k) PROVE Agrees(q, k)'
  <2>1. CASE q = p /\ k = h
    <3>1. ~running'[p][h] /\ (h = "sender" => lastError'[p][h]) /\ (h = "listener" => p \in lapsed')
      BY <1>1, <1>2
    <3> QED
      BY <2>1, <3>1 DEF Agrees, Half
  <2>2. CASE ~(q = p /\ k = h)
    <3>1. running'[q][k] = running[q][k]
      BY <1>1, <1>2, <2>2
    <3>2. lastError'[q][k] = lastError[q][k] /\ (q \in lapsed => q \in lapsed')
      BY <1>1, <1>2, <2>2
    <3> QED
      BY <1>1, <1>5, <3>1, <3>2 DEF Agrees
  <2> QED
    BY <2>1, <2>2
<1> SUFFICES ASSUME NEW q \in Proc, Early(q), WorkOf(q) PROVE WorkOf(q)'
  BY <1>3 DEF WorkFits
<1>6. \A k \in Half :
        Agrees(q, k)' \/ \E g \in Workers(q)' : \E x \in Steps(todo'[g]) : Touches(x, k)
  BY <1>1, <1>3, <1>5 DEF WorkOf
<1>7. \A g, k \in Workers(q)' : g = k
  BY <1>3 DEF WorkOf
<1>8. \A g \in Workers(q)' : \A x \in Steps(todo'[g]) :
        /\ x.name \in {"refuse", "load"} => enabled'[q][x.half]
        /\ x.name = "start" => x.set \/ enabled'[q][x.half]
        /\ x.name = "stop" => x.set \/ ~enabled'[q][x.half] \/ Has(g, "reconcile")'
  BY <1>1, <1>3, <1>4 DEF WorkOf, Workers
<1> QED
  BY <1>6, <1>7, <1>8 DEF WorkOf

LEMMA BootKeepsWork ==
  ASSUME PlanInv, WorkFits, NEW p \in Proc, Boot(p)
  PROVE  WorkFits'
<1> DEFINE s == <<Plain("reconcile"), Plain("remove"), Plain("bind")>>
<1>1. /\ Plain("reconcile") \in Steps(s) /\ Plain("reconcile").name = "reconcile" /\ s \in Seq(CallSet)
      /\ \A x \in Steps(s) : x.name \in {"reconcile", "remove", "bind"}
  BY BootList, PlainType DEF CallName
<1> HIDE DEF s
<1>2. /\ phase[p] = "off" /\ phase' = [phase EXCEPT ![p] = "boot"]
      /\ todo' = [todo EXCEPT ![p] = s]
      /\ UNCHANGED <<at, running, lastError, crossed, lapsed>>
      /\ \E on \in [Half -> BOOLEAN] : enabled' = [enabled EXCEPT ![p] = on]
  BY DEF Boot, s
<1>3. p \in Thread /\ \A g \in Thread : Host(g)' = Host(g)
  BY <1>2 DEF Host, Thread
<1>4. /\ \A q \in Proc \ {p} : phase'[q] = phase[q] /\ enabled'[q] = enabled[q]
      /\ todo'[p] = s /\ \A g \in Thread \ {p} : todo'[g] = todo[g]
  BY <1>2, <1>3 DEF PlanInv, TypeOK
<1>5. Host(p) = p /\ \A g \in Thread : Host(g) = p => g = p
  BY <1>2, BootWorkers DEF Host
<1>6. ASSUME NEW q \in Proc \ {p} PROVE Early(q)' => WorkOf(q)'
  <2>1. Early(q)' => Early(q)
    BY <1>2, <1>4 DEF Early
  <2>2. \A g \in Thread : Host(g) = q => todo'[g] = todo[g]
    BY <1>4, <1>5
  <2>3. \A g \in Thread : (Host(g)' = q /\ todo'[g] # <<>>) <=> (Host(g) = q /\ todo[g] # <<>>)
    BY <1>3, <2>2
  <2>4. Early(q) => WorkOf(q)
    BY DEF WorkFits
  <2> QED
    BY <1>2, <1>4, <2>1, <2>2, <2>3, <2>4, ElsewhereKeepsWork
<1>7. WorkOf(p)'
  <2>1. s # <<>>
    BY <1>1, ShortLists
  <2>2. Workers(p)' = {p}
    BY <1>3, <1>4, <1>5, <2>1 DEF Workers
  <2>3. \E x \in Steps(todo'[p]) : \A h \in Half : Touches(x, h)
    BY <1>1, <1>4 DEF Touches
  <2>4. \A x \in Steps(todo'[p]) : x.name \notin {"refuse", "load", "start", "stop"}
    BY <1>1, <1>4
  <2> QED
    BY <2>2, <2>3, <2>4 DEF WorkOf
<1> QED
  BY <1>6, <1>7 DEF WorkFits

LEMMA EndKeepsWork ==
  ASSUME PlanInv, WorkFits, NEW p \in Proc, NEW how \in Over, End(p, how)
  PROVE  WorkFits'
<1>1. /\ phase' = [phase EXCEPT ![p] = how]
      /\ todo' = [g \in Thread |-> IF Host(g) = p THEN <<>> ELSE todo[g]]
      /\ at' = [c \in Caller |-> IF at[c] = p THEN Nobody ELSE at[c]]
      /\ enabled' = [enabled EXCEPT ![p] = Neither] /\ running' = [running EXCEPT ![p] = Neither]
      /\ lastError' = [lastError EXCEPT ![p] = Neither] /\ crossed' = [crossed EXCEPT ![p] = FALSE]
      /\ lapsed' = lapsed \ {p}
  BY DEF End
<1>2. /\ phase'[p] = how /\ how \notin {"boot", "serve"}
      /\ \A q \in Proc \ {p} :
           /\ phase'[q] = phase[q] /\ enabled'[q] = enabled[q] /\ running'[q] = running[q]
           /\ lastError'[q] = lastError[q] /\ crossed'[q] = crossed[q]
           /\ q \in lapsed' <=> q \in lapsed
  BY <1>1 DEF PlanInv, TypeOK, Over
<1>3. ~Early(p)'
  BY <1>2 DEF Early
<1>4. ASSUME NEW q \in Proc \ {p} PROVE Early(q)' => WorkOf(q)'
  <2>1. Early(q)' => Early(q)
    BY <1>2 DEF Early
  <2>2. \A g \in Thread : Host(g) = q => todo'[g] = todo[g]
    BY <1>1
  <2>3. ASSUME NEW g \in Thread PROVE Host(g)' = q <=> Host(g) = q
    <3>1. CASE g \in Proc
      BY <3>1 DEF Host
    <3>2. CASE g \in Caller
      <4>1. Host(g)' = at'[g] /\ Host(g) = at[g] /\ q # Nobody
        BY <3>2, ProcIsNoCaller DEF Host
      <4> QED
        BY <1>1, <3>2, <4>1
    <3> QED
      BY <3>1, <3>2 DEF Thread
  <2>4. \A g \in Thread : (Host(g)' = q /\ todo'[g] # <<>>) <=> (Host(g) = q /\ todo[g] # <<>>)
    BY <2>2, <2>3
  <2>5. Early(q) => WorkOf(q)
    BY DEF WorkFits
  <2> QED
    BY <1>2, <2>1, <2>2, <2>4, <2>5, ElsewhereKeepsWork
<1> QED
  BY <1>3, <1>4 DEF WorkFits

LEMMA SocketStepKeepsWork ==
  ASSUME PlanInv, WorkFits, NEW p \in Proc,
         RemoveStale(p) \/ Bind(p) \/ CloseListener(p) \/ Drain(p) \/ Signal(p)
  PROVE  WorkFits'
<1> USE DEF historyVars, daemonVars
<1>1. UNCHANGED <<at, enabled, running, lastError, crossed, lapsed>>
  BY DEF RemoveStale, Bind, CloseListener, Drain, Signal
<1>2. \A g \in Thread : Host(g)' = Host(g)
  BY <1>1 DEF Host
<1>3. /\ \A q \in Proc \ {p} : phase'[q] = phase[q]
      /\ \A g \in Thread \ {p} : todo'[g] = todo[g]
  BY DEF RemoveStale, Bind, CloseListener, Drain, Signal, Then, PlanInv, TypeOK, Thread
<1>4. ASSUME NEW q \in Proc \ {p} PROVE Early(q)' => WorkOf(q)'
  <2>1. Early(q)' => Early(q)
    BY <1>1, <1>3 DEF Early
  <2>2. Host(p) = p
    BY DEF Host
  <2>3. \A g \in Thread : Host(g) = q => todo'[g] = todo[g]
    BY <1>3, <2>2
  <2>4. \A g \in Thread : (Host(g)' = q /\ todo'[g] # <<>>) <=> (Host(g) = q /\ todo[g] # <<>>)
    BY <1>2, <2>3
  <2>5. Early(q) => WorkOf(q)
    BY DEF WorkFits
  <2> QED
    BY <1>1, <2>1, <2>3, <2>4, <2>5, ElsewhereKeepsWork
<1>5. CASE RemoveStale(p) \/ Bind(p)
  <2>1. PICK name \in {"remove", "bind"} : Making(p, name) /\ Then(p, <<>>)
    BY <1>5 DEF RemoveStale, Bind
  <2>2. /\ phase[p] = "boot" /\ todo[p] # <<>> /\ p \in Thread
        /\ name = "bind" => Steps(todo[p]) = {Head(todo[p])}
        /\ name = "remove" => \A x \in Steps(todo[p]) \ {Head(todo[p])} : x.name = "bind"
    BY <2>1, MainCall DEF CallName
  <2>3. \A x \in Steps(todo[p]) : x.name \in {"remove", "bind"}
    BY <2>1, <2>2 DEF Making
  <2>4. <<>> \in Seq(CallSet) /\ Sorted(<<>>) /\ Steps(<<>>) = {}
    BY ShortLists
  <2>5. Steps(todo'[p]) = {} \cup (Steps(todo[p]) \ {Head(todo[p])})
    BY <2>1, <2>2, <2>4, ThenType DEF PlanInv, TypeOK, CallSet
  <2>6. \A g \in Thread : Host(g) = p => g = p
    BY <2>2, BootWorkers
  <2>7. Workers(p)' \subseteq {p} /\ Workers(p) \subseteq {p}
    BY <1>2, <2>6 DEF Workers
  <2>8. ASSUME Early(p)' PROVE WorkOf(p)'
    <3>1. WorkOf(p)
      BY <1>1, <2>2, <2>8 DEF WorkFits, Early
    <3>2. \A x \in Steps(todo[p]), h \in Half : ~Touches(x, h)
      BY <2>3 DEF Touches, HalfCall
    <3>3. \A h \in Half : Agrees(p, h)'
      BY <1>1, <2>7, <3>1, <3>2 DEF WorkOf, Agrees
    <3>4. \A g \in Workers(p)' : \A x \in Steps(todo'[g]) : x.name \in {"remove", "bind"}
      BY <2>3, <2>5, <2>7
    <3>5. \A g, k \in Workers(p)' : g = k
      BY <2>7
    <3> QED
      BY <3>3, <3>4, <3>5 DEF WorkOf
  <2> QED
    BY <1>4, <2>8 DEF WorkFits
<1>6. CASE CloseListener(p) \/ Drain(p) \/ Signal(p)
  <2>1. phase'[p] \in {"stop", "drain"}
    <3>1. CASE CloseListener(p)
      BY <3>1 DEF CloseListener, PlanInv, TypeOK
    <3>2. CASE Signal(p)
      BY <3>2 DEF Signal, PlanInv, TypeOK
    <3>3. CASE Drain(p)
      <4>1. Making(p, "drain") /\ phase' = phase
        BY <3>3 DEF Drain
      <4> QED
        BY <4>1, MainCall DEF CallName
    <3> QED
      BY <1>6, <3>1, <3>2, <3>3
  <2>2. ~Early(p)'
    BY <2>1 DEF Early
  <2> QED
    BY <1>4, <2>2 DEF WorkFits
<1> QED
  BY <1>5, <1>6

LEMMA StepKeepsWork == PlanInv /\ WorkFits /\ [Next]_vars => WorkFits'
<1> SUFFICES ASSUME PlanInv, WorkFits, [Next]_vars PROVE WorkFits'
  OBVIOUS
<1>1. CASE UNCHANGED vars
  <2>1. UNCHANGED <<phase, todo, at, enabled, running, lastError, crossed, lapsed>>
    BY <1>1 DEF vars, threadVars, daemonVars, historyVars
  <2> QED
    BY <2>1 DEF WorkFits, WorkOf, Early, Workers, Agrees, Host, Has
<1>2. ASSUME NEW c \in Caller, NEW p \in Proc,
             StartOrStop(c, p) \/ SetSenderFiles(c, p) \/ UpdateSettings(c, p)
      PROVE  WorkFits'
  BY <1>2, RequestKeepsWork
<1>3. ASSUME NEW g \in Thread, CallStep(g) PROVE WorkFits'
  <2>1. /\ todo[g] # <<>> /\ UNCHANGED <<phase, at, crossed>>
    BY <1>3, CallStepShape
  <2>2. PICK p \in Proc : p = Host(g)
    BY <2>1, HostType
  <2>3. \A q \in Proc : Early(q)' = Early(q)
    BY <2>1 DEF Early
  <2>4. Early(p) => WorkOf(p)'
    BY <1>3, <2>2, CallStepKeepsWork DEF WorkFits
  <2>5. ASSUME NEW q \in Proc \ {p} PROVE Early(q)' => WorkOf(q)'
    <3>1. \A k \in Thread : Host(k)' = Host(k)
      BY <2>1 DEF Host
    <3>2. \A k \in Thread : Host(k) = q => todo'[k] = todo[k]
      BY <1>3, <2>2, CallStepKeepsPlans
    <3>3. \A k \in Thread : (Host(k)' = q /\ todo'[k] # <<>>) <=> (Host(k) = q /\ todo[k] # <<>>)
      BY <3>1, <3>2
    <3>4. /\ enabled'[q] = enabled[q] /\ running'[q] = running[q] /\ lastError'[q] = lastError[q]
          /\ q \in lapsed' <=> q \in lapsed
      BY <1>3, <2>2
      DEF CallStep, StartCheck, StartFails, Install, StopHalf, Reconcile, daemonVars, historyVars,
          PlanInv, TypeOK
    <3>5. Early(q) => WorkOf(q)
      BY DEF WorkFits
    <3> QED
      BY <2>3, <3>2, <3>3, <3>4, <3>5, ElsewhereKeepsWork
  <2> QED
    BY <2>3, <2>4, <2>5 DEF WorkFits
<1>4. ASSUME NEW p \in Proc, Boot(p) PROVE WorkFits'
  BY <1>4, BootKeepsWork
<1>5. ASSUME NEW p \in Proc, MainStep(p) \/ Signal(p) \/ Kill(p) PROVE WorkFits'
  <2>1. CASE RemoveStale(p) \/ Bind(p) \/ CloseListener(p) \/ Drain(p) \/ Signal(p)
    BY <2>1, SocketStepKeepsWork
  <2>2. CASE BootFails(p) \/ BindFails(p) \/ Exit(p) \/ Kill(p)
    <3>1. PICK how \in Over : End(p, how)
      BY <2>2 DEF BootFails, BindFails, Exit, Kill, Over
    <3> QED
      BY <3>1, EndKeepsWork
  <2> QED
    BY <1>5, <2>1, <2>2 DEF MainStep
<1>6. ASSUME NEW p \in Proc, NEW h \in Half, RunEnds(p, h) PROVE WorkFits'
  BY <1>6, RunEndKeepsWork
<1> QED
  BY <1>1, <1>2, <1>3, <1>4, <1>5, <1>6 DEF Next

(* Whenever a process serves, Reconcile left no error, and once no request   *)
(* is in flight, unless requests overlapped since the last update made       *)
(* alone, each half runs if and only if it is enabled, or has left an error, *)
(* or was a listener that ended by itself.  Up to the bind main is the only  *)
(* one that works on the halves, afterwards one request at most; whatever it *)
(* leaves undone for a half is still on its list.                            *)
THEOREM DaemonSettledAgrees == Spec => []SettledAgrees
<1>1. Init => WorkFits
  BY InitWork
<1>2. PlanInv /\ WorkFits /\ [Next]_vars => WorkFits'
  BY StepKeepsWork
<1>3. PlanInv /\ ReachInv /\ WorkFits => SettledAgrees
  <2> SUFFICES ASSUME PlanInv, ReachInv, WorkFits, NEW p \in Proc, phase[p] = "serve"
               PROVE  /\ ~failed[p]
                      /\ (InFlight(p) = {} /\ ~crossed[p]) => \A h \in Half : Agrees(p, h)
    BY DEF SettledAgrees
  <2>1. ~failed[p]
    BY DEF ReachInv, FailedOnlyInBoot
  <2>2. ASSUME InFlight(p) = {}, ~crossed[p] PROVE \A h \in Half : Agrees(p, h)
    <3>1. Workers(p) = {}
      BY <2>2, ServeWorkers
    <3>2. WorkOf(p)
      BY <2>2 DEF WorkFits, Early
    <3> QED
      BY <3>1, <3>2, RestedAgrees
  <2> QED
    BY <2>1, <2>2
<1> QED
  BY <1>1, <1>2, <1>3, PlansAlways, ReachAlways, PTL DEF Spec
-----------------------------------------------------------------------------
(* The end of a process.                                                     *)

(* The signal reached the process while it had no request, and none came     *)
(* since.                                                                    *)
Undisturbed(p) == phase[p] \in {"stop", "drain"} /\ p \notin late

StopPlanned(p, h) == \E x \in Steps(todo[p]) : x.name = "stop" /\ x.half = h

(* Then main is alone with the halves, and has still to stop those that run. *)
WindsDown(p) ==
  InFlight(p) = {} /\ \A h \in Half : running[p][h] => StopPlanned(p, h)

EndFits == \A p \in Proc : Undisturbed(p) => WindsDown(p)

(* Nothing of a process runs on when it ends, unless a request was in flight *)
(* at the signal or came after it.                                           *)
NothingRunsOn ==
  \A p \in Proc : Making(p, "unlink") => p \in late \/ running[p] = Neither

(* What leaves main's list alone and neither starts a half nor makes a       *)
(* request.                                                                  *)
LEMMA ElsewhereKeepsEnd ==
  ASSUME NEW p \in Proc, EndFits, Undisturbed(p)' => Undisturbed(p), todo'[p] = todo[p],
         \A h \in Half : running'[p][h] => running[p][h],
         \A c \in Caller : at'[c] = p /\ todo'[c] # <<>> => at[c] = p /\ todo[c] # <<>>
  PROVE  Undisturbed(p)' => WindsDown(p)'
<1> SUFFICES ASSUME Undisturbed(p)' PROVE WindsDown(p)'
  OBVIOUS
<1>1. InFlight(p) = {} /\ \A h \in Half : running[p][h] => StopPlanned(p, h)
  BY DEF EndFits, WindsDown
<1>2. InFlight(p)' = {}
  BY <1>1 DEF InFlight
<1>3. \A h \in Half : StopPlanned(p, h) => StopPlanned(p, h)'
  BY DEF StopPlanned
<1> QED
  BY <1>1, <1>2, <1>3 DEF WindsDown

(* A request makes its process one that is not undisturbed.                  *)
LEMMA RequestKeepsEnd ==
  ASSUME PlanInv, EndFits, NEW c \in Caller, NEW p \in Proc,
         StartOrStop(c, p) \/ SetSenderFiles(c, p) \/ UpdateSettings(c, p)
  PROVE  EndFits'
<1>1. /\ phase[p] \in {"serve", "stop"} /\ at' = [at EXCEPT ![c] = p]
      /\ phase' = phase /\ running' = running
  BY RequestGuards
<1>2. late' = IF phase[p] = "stop" THEN late \cup {p} ELSE late
  BY DEF StartOrStop, SetSenderFiles, UpdateSettings, Request
<1>3. PICK s \in Seq(CallSet) :
        /\ todo' = [todo EXCEPT ![c] = s] /\ Sorted(s)
        /\ \A x \in Steps(s) : x.name \in {"start", "stop", "reconcile"}
  BY RequestShape
<1>4. ~Undisturbed(p)'
  BY <1>1, <1>2 DEF Undisturbed
<1>5. ASSUME NEW q \in Proc \ {p} PROVE Undisturbed(q)' => WindsDown(q)'
  <2>1. Undisturbed(q)' => Undisturbed(q)
    BY <1>1, <1>2 DEF Undisturbed
  <2>2. q # c
    BY ProcIsNoCaller
  <2>3. todo'[q] = todo[q]
    BY <1>3, <2>2 DEF PlanInv, TypeOK, Thread
  <2>4. \A k \in Caller : at'[k] = q /\ todo'[k] # <<>> => at[k] = q /\ todo[k] # <<>>
    BY <1>1, <1>3 DEF PlanInv, TypeOK, Thread
  <2> QED
    BY <1>1, <2>1, <2>3, <2>4, ElsewhereKeepsEnd
<1> QED
  BY <1>4, <1>5 DEF EndFits

(* Only main calls into an undisturbed process, and only to stop a half.     *)
LEMMA CallStepKeepsEnd ==
  ASSUME PlanInv, EndFits, NEW g \in Thread, CallStep(g)
  PROVE  EndFits'
<1>1. todo[g] # <<>> /\ phase' = phase /\ at' = at /\ late' = late
  BY CallStepShape
<1>2. /\ \A k \in Thread \ {g} : todo'[k] = todo[k]
      /\ \A x \in Steps(todo[g]) : x # Head(todo[g]) => x \in Steps(todo'[g])
  BY CallStepKeepsPlans
<1>3. Host(g) \in Proc /\ Head(todo[g]) \in Steps(todo[g])
  BY <1>1, HostType
<1> SUFFICES ASSUME NEW p \in Proc, Undisturbed(p) PROVE WindsDown(p)'
  BY <1>1 DEF EndFits, Undisturbed
<1>4. InFlight(p) = {} /\ \A h \in Half : running[p][h] => StopPlanned(p, h)
  BY DEF EndFits, WindsDown
<1>5. CASE Host(g) # p
  <2>1. p # g
    BY <1>5 DEF Host
  <2>2. todo'[p] = todo[p]
    BY <1>2, <2>1 DEF Thread
  <2>3. \A c \in Caller : at'[c] = p /\ todo'[c] # <<>> => at[c] = p /\ todo[c] # <<>>
    BY <1>1, <1>2 DEF Thread
  <2>4. \A h \in Half : running'[p][h] => running[p][h]
    BY <1>3, <1>5 DEF CallStep, StartCheck, StartFails, Install, StopHalf, Reconcile, daemonVars,
                      PlanInv, TypeOK
  <2>5. Undisturbed(p)'
    BY <1>1 DEF Undisturbed
  <2> QED
    BY <1>1, <2>2, <2>3, <2>4, <2>5, ElsewhereKeepsEnd
<1>6. CASE Host(g) = p
  <2>1. g = p
    <3>1. ASSUME g \in Caller PROVE FALSE
      <4>1. at[g] = p
        BY <1>1, <1>6, <3>1, HostType
      <4> QED
        BY <1>1, <1>4, <3>1, <4>1 DEF InFlight
    <3>2. g \in Proc
      BY <3>1 DEF Thread
    <3> QED
      BY <1>6, <3>2 DEF Host
  <2>2. Head(todo[p]).name \in {"stop", "close", "drain", "unlink"}
    BY <1>3, <2>1 DEF PlanInv, PlansFit, Undisturbed
  <2>3. StopHalf(p)
    BY <2>1, <2>2 DEF CallStep, StartCheck, StartFails, Install, Reconcile, Making
  <2>4. running' = [running EXCEPT ![p][Head(todo[p]).half] = FALSE]
    BY <1>6, <2>1, <2>3 DEF StopHalf
  <2>5. ASSUME NEW h \in Half, running'[p][h] PROVE StopPlanned(p, h)'
    <3>1. running[p][h] /\ h # Head(todo[p]).half
      BY <2>4, <2>5 DEF PlanInv, TypeOK
    <3>2. PICK x \in Steps(todo[p]) : x.name = "stop" /\ x.half = h
      BY <1>4, <3>1 DEF StopPlanned
    <3>3. x \in Steps(todo'[p])
      BY <1>2, <2>1, <3>1, <3>2
    <3> QED
      BY <3>2, <3>3 DEF StopPlanned
  <2>6. InFlight(p)' = {}
    <3>1. \A c \in Caller : todo'[c] = todo[c]
      BY <1>2, <2>1, ProcIsNoCaller DEF Thread
    <3> QED
      BY <1>1, <1>4, <3>1 DEF InFlight
  <2> QED
    BY <2>5, <2>6 DEF WindsDown
<1> QED
  BY <1>5, <1>6

(* Main alone moves on: its own phase and list, and the record of requests   *)
(* that were in flight.                                                      *)
LEMMA SocketStepKeepsEnd ==
  ASSUME PlanInv, EndFits, NEW p \in Proc,
         RemoveStale(p) \/ Bind(p) \/ CloseListener(p) \/ Drain(p) \/ Signal(p)
  PROVE  EndFits'
<1> USE DEF historyVars, daemonVars
<1>1. UNCHANGED <<at, running>>
  BY DEF RemoveStale, Bind, CloseListener, Drain, Signal
<1>2. /\ \A q \in Proc \ {p} : phase'[q] = phase[q] /\ (q \in late' <=> q \in late)
      /\ \A g \in Thread \ {p} : todo'[g] = todo[g]
  BY DEF RemoveStale, Bind, CloseListener, Drain, Signal, Then, PlanInv, TypeOK, Thread
<1>3. \A c \in Caller : todo'[c] = todo[c]
  BY <1>2, ProcIsNoCaller DEF Thread
<1>4. ASSUME NEW q \in Proc \ {p} PROVE Undisturbed(q)' => WindsDown(q)'
  <2>1. Undisturbed(q)' => Undisturbed(q)
    BY <1>2 DEF Undisturbed
  <2>2. todo'[q] = todo[q]
    BY <1>2 DEF Thread
  <2> QED
    BY <1>1, <1>3, <2>1, <2>2, ElsewhereKeepsEnd
<1>5. CASE RemoveStale(p) \/ Bind(p)
  <2>1. PICK name \in {"remove", "bind"} : Making(p, name)
    BY <1>5 DEF RemoveStale, Bind
  <2>2. phase[p] = "boot"
    BY <2>1, MainCall DEF CallName
  <2>3. phase'[p] \in {"boot", "serve"}
    BY <1>5, <2>2 DEF RemoveStale, Bind, PlanInv, TypeOK
  <2>4. ~Undisturbed(p)'
    BY <2>3 DEF Undisturbed
  <2> QED
    BY <1>4, <2>4 DEF EndFits
<1>6. CASE CloseListener(p) \/ Drain(p)
  <2>1. PICK name \in {"close", "drain"} : Making(p, name) /\ Then(p, <<>>) /\ late' = late
    BY <1>6 DEF CloseListener, Drain
  <2>2. phase[p] \in {"stop", "drain"} /\ todo[p] # <<>> /\ p \in Thread
    BY <2>1, MainCall DEF CallName
  <2>3. <<>> \in Seq(CallSet) /\ Sorted(<<>>) /\ Steps(<<>>) = {}
    BY ShortLists
  <2>4. Steps(todo'[p]) = {} \cup (Steps(todo[p]) \ {Head(todo[p])})
    BY <2>1, <2>2, <2>3, ThenType DEF PlanInv, TypeOK, CallSet
  <2>5. \A h \in Half : StopPlanned(p, h) => StopPlanned(p, h)'
    BY <2>1, <2>4 DEF StopPlanned, Making
  <2>6. Undisturbed(p)' => Undisturbed(p)
    BY <2>1, <2>2 DEF Undisturbed
  <2>7. Undisturbed(p)' => WindsDown(p)'
    BY <1>1, <1>3, <2>5, <2>6 DEF EndFits, WindsDown, InFlight
  <2> QED
    BY <1>4, <2>7 DEF EndFits
<1>7. CASE Signal(p)
  <2> DEFINE s == <<Call("stop", "sender", FALSE), Call("stop", "listener", FALSE),
                    Plain("close"), Plain("drain"), Plain("unlink")>>
  <2>1. \A h \in Half : \E x \in Steps(s) : x.name = "stop" /\ x.half = h
    BY SignalList
  <2>2. todo' = [todo EXCEPT ![p] = s]
    BY <1>7 DEF Signal
  <2> HIDE DEF s
  <2>3. todo'[p] = s
    BY <2>2 DEF PlanInv, TypeOK, Thread
  <2>4. \A h \in Half : StopPlanned(p, h)'
    BY <2>1, <2>3 DEF StopPlanned
  <2>5. ASSUME Undisturbed(p)' PROVE InFlight(p)' = {}
    <3>1. InFlight(p) = {}
      BY <1>7, <2>5 DEF Signal, Undisturbed
    <3> QED
      BY <1>1, <1>3, <3>1 DEF InFlight
  <2> QED
    BY <1>4, <2>4, <2>5 DEF EndFits, WindsDown
<1> QED
  BY <1>5, <1>6, <1>7

LEMMA StepKeepsEnd == PlanInv /\ EndFits /\ [Next]_vars => EndFits'
<1> SUFFICES ASSUME PlanInv, EndFits, [Next]_vars PROVE EndFits'
  OBVIOUS
<1>1. CASE UNCHANGED vars
  <2>1. UNCHANGED <<phase, todo, at, running, late>>
    BY <1>1 DEF vars, threadVars, daemonVars, historyVars
  <2> QED
    BY <2>1 DEF EndFits, Undisturbed, WindsDown, InFlight, StopPlanned
<1>2. ASSUME NEW c \in Caller, NEW p \in Proc,
             StartOrStop(c, p) \/ SetSenderFiles(c, p) \/ UpdateSettings(c, p)
      PROVE  EndFits'
  BY <1>2, RequestKeepsEnd
<1>3. ASSUME NEW g \in Thread, CallStep(g) PROVE EndFits'
  BY <1>3, CallStepKeepsEnd
<1>4. ASSUME NEW p \in Proc, Boot(p) PROVE EndFits'
  <2>1. UNCHANGED <<at, running, late>> /\ phase' = [phase EXCEPT ![p] = "boot"]
    BY <1>4 DEF Boot
  <2>2. \A g \in Thread \ {p} : todo'[g] = todo[g]
    BY <1>4 DEF Boot, PlanInv, TypeOK
  <2>3. phase'[p] = "boot" /\ \A q \in Proc \ {p} : phase'[q] = phase[q]
    BY <2>1 DEF PlanInv, TypeOK
  <2>4. ASSUME NEW q \in Proc \ {p} PROVE Undisturbed(q)' => WindsDown(q)'
    <3>1. todo'[q] = todo[q] /\ \A c \in Caller : todo'[c] = todo[c]
      BY <2>2, ProcIsNoCaller DEF Thread
    <3>2. Undisturbed(q)' => Undisturbed(q)
      BY <2>1, <2>3 DEF Undisturbed
    <3> QED
      BY <2>1, <3>1, <3>2, ElsewhereKeepsEnd
  <2> QED
    BY <2>3, <2>4 DEF EndFits, Undisturbed
<1>5. ASSUME NEW p \in Proc, MainStep(p) \/ Signal(p) \/ Kill(p) PROVE EndFits'
  <2>1. CASE RemoveStale(p) \/ Bind(p) \/ CloseListener(p) \/ Drain(p) \/ Signal(p)
    BY <2>1, SocketStepKeepsEnd
  <2>2. CASE BootFails(p) \/ BindFails(p) \/ Exit(p) \/ Kill(p)
    <3>1. PICK how \in Over : End(p, how)
      BY <2>2 DEF BootFails, BindFails, Exit, Kill, Over
    <3>2. /\ phase' = [phase EXCEPT ![p] = how] /\ late' = late \ {p}
          /\ todo' = [g \in Thread |-> IF Host(g) = p THEN <<>> ELSE todo[g]]
          /\ at' = [c \in Caller |-> IF at[c] = p THEN Nobody ELSE at[c]]
          /\ running' = [running EXCEPT ![p] = Neither]
      BY <3>1 DEF End
    <3>3. /\ phase'[p] = how /\ how \notin {"stop", "drain"}
          /\ \A q \in Proc \ {p} : phase'[q] = phase[q] /\ running'[q] = running[q]
      BY <3>2 DEF PlanInv, TypeOK, Over
    <3>4. ASSUME NEW q \in Proc \ {p} PROVE Undisturbed(q)' => WindsDown(q)'
      <4>1. todo'[q] = todo[q]
        BY <3>2 DEF Host, Thread
      <4>2. \A c \in Caller : at'[c] = q /\ todo'[c] # <<>> => at[c] = q /\ todo[c] # <<>>
        BY <3>2, ProcIsNoCaller DEF Thread
      <4>3. Undisturbed(q)' => Undisturbed(q)
        BY <3>2, <3>3 DEF Undisturbed
      <4> QED
        BY <3>3, <4>1, <4>2, <4>3, ElsewhereKeepsEnd
    <3> QED
      BY <3>3, <3>4 DEF EndFits, Undisturbed
  <2> QED
    BY <1>5, <2>1, <2>2 DEF MainStep
<1>6. ASSUME NEW p \in Proc, NEW h \in Half, RunEnds(p, h) PROVE EndFits'
  <2>1. UNCHANGED <<phase, todo, at, late>> /\ running' = [running EXCEPT ![p][h] = FALSE]
    BY <1>6 DEF RunEnds, threadVars
  <2>2. \A q \in Proc, k \in Half : running'[q][k] => running[q][k]
    BY <2>1 DEF PlanInv, TypeOK
  <2>3. \A q \in Proc : Undisturbed(q)' => Undisturbed(q)
    BY <2>1 DEF Undisturbed
  <2> SUFFICES ASSUME NEW q \in Proc PROVE Undisturbed(q)' => WindsDown(q)'
    BY DEF EndFits
  <2> QED
    BY <2>1, <2>2, <2>3, ElsewhereKeepsEnd
<1> QED
  BY <1>1, <1>2, <1>3, <1>4, <1>5, <1>6 DEF Next

(* The unlink is main's last call.                                           *)
LEMMA UnlinkIsLast ==
  ASSUME PlanInv, NEW p \in Proc, Making(p, "unlink")
  PROVE  phase[p] \in {"stop", "drain"} /\ \A x \in Steps(todo[p]) : x.name # "stop"
<1>1. /\ todo[p] # <<>> /\ phase[p] \in {"stop", "drain"} /\ p \in Thread
      /\ \A x \in Steps(todo[p]) \ {Head(todo[p])} : Rank(Head(todo[p])) < Rank(x)
  BY MainCall DEF CallName
<1>2. Head(todo[p]).name = "unlink" /\ Head(todo[p]) \in CallSet
  BY <1>1, HostType DEF Making
<1>3. Rank(Head(todo[p])) = 8
  BY <1>2 DEF Rank, HalfCall
<1>4. \A x \in Steps(todo[p]) : x \in CallSet
  BY <1>1, StepsType DEF PlanInv, TypeOK, CallSet
<1>5. \A x \in CallSet : x.name = "stop" => Rank(x) < 8
  BY DEF Rank, HalfCall
<1>6. \A x \in CallSet : Rank(x) \in Nat
  BY RankNat
<1> SUFFICES ASSUME NEW x \in Steps(todo[p]), x.name = "stop" PROVE FALSE
  BY <1>1
<1>7. Rank(x) < 8 /\ Rank(x) \in Nat
  BY <1>4, <1>5, <1>6
<1>8. x # Head(todo[p])
  BY <1>2
<1>9. 8 < Rank(x)
  BY <1>1, <1>3, <1>8
<1> QED
  BY <1>7, <1>9

(* Shutdown leaves nothing running: when main has closed the listener and    *)
(* waited for the requests, both halves are stopped, unless a request was in *)
(* flight at the signal or came in before the listener was closed.           *)
THEOREM DaemonNothingRunsOn == Spec => []NothingRunsOn
<1>1. Init => EndFits
  BY DEF Init, EndFits, Undisturbed
<1>2. PlanInv /\ EndFits => NothingRunsOn
  <2> SUFFICES ASSUME PlanInv, EndFits, NEW p \in Proc, Making(p, "unlink"), p \notin late
               PROVE  running[p] = Neither
    BY DEF NothingRunsOn
  <2>1. phase[p] \in {"stop", "drain"} /\ \A x \in Steps(todo[p]) : x.name # "stop"
    BY UnlinkIsLast
  <2>2. \A h \in Half : ~running[p][h]
    BY <2>1 DEF EndFits, Undisturbed, WindsDown, StopPlanned
  <2>3. running[p] \in [Half -> BOOLEAN]
    BY DEF PlanInv, TypeOK
  <2>4. \A h \in Half : running[p][h] = FALSE
    BY <2>2, <2>3
  <2> QED
    BY <2>3, <2>4 DEF Neither
<1> QED
  BY <1>1, <1>2, StepKeepsEnd, PlansAlways, PTL DEF Spec

=============================================================================
