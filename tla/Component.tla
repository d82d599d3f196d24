------------------------------ MODULE Component ------------------------------
(***************************************************************************)
(* What the daemon promises of one of its components, sender or listener:  *)
(* d.sender and d.listener show at most one run; a run is installed only   *)
(* by a start that found none shown, which another may have done since; a  *)
(* stop takes the shown run off and then cancels that run, and no other;   *)
(* and a run that ends takes itself off.  The two components differ in     *)
(* whom else it may take off (OwnOnly): that is the difference between     *)
(* markSenderStopped and markListenerStopped.                              *)
(*                                                                         *)
(* SenderDaemon and ListenerDaemon implement this specification.           *)
(***************************************************************************)
EXTENDS Naturals

CONSTANTS
  MaxRuns,  \* bound: how many runs one behaviour may start
  OwnOnly   \* a run that ends takes no other run off

VARIABLES
  shown,    \* the run on show, NoRun if there is none
  newest,   \* the newest run
  loading,  \* how many starts are between their check and their installation
  doomed,   \* runs that a stop has taken off and is about to cancel
  down      \* runs that are cancelled or over

vars == <<shown, newest, loading, doomed, down>>

Run   == 1 .. MaxRuns
NoRun == 0

Init ==
  /\ shown \in {NoRun, 1} /\ newest = shown
  /\ loading = 0 /\ doomed = {} /\ down = {}

Check ==
  /\ shown = NoRun
  /\ loading' = loading + 1
  /\ UNCHANGED <<shown, newest, doomed, down>>

GiveUp ==
  /\ loading > 0 /\ loading' = loading - 1
  /\ UNCHANGED <<shown, newest, doomed, down>>

Install ==
  /\ loading > 0 /\ loading' = loading - 1
  /\ newest < MaxRuns /\ newest' = newest + 1 /\ shown' = newest'
  /\ UNCHANGED <<doomed, down>>

Stop ==
  /\ shown # NoRun /\ shown' = NoRun
  /\ doomed' = doomed \cup ({shown} \ down)
  /\ UNCHANGED <<newest, loading, down>>

Cancel(r) ==
  /\ r \in doomed
  /\ doomed' = doomed \ {r} /\ down' = down \cup {r}
  /\ UNCHANGED <<shown, newest, loading>>

(* At the first step of its end a run is down, and in the same or a later    *)
(* one it is taken off.                                                      *)
End(r) ==
  /\ r \in 1 .. newest
  /\ down' = down \cup {r} /\ doomed' = doomed \ {r}
  /\ shown' \in {shown} \cup (IF OwnOnly /\ shown # r THEN {} ELSE {NoRun})
  /\ UNCHANGED <<newest, loading>>

Next ==
  Check \/ GiveUp \/ Install \/ Stop \/ \E r \in Run : Cancel(r) \/ End(r)

(* A stop that took a run off cancels it.                                    *)
Fairness == \A r \in Run : WF_vars(Cancel(r))

Spec == Init /\ [][Next]_vars /\ Fairness
=============================================================================
