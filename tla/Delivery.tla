------------------------------- MODULE Delivery -------------------------------
(***************************************************************************)
(* What a file transfer promises, without the protocol: once the manifest  *)
(* is read it is a promise of the offered files, each with a size and a    *)
(* hash, in the order of the list; they are settled one after the other,   *)
(* by the file with the promised hash that is there already or, only if    *)
(* there is none, by a whole file of the promised size; and a session that *)
(* ends well has settled them all.                                         *)
(* A session may fail at any step, and keeps what it settled.  While no    *)
(* source file changes, promise and delivery are those files' content.     *)
(*                                                                         *)
(* Transfer implements this specification.                                 *)
(***************************************************************************)
EXTENDS Naturals, Sequences

CONSTANTS
  File,     \* paths of regular files
  List,     \* what the sender offers, directories included
  Content,  \* contents that a file can have
  Byte,     \* what they are made of
  Absent    \* no such file

VARIABLES
  src,      \* the files at the sender
  dest,     \* the files at the receiver
  quiet,    \* no source file changed since the session began
  phase,    \* where the session is
  promise,  \* the manifest
  settled   \* how many of its entries are settled

vars == <<src, dest, quiet, phase, promise, settled>>

Offered == {p \in File : \E n \in 1 .. Len(List) : List[n] = p}

Before(p, q) == \E m, n \in 1 .. Len(List) : m < n /\ List[m] = p /\ List[n] = q

Init ==
  /\ src \in [File -> Content \cup {Absent}]
  /\ \A p \in File : dest[p] \in {src[p], Absent}
  /\ quiet = TRUE
  /\ phase = "over" /\ promise = <<>> /\ settled = 0

Edit ==
  /\ src' \in [File -> Content \cup {Absent}] /\ quiet' = FALSE
  /\ UNCHANGED <<dest, phase, promise, settled>>

Begin ==
  /\ phase \in {"over", "complete"}
  /\ phase' = "begun" /\ promise' = <<>> /\ settled' = 0 /\ quiet' = TRUE
  /\ UNCHANGED <<src, dest>>

(* Every file on the list, in its order.  Sizes and hashes are those of the  *)
(* files, unless these are changing.                                         *)
Announce ==
  /\ phase = "begun" /\ phase' = "settling"
  /\ promise' \in Seq([path : Offered, size : Nat, hash : Content])
  /\ \A p \in Offered : \E n \in 1 .. Len(promise') : promise'[n].path = p
  /\ \A m, n \in 1 .. Len(promise') : m < n => Before(promise'[m].path, promise'[n].path)
  /\ quiet => \A n \in 1 .. Len(promise') :
                /\ promise'[n].hash = src[promise'[n].path]
                /\ promise'[n].size = Len(src[promise'[n].path])
  /\ UNCHANGED <<src, dest, quiet, settled>>

Due == promise[settled + 1]

Deliver ==
  /\ phase = "settling" /\ settled < Len(promise)
  /\ dest[Due.path] # Due.hash
  /\ \E file \in [1 .. Due.size -> Byte] :
       /\ quiet => file = Due.hash
       /\ dest' = [dest EXCEPT ![Due.path] = file]
  /\ settled' = settled + 1
  /\ UNCHANGED <<src, quiet, phase, promise>>

Keep ==
  /\ phase = "settling" /\ settled < Len(promise)
  /\ dest[Due.path] = Due.hash
  /\ settled' = settled + 1
  /\ UNCHANGED <<src, dest, quiet, phase, promise>>

Complete ==
  /\ phase = "settling" /\ settled = Len(promise) /\ phase' = "complete"
  /\ UNCHANGED <<src, dest, quiet, promise, settled>>

Fail ==
  /\ phase \in {"begun", "settling"} /\ phase' = "over"
  /\ UNCHANGED <<src, dest, quiet, promise, settled>>

Next == Edit \/ Begin \/ Announce \/ Deliver \/ Keep \/ Complete \/ Fail

(* A session that has begun completes or fails.                              *)
Fairness == WF_vars(Fail \/ Complete \/ Keep \/ Deliver \/ Announce)

Spec == Init /\ [][Next]_vars /\ Fairness
=============================================================================
