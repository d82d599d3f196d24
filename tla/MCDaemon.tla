------------------------------ MODULE MCDaemon ------------------------------
(* Two clients.  Either one process with three requests and a run that ends, *)
(* or two processes, which may live at the same time, and one request.       *)
EXTENDS Daemon

CONSTANTS c1, c2

MCCaller  == {c1, c2}
MCBudgets == {[procs |-> 1, requests |-> 3, ends |-> 1],
              [procs |-> 2, requests |-> 1, ends |-> 0]}
=============================================================================
