--------------------------- MODULE MCSenderDaemon ---------------------------
(* Two requests in flight, so that every pair of operations overlaps, and    *)
(* one address, so that two runs compete for the port.                       *)
EXTENDS SenderDaemon

CONSTANTS c1, c2, a1

MCCaller == {c1, c2}
MCAddr   == {a1}
=============================================================================
