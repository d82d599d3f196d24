-------------------------- MODULE MCListenerDaemon --------------------------
(* Two requests in flight and two runs that can overlap; two timestamps make *)
(* adverts that are new, repeated and out of order.                          *)
EXTENDS ListenerDaemon

CONSTANTS c1, c2, i1

MCCaller    == {c1, c2}
MCOneCaller == {c1}
MCId        == {i1}
MCTime      == 1 .. 2
=============================================================================
