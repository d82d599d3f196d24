---------------------------- MODULE MCDiscovery ----------------------------
(* Two daemons, with one ID or two, and a listener whose clock is right, one *)
(* second ahead or two behind: then a new advert is from the future.         *)
EXTENDS Discovery

CONSTANTS x, y, i, j

MCSender == {x, y}
MCId     == {i, j}
MCOffset == {-2, 0, 1}
=============================================================================
