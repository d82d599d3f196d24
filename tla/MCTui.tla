------------------------------- MODULE MCTui -------------------------------
(* One component and two slots: any two requests of the user overlap.  The   *)
(* daemon has no files at first.                                             *)
EXTENDS Tui

CONSTANTS f1, f2, k1, s1, s2

MCComponent == {"sender"}
MCPath      == {f1, f2}
MCOnePath   == {f1}
MCNoPath    == {}
MCConn      == {k1}
MCSlot      == {s1, s2}
=============================================================================
