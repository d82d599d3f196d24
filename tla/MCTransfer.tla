----------------------------- MODULE MCTransfer -----------------------------
(* Two files of at most two bytes, with an empty one and two of one length;  *)
(* a list with a directory behind the files and one with it in front.        *)
EXTENDS Transfer

CONSTANTS p1, p2, d1

MCFile        == {p1, p2}
MCDir         == {d1}
MCList        == <<p1, p2, d1>>
MCListWithDir == <<d1, p1, p2>>
MCContent     == {<<>>, <<1>>, <<2, 1>>}
=============================================================================
