----------------------------- MODULE MCDownloads -----------------------------
(* A stopped listener and its successor; two senders with different versions *)
(* of one path, of different length.                                         *)
EXTENDS Downloads

CONSTANTS old, new

MCListener == {old, new}
MCContent  == {<<1, 2>>, <<3>>}
=============================================================================
