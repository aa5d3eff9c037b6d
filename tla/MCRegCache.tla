---------------------------- MODULE MCRegCache ----------------------------
(* A table of eight slots with windows of three.  Registers 0 and 8 share a  *)
(* window, 7 overlaps it and is also written directly, the window of 5 wraps *)
(* around the table and has the last slot in it.                             *)
EXTENDS RegCache

MCRegs   == {0, 5, 7, 8}
MCDirect == {7}
MCValues == {0, 1}
===========================================================================
