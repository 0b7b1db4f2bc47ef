----------------------------- MODULE MCPointDB -----------------------------
(***************************************************************************)
(* Two servers with a device each.  A device may be moved to the other     *)
(* server and readings of one point may carry equal or decreasing          *)
(* timestamps.                                                             *)
(***************************************************************************)
EXTENDS PointDB, TLC
CONSTANTS s1, s2, d1, d2, n1, n2

MCCfg == << [id |-> s1], [id |-> d1, server |-> s1], [id |-> s2], [id |-> d2, server |-> s2] >>

SameName == Permutations(Names)
============================================================================
