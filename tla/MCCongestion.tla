---------------------------- MODULE MCCongestion -----------------------------
(***************************************************************************)
(* A small instance of Congestion for TLC.                                 *)
(***************************************************************************)
EXTENDS Congestion, TLC
=============================================================================
