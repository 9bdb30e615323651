--------------------------- MODULE MCStreamManager ---------------------------
(***************************************************************************)
(* Small instances of StreamManager for TLC.                               *)
(***************************************************************************)
EXTENDS StreamManager, TLC

TwoEach   == [s \in Sides |-> 2]
OneEach   == [s \in Sides |-> 1]

\* The budgets of the two sides do not meet: one side uses its own.
OneAtClient == [s \in Sides |-> IF s = "client" THEN 1 ELSE 0]
=============================================================================
