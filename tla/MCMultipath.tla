---------------------------- MODULE MCMultipath ------------------------------
(***************************************************************************)
(* Small instances of Multipath for TLC.                                   *)
(***************************************************************************)
EXTENDS Multipath, TLC

CONSTANTS wifi, lte, sat, rack

MCHome == [s \in Sides |-> IF s = "client" THEN wifi ELSE rack]
MCNewAddresses == [s \in Sides |-> IF s = "client" THEN {lte, sat} ELSE {rack}]
ThreeEach  == [s \in Sides |-> 3]
ClientOnly == {"client"}
=============================================================================
