------------------------------ MODULE MCIdentity ------------------------------
(* Instances of IdentityManager for TLC.                                       *)
EXTENDS IdentityManager

================================================================================
