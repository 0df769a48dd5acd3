------------------------------ MODULE MCServer ------------------------------
(* Instances of Server for TLC: the constants get their values in the .cfg *)
(* files.                                                                  *)
EXTENDS Server, TLC
=============================================================================
