----------------------------- MODULE MCIntegrity -----------------------------
(* An instance of Integrity for TLC: the constants get their values in the *)
(* .cfg file.                                                              *)
EXTENDS Integrity, TLC
=============================================================================
