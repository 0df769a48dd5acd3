----------------------------- MODULE MCInjection -----------------------------
(* An instance of Injection for TLC: the constants get their values in the *)
(* .cfg file.                                                              *)
EXTENDS Injection, TLC
=============================================================================
