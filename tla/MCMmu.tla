-------------------------------- MODULE MCMmu --------------------------------
(* An instance of Mmu for TLC.                                             *)
EXTENDS Mmu, TLC
=============================================================================
