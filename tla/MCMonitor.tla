----------------------------- MODULE MCMonitor ------------------------------
(* An instance of Monitor for TLC.                                         *)
EXTENDS Monitor, TLC

Symmetry == Permutations(Services) \cup Permutations(Notifiers)
              \cup Permutations(Pids)
=============================================================================
