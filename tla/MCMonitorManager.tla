-------------------------- MODULE MCMonitorManager --------------------------
(* Small instances of the registration of clients for TLC. *)
EXTENDS MonitorManager, TLC

Symmetry == Permutations(Clients) \cup Permutations(Objects)
=============================================================================
