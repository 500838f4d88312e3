---------------------------- MODULE MCConfigStore ----------------------------
(* Small instances of the configuration store for TLC. *)
EXTENDS ConfigStore, TLC

CONSTANTS
  selector,  \* the control that selects the path of an element
  modelled   \* the device ID that has a model

MCSelectorOf ==
  [id \in Ids |-> [e \in Elems |-> IF id = modelled THEN selector ELSE None]]

Symmetry == Permutations(Names) \cup Permutations(Sinks) \cup Permutations(Inputs)
=============================================================================
