------------------------- MODULE SignalPathMappings -------------------------
(***************************************************************************)
(* I/O mappings of switching elements (src/src/signal_paths.hh): which     *)
(* pads are connected for which choice, and whether a mapping fits the     *)
(* edges of its element.                                                   *)
(*                                                                         *)
(*   [kind |-> "mux" or "demux", by |-> choice -> pad or Unconnected]      *)
(*   [kind |-> "table", by |-> choice -> set of pairs of pads]             *)
(***************************************************************************)
EXTENDS Naturals, FiniteSets

CONSTANT Unconnected  \* Input::mk_unconnected() and Output::mk_unconnected()

UNREASONABLE == 50  \* PathElement::connect() takes no pads from here on

ChoicesOf(m) == DOMAIN m.by

\* MappingMux, MappingDemux and MappingTable.
IsConnected(m, c, in, out) ==
  CASE m.kind = "mux"   -> out = 0 /\ in # Unconnected /\ m.by[c] = in
    [] m.kind = "demux" -> in = 0 /\ out # Unconnected /\ m.by[c] = out
    [] m.kind = "table" -> <<in, out>> \in m.by[c]

\* Mapping::finalize() with the number of source elements and of outputs.
PadsExist(m, number) ==
  /\ Cardinality(ChoicesOf(m)) >= 2
  /\ number > 0 => \A c \in ChoicesOf(m) : m.by[c] # Unconnected => m.by[c] < number

FitsEdges(m, inputs, outputs) ==
  CASE m.kind = "mux"   -> PadsExist(m, inputs) /\ outputs = 1
    [] m.kind = "demux" -> PadsExist(m, outputs) /\ inputs = 1
    [] m.kind = "table" ->
         /\ \A c \in ChoicesOf(m) : m.by[c] \subseteq (0..inputs-1) \X (0..outputs-1)
         /\ \E c \in ChoicesOf(m) : m.by[c] # {}
=============================================================================
