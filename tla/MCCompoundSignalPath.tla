------------------------- MODULE MCCompoundSignalPath -------------------------
(* A player, an amplifier and an equalizer; the active paths in them and the *)
(* connections between them are chosen by TLC.                               *)
EXTENDS CompoundSignalPath

CONSTANTS self, pa, eq, src, spdif, strm, in, out, spk

MCLocalPaths ==
  [dev \in Devices |->
     CASE dev = self -> {<<strm, spdif>>, <<strm, src, spdif>>, <<strm, out>>}
       [] dev = eq   -> {<<in, out>>, <<src, out>>}
       [] dev = pa   -> {<<in, spk>>, <<src>>}]

C(from, sink, to, input) == [from |-> from, sink |-> sink, to |-> to, input |-> input]

MCConnections ==
  {C(self, spdif, eq, in), C(self, spdif, pa, in), C(self, out, pa, src),
   C(eq, out, pa, in), C(eq, out, pa, src)}

\* The amplifier feeds back into the equalizer.
MCCyclicConnections == {C(self, spdif, eq, in), C(eq, out, pa, in), C(pa, spk, eq, in)}
===============================================================================
