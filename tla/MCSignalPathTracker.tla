------------------------- MODULE MCSignalPathTracker -------------------------
(* Two inputs, a splitter whose branches may meet again in front of a       *)
(* switch with two inputs, and a switch with two outputs; the edges among   *)
(* them are chosen by TLC.                                                  *)
EXTENDS SignalPathTracker

CONSTANTS i1, i2, s, x, d, o1, o2

E(from, out, to, in) == [from |-> from, out |-> out, to |-> to, in |-> in]

MCCandidates ==
  {E(i1, 0, x, 0), E(i2, 0, x, 1), E(i2, 0, s, 0), E(s, 0, x, 1), E(s, 1, x, 1),
   E(s, 1, o2, 50), E(x, 0, d, 0), E(d, 0, o1, 0), E(d, 1, o2, 0)}

Choose2(a, b) == [c \in 0..1 |-> IF c = 0 THEN a ELSE b]

MCMappings ==
  [e \in Switching |->
     IF e = x
     THEN {[kind |-> "mux", by |-> Choose2(0, 1)],
           [kind |-> "mux", by |-> Choose2(Unconnected, 1)],
           [kind |-> "table", by |-> Choose2({<<0, 0>>, <<1, 0>>}, {})]}
     ELSE {[kind |-> "demux", by |-> Choose2(0, 1)],
           [kind |-> "table", by |-> Choose2({<<0, 0>>}, {<<0, 0>>, <<0, 1>>})]}]
=============================================================================
