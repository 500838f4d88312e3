----------------------------- MODULE MCRoonRanking -----------------------------
(* Sinks of different ranks, two of the same rank, one without a rank, and  *)
(* an element which ends a path but is no audio sink.                       *)
EXTENDS RoonRanking

CONSTANTS digital, analog, phones, record, virtual, m1, m2

MCSinkRank ==
  [s \in Sinks |-> CASE s = digital -> 0
                     [] s = analog -> 1
                     [] s = phones -> 1
                     [] s = record -> INVALID_RANK]
MCSinkMethod == [s \in Sinks |-> IF s = digital THEN m1 ELSE m2]
=============================================================================
