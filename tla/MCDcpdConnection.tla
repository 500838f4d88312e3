--------------------------- MODULE MCDcpdConnection ---------------------------
(* A small instance of the connection to DCPD for TLC. *)
EXTENDS DcpdConnection
CONSTANTS f1, f2
=============================================================================
