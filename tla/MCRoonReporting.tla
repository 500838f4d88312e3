--------------------------- MODULE MCRoonReporting ---------------------------
(* Small instance of reporting to Roon clients for TLC.                     *)
EXTENDS RoonReporting
=============================================================================
