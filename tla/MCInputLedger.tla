--------------------------- MODULE MCInputLedger ---------------------------
(* InputLedger for TLC.                                                      *)
EXTENDS InputLedger
=============================================================================
