---------------------------- MODULE MCCortexScan ----------------------------
(* Small instances of CortexScan: three or four records in pages of two,   *)
(* so that a departure shifts a row over a page boundary.                  *)
EXTENDS CortexScan, TLC

=============================================================================
