---------------------------- MODULE MCIngestRun ----------------------------
(* Small instances of IngestRun: two or three records, with a clock long   *)
(* enough for a change before, during and after a scan.                    *)
EXTENDS IngestRun, TLC

Interchangeable == Permutations(Records)

=============================================================================
