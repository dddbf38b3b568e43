----------------------------- MODULE MCDojoScan -----------------------------
(* A small instance of DojoScan: pages of two or four of five findings. *)
EXTENDS DojoScan, TLC

=============================================================================
