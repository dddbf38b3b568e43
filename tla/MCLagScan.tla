----------------------------- MODULE MCLagScan -----------------------------
(***************************************************************************)
(* Small instances of LagScan: one alert a tick, which a run can outpace,  *)
(* and bursts, which it cannot.                                            *)
(***************************************************************************)
EXTENDS LagScan, TLC

=============================================================================
