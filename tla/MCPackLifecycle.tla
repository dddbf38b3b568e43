-------------------------- MODULE MCPackLifecycle --------------------------
(* Small instances of PackLifecycle: two records are enough for a run that *)
(* lands in two batches with a drop in between.                            *)
EXTENDS PackLifecycle, TLC

=============================================================================
