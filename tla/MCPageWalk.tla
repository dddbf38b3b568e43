----------------------------- MODULE MCPageWalk -----------------------------
(***************************************************************************)
(* Small instances of PageWalk: pages of two, so that a collection of      *)
(* three records has a full page and a short one.                          *)
(***************************************************************************)
EXTENDS PageWalk, TLC

=============================================================================
