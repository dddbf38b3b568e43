----------------------------- MODULE MCHoldOut -----------------------------
(***************************************************************************)
(* A small instance of HoldOut: two hosts that share a login and split the *)
(* sources between them, and a third with a login of its own that manages  *)
(* some of the first one's.                                                *)
(***************************************************************************)
EXTENDS HoldOut, TLC

CONSTANTS h1, h2, h3, s1, s2, s3

MCLogin == (h1 :> "ingest") @@ (h2 :> "ingest") @@ (h3 :> "enclave")
MCManaged == (h1 :> {s1, s2}) @@ (h2 :> {s3}) @@ (h3 :> {s2})

=============================================================================
