---------------------------- MODULE MCTransform ----------------------------
(* Small instances of Transform: two rows of one day and one of another    *)
(* day of the same month, so that chunks split a day and a month.          *)
EXTENDS Transform, TLC

CONSTANTS r1, r2, r3

MCDay   == r1 :> "d1" @@ r2 :> "d1" @@ r3 :> "d2"
MCMonth == r1 :> "m" @@ r2 :> "m" @@ r3 :> "m"

Interchangeable == Permutations({r1, r2})

=============================================================================
