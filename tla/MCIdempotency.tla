---- MODULE MCIdempotency ----
EXTENDS Idempotency, TLC

CONSTANTS r1, r2, r3, r4, b1, b2

\* Three requests of one operation, and one that brings other data.
MCBody == (r1 :> b1) @@ (r2 :> b1) @@ (r3 :> b1) @@ (r4 :> b2)
====
