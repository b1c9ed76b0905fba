---------------------------- MODULE MCRateLimit -----------------------------
(* Small instances of RateLimit for TLC. *)
EXTENDS RateLimit

CONSTANTS r1, r2, r3

ThreeRequests == {r1, r2, r3}
=============================================================================
