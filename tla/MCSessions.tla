----------------------------- MODULE MCSessions -----------------------------
(* A small instance of Sessions for TLC. *)
EXTENDS Sessions, TLC

CONSTANTS b1, u1, r1, r2

OneBrowser == {b1}
OneUser == {u1}
TwoRequests == {r1, r2}

SymmetryRequests == Permutations(TwoRequests)
=============================================================================
