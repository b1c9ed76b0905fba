------------------------------- MODULE MCPage -------------------------------
(* A small instance of Page for TLC. *)
EXTENDS Page, TLC

CONSTANTS b1, u1, u2, r1, r2

MCBrowsers == {b1}
MCOneUser == {u1}
MCOneRequest == {r1}
MCUsers == {u1, u2}
MCRequests == {r1, r2}
Symmetry == Permutations(MCUsers) \cup Permutations(MCRequests)
=============================================================================
