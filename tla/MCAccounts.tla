----------------------------- MODULE MCAccounts -----------------------------
(* Small instances of Accounts for TLC. *)
EXTENDS Accounts, TLC

CONSTANTS i1, i2, r1, r2, r3, r4

MCIds == {i1, i2}
TwoRequests == {r1, r2}
ThreeRequests == {r1, r2, r3}
FourRequests == {r1, r2, r3, r4}

\* Two spellings of one email: the index folds case, the code does not.
MCEmails == {"a@x", "A@x"}
MCTagOf == [e \in MCEmails |-> "a@x"]

\* Two emails of two accounts.
OtherEmails == {"a@x", "b@x"}
OtherTags == [e \in OtherEmails |-> e]

Symmetry2 == Permutations(MCIds) \cup Permutations(TwoRequests)
Symmetry3 == Permutations(MCIds) \cup Permutations(ThreeRequests)
Symmetry4 == Permutations(MCIds) \cup Permutations(FourRequests)
=============================================================================
