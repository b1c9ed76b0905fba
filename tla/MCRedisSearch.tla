--------------------------- MODULE MCRedisSearch ----------------------------
(* Values for the model checker: setter chains on two variables.  Variables *)
(* are alike, and so are arguments, which are only passed on and compared. *)
EXTENDS RedisSearch, TLC

CONSTANTS h1, h2, x, y

MCHandles == {h1, h2}
MCArguments == {x, y}
MCKeys == {"k1", "k2", "0.5"}
MCContents == {"c1", "c2"}
Perms == Permutations(MCHandles) \cup Permutations(MCArguments)
=============================================================================
