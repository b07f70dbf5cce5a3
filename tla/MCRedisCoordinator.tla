------------------------- MODULE MCRedisCoordinator -------------------------
(***************************************************************************)
(* Two processes, or one, on one interaction.  Every effect uses up a key, *)
(* so the number of keys is the only bound the state space needs.          *)
(***************************************************************************)
EXTENDS RedisCoordinator, TLC

CONSTANT Creator  \* the processes that may create the interactions

CreatorsOfAll == [i \in Interactions |-> Creator]

Symmetry == Permutations(Keys)
=============================================================================
