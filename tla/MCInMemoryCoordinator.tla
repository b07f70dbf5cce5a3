----------------------- MODULE MCInMemoryCoordinator ------------------------
(***************************************************************************)
(* Two threads, one interaction and four keys: enough for a key to be     *)
(* fresh, replayed by the thread that used it and replayed by the other,   *)
(* at every place of an interaction's life.                                *)
(***************************************************************************)
EXTENDS InMemoryCoordinator, TLC

Symmetry == Permutations(Keys) \cup Permutations(Callers)
=============================================================================
