---------------------------- MODULE MCIndexBuild -----------------------------
(***************************************************************************)
(* An instance of IndexBuild: a server and the command line tool on one    *)
(* durable vector store.                                                   *)
(***************************************************************************)
EXTENDS IndexBuild

CONSTANTS server, cli, x, shared

Atoms == [a \in Artifacts |-> "atom"]
OneStore == [b \in Builders |-> shared]
=============================================================================
