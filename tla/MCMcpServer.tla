---------------------------- MODULE MCMcpServer -----------------------------
(***************************************************************************)
(* Two servers: one verifies strictly, the other only warns.  One          *)
(* interaction; one key is used for two different events.                  *)
(***************************************************************************)
EXTENDS McpServer, TLC

CONSTANTS s1, s2, i1, k1, k2

MCCallers == {s1, s2}
MCChainMode == s1 :> "fail" @@ s2 :> "warn"
MCWants ==
  s1 :> {[id |-> i1, event |-> "Prepare", key |-> k1],
         [id |-> i1, event |-> "Close", key |-> k2]} @@
  s2 :> {[id |-> i1, event |-> "Close", key |-> k1]}
=============================================================================
