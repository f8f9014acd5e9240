---------------------------- MODULE MCMcpGateway ----------------------------
(* An instance of McpGateway for TLC: two members share a name.            *)
EXTENDS McpGateway, TLC

MCNameOf == 1 :> "ann" @@ 2 :> "ben" @@ 3 :> "ben"

MCAsked == {{}, {"ann", "ben"}}
=============================================================================
