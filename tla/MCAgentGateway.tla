---------------------------- MODULE MCAgentGateway ----------------------------
(***************************************************************************)
(* Model-checking instances of AgentGateway: a paired and a static agent,  *)
(* each with one project key, over two or three connections.               *)
(***************************************************************************)
EXTENDS AgentGateway, TLC

CONSTANTS paired, static, s1, s2, s3, k1, k2, c1

MCAgent == {paired, static}
MCPaired == {paired}
TwoSockets == {s1, s2}
MCKey == {k1, k2}
MCAgentOfKey == (k1 :> paired) @@ (k2 :> static)
OneCommand == {c1}
NoCommand == {}

Symmetry == Permutations(Socket)
=============================================================================
