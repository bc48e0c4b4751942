--------------------------- MODULE MCAgentRouter ---------------------------
(* Callers that compete for one resource over two providers.               *)
EXTENDS AgentRouter

CONSTANTS c1, c2, c3, article
=============================================================================
