---------------------------- MODULE MCAgentServe ----------------------------
\* Model for AgentServe: the honest client among peers that do as they like.
EXTENDS AgentServe, TLC

MCPurpose == ("k" :> "transfer") @@ ("t" :> "treasury") @@ ("x" :> "absent")
=============================================================================
