--------------------------- MODULE MCAgentReconnect ---------------------------
(* AgentReconnect with two connections, so that a stale one can overlap with   *)
(* the current one (three where the agent drops twice), and delays of 2, 4 and *)
(* 5 ticks.                                                                    *)
EXTENDS AgentReconnect

===============================================================================
