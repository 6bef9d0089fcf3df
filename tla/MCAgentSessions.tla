--------------------------- MODULE MCAgentSessions ---------------------------
EXTENDS AgentSessions
==============================================================================
