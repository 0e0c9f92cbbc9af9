--------------------------- MODULE MCAgentControl ---------------------------
EXTENDS AgentControl

CONSTANTS c1, c2

MCOneConfig == {c1}
MCTwoConfigs == {c1, c2}
=============================================================================
