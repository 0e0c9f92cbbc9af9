--------------------------- MODULE MCRuleStorage ----------------------------
EXTENDS RuleStorage

CONSTANTS p1, p2, n1, n2, c1, t1, t2

MCOneProc == {p1}
MCTwoProcs == {p1, p2}
MCNames == {n1}
MCTwoNames == {n1, n2}
MCCidrs == {c1}
MCPorts == {t1, t2}
=============================================================================
