---------------------------- MODULE MCRuleWatch -----------------------------
EXTENDS RuleWatch

CONSTANTS s1, s2, k1, k2, v1, v2

MCStreams == {s1, s2}
MCKeys == {k1, k2}
MCVals == {v1, v2}
=============================================================================
