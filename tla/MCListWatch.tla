---------------------------- MODULE MCListWatch ----------------------------
EXTENDS ListWatch

CONSTANTS r1, r2, a, b, v1, v2

\* leader.go: the agent node reflector and the applied running reflector.
MCReflectors == {r1, r2}
MCKeysOf == (r1 :> {a}) @@ (r2 :> {b})

\* A single reflector, as for the status cache and each rule-set informer.
MCOneReflector == {r1}
MCOneKeysOf == r1 :> {a}
=============================================================================
