\* Two streams, two rule keys, two writes: a rule deleted after a stream
\* has listed it.
CONSTANTS
    s1 = s1
    s2 = s2
    k1 = k1
    k2 = k2
    v1 = v1
    v2 = v2
    Absent = Absent
    NoInf = NoInf
    Streams <- MCStreams
    RKeys <- MCKeys
    Vals <- MCVals
    MaxWrites = 2
    Cap = 1

SPECIFICATION Spec

\* Writes are bounded and every stream is served once; a stream whose
\* handler waits for a mutex held by a blocked process loop waits forever.
CHECK_DEADLOCK FALSE

INVARIANT
    ClientMirrorsStore
