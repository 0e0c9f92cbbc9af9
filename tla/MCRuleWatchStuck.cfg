\* The bounds of MCRuleWatch.cfg, checking that a stream waiting to register
\* its handler eventually does. Two writes queued before the creating stream
\* returns are enough for the stopped informer to fill that stream's
\* one-event channel and block on its second send, mutex held.
CONSTANTS
    s1 = s1
    s2 = s2
    k1 = k1
    k2 = k2
    v1 = v1
    v2 = v2
    Absent = Absent
    NoInf = NoInf
    Streams <- MCStreams
    RKeys <- MCKeys
    Vals <- MCVals
    MaxWrites = 2
    Cap = 1

SPECIFICATION Spec

CHECK_DEADLOCK FALSE

PROPERTY StreamEventuallyRegisters
