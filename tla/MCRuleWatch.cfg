\* Two streams of one rule-set name, two rule keys with two values each,
\* two writes and a channel of one event: enough for a write to land
\* between a lookup and a registration, for a full channel to hold the
\* process loop and its mutex, and for one stream to use the other's informer.
CONSTANTS
    s1 = s1
    s2 = s2
    k1 = k1
    k2 = k2
    v1 = v1
    v2 = v2
    Absent = Absent
    NoInf = NoInf
    Streams <- MCStreams
    RKeys <- MCKeys
    Vals <- MCVals
    MaxWrites = 2
    Cap = 1

SPECIFICATION Spec

\* Writes are bounded and every stream is served once; a stream whose
\* handler waits for a mutex held by a blocked process loop waits forever.
CHECK_DEADLOCK FALSE

INVARIANT
    SnapshotThenTail
