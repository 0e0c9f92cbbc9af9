CONSTANTS
    r1 = r1
    r2 = r2
    a = a
    b = b
    v1 = v1
    v2 = v2
    Reflectors <- MCReflectors
    KeysOf <- MCKeysOf
    Values = {v1}
    Absent = Absent
    NoKey = NoKey
    MaxWrites = 3
    MaxBreaks = 1

SPECIFICATION Spec

\* The bounded clients stop writing and the watches idle: the informer
\* legitimately waits for further events.
CHECK_DEADLOCK FALSE

INVARIANTS
    TypeOk

PROPERTIES
    StoreRevMonotone
    EventuallySynced
