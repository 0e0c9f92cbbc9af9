CONSTANTS
    r1 = r1
    r2 = r2
    a = a
    b = b
    v1 = v1
    v2 = v2
    Reflectors <- MCOneReflector
    KeysOf <- MCOneKeysOf
    Values = {v1, v2}
    Absent = Absent
    NoKey = NoKey
    MaxWrites = 2
    MaxBreaks = 0

SPECIFICATION Spec

CHECK_DEADLOCK FALSE

INVARIANT CaughtUpCacheMatchesStore
