CONSTANTS
    Nodes <- MCNodes
    NoNode = NoNode
    n1 = n1  n2 = n2  n3 = n3
    MaxDown = 0
    MaxLiveExpiries = 1
    MaxCampErrors = 1
SPECIFICATION Spec
CHECK_DEADLOCK FALSE
INVARIANT AtMostOneController
