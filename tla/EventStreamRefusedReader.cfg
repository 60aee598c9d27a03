\* Two processes, two operations each, one crash each.
SYMMETRY Symmetry
SPECIFICATION Spec
CONSTANTS
    Proc = {p1, p2}
    Key = {k1, k2}
    Body = {b1, b2}
    NoProc = NoProc
    MaxOps = 2
    MaxCrashes = 1
INVARIANT CorruptOnlyIfBroken
CHECK_DEADLOCK FALSE
