\* Two processes, two operations each, one crash each.
SPECIFICATION Spec
CONSTANTS
    Proc = {p1, p2}
    Key = {k1, k2}
    Body = {b1, b2}
    NoProc = NoProc
    MaxOps = 2
    MaxCrashes = 1
INVARIANTS AcknowledgedDurable ReadsFresh
PROPERTIES ImplementsLog LockReleased
CHECK_DEADLOCK FALSE
