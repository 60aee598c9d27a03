\* Two services, three attempts each, crashes anywhere.
SPECIFICATION Spec
CONSTANTS
    Proc = {s1, s2}
    Claim = {c1, c2}
    NoProc = NoProc
    NoClaim = NoClaim
    MaxAttempts = 3
    MaxOutput = 1
INVARIANT LaunchedAtMostOnce
PROPERTIES AbandonedStaysBlocked ResolvedLaunchIsFinal LeaseReleased
CHECK_DEADLOCK FALSE
