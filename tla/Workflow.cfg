\* Two tasks, registered with disjoint or with overlapping paths: one is
\* reviewed, the other may be given to a subagent and run beside the first.
SPECIFICATION Spec
CONSTANTS
    t1 = t1
    t2 = t2
    Task = {t1, t2}
    Reviewed = {t1}
    Owned <- MCOwned
    f1 = f1
    f2 = f2
    s1 = s1
    s2 = s2
    s3 = s3
    Subject <- MCSubject
    Exception <- MCException
    Guarded = {t2}
    None = None
    MaxSequence = 5
    MaxWorkers = 2
SYMMETRY MCSymmetry
INVARIANTS IntegrationBacked WritersApart
CHECK_DEADLOCK FALSE
