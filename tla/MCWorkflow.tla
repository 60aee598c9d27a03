----------------------------- MODULE MCWorkflow -----------------------------
\* t1 is reviewed, and repaired at most once; t2 may be given to a subagent,
\* beside t1 or on its own.  t2 owns a file; t1 owns another, or the directory
\* both are in.
EXTENDS Workflow, TLC

CONSTANTS t1, t2, s1, s2, s3, f1, f2

MCOwned == (t1 :> {{f1}, {f1, f2}}) @@ (t2 :> {{f2}})

MCException == {<<t2, "subagent">>}

MCSubject == (t1 :> {s1, s2}) @@ (t2 :> {s3})

\* Nothing tells the two candidates of t1 apart.
MCSymmetry == Permutations({s1, s2})
=============================================================================
