\* Reusable codes that may be drawn again: three are stored under two codes, so
\* that one can be drawn twice beside another that is still alive.
SPECIFICATION Spec
CONSTANTS
    Thread = {t1, t2}
    User = {u1, u2, u3}
    Code = {c1, c2}
    Null = Null
    ValidityPeriod = 1
    ExpireCodeWhenUsed = FALSE
    MaxTime = 3
INVARIANTS LiveEntriesAreQueued NoLostCode
PROPERTIES FlushNeverResumes ImplementsLifecycle
SYMMETRY Symmetry
