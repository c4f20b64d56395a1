\* One-time codes (the default), drawn with repetition, with fair threads.
SPECIFICATION FairSpec
CONSTANTS
    Thread = {t1, t2}
    User = {u1, u2}
    Code = {c1, c2}
    Null = Null
    ValidityPeriod = 1
    ExpireCodeWhenUsed = TRUE
    MaxTime = 2
INVARIANTS TypeOK LiveEntriesAreQueued OneTimeUse
PROPERTIES ImplementsLifecycle ClaimsAreSettled
