\* Two browsers; one sends a request at a time, the other any number at once.
SPECIFICATION Spec
CONSTANTS
    Thread = {t1, t2, t3}
    Session = {s1, s2}
    Cookie = {c1, c2}
    Null = Null
    Overlapping = {s2}
SYMMETRY Symmetry
INVARIANTS TypeOK SessionsDoNotMix ApprovalMatchesPage CookieGoneUnlessOverlap
