\* Overlapping requests of one session.
SPECIFICATION Spec
CONSTANTS
    Thread = {t1, t2}
    Session = {s1}
    Cookie = {c1, c2, c3}
    Null = Null
    Overlapping = {s1}
INVARIANT CookieGoneAfterApproval
