\* Two requests at a time, of clients and of the browsers of two people, over
\* one-time codes (the default) that may be drawn again.
SPECIFICATION AutologinSpec
SYMMETRY Symmetry
CONSTANTS
    Thread = {t1, t2}
    User = {u1, u2, u3}
    Code = {c1, c2}
    Person = {p1, p2}
    Null = Null
    ValidityPeriod = 1
    ExpireCodeWhenUsed = TRUE
    MaxTime = 2
INVARIANTS AutologinTypeOK SessionIsOwn OneSessionPerCode
PROPERTIES FreshLinkWorks
