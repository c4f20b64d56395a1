\* The verdict of a call that may overlap another.
SPECIFICATION Spec
CONSTANTS
    Thread = {t1, t2}
    User = {u1, u2}
    Entry = {e1, e2}
    Password = {p1, p2}
    Empty = Empty
    Null = Null
INVARIANT VerdictIsOwn
