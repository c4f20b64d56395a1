\* Two threads whose calls may overlap, emails that match any of two entries.
SPECIFICATION Spec
CONSTANTS
    Thread = {t1, t2}
    User = {u1, u2}
    Entry = {e1, e2}
    Password = {p1, p2}
    Empty = Empty
    Null = Null
SYMMETRY Symmetry
INVARIANTS TypeOK LoneVerdictIsOwn
