\* Two logins of one user that overlap in the helper and in the remote calls,
\* with the right, a wrong or an empty password.
SPECIFICATION LoginSpec
CONSTANTS
    Thread = {t1, t2}
    User = {u1}
    Entry = {e1}
    Password = {p1, p2}
    Empty = Empty
    Null = Null
SYMMETRY Symmetry
INVARIANTS TypeOK OneProvisioner FirstLoginIsComplete LoneLoginIsOwn
PROPERTIES NothingIsRepaired ImplementsProvisioning VerdictsAreCovered
