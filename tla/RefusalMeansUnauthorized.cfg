\* A refused second attempt was refused by the UAA with 401.
SPECIFICATION Spec
CONSTANTS
    Thread = {t1, t2}
    User = {u1}
    Null = Null
INVARIANT RefusalMeansUnauthorized
