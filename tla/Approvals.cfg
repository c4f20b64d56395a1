\* Two tabs whose requests overlap with each other and with grants.
SPECIFICATION Spec
CONSTANTS
    Tab = {b1, b2}
    Client <- MCClient
    Scope <- MCScope
    Approval <- MCApproval
SYMMETRY Symmetry
INVARIANTS TypeOK DeletedStaysDeleted RevokedStaysRevoked
