\* One tab, and two approvals with one key.
SPECIFICATION Spec
CONSTANTS
    Tab = {b1}
    Client <- MCClient
    Scope <- MCScope
    Approval <- MCApproval
PROPERTY ChosenAreRevoked
