CONSTANTS
    NoClient = NoClient
    c1 = c1
    c2 = c2
    Client = {c1, c2}
    Impatient = {}
    MayDie = {}
    Slots = 2
SPECIFICATION Spec
\* The service may have stopped.
CHECK_DEADLOCK FALSE
PROPERTY NoMoveUnderClaim
