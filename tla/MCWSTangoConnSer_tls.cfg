CONSTANTS
    Client = {c1, c2}
    Secure = {TRUE}
    HasAttrs = FALSE
    HasEvents = TRUE
    InitMayFail = FALSE
SPECIFICATION Spec
SYMMETRY Symmetry
INVARIANT NoSelfWait
CHECK_DEADLOCK FALSE
