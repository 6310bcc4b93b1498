CONSTANTS
    Client = {c1, c2}
    Secure = {FALSE, TRUE}
    HasAttrs = TRUE
    HasEvents = TRUE
    InitMayFail = TRUE
SPECIFICATION FairSpec
INVARIANT SubscribedWhileConnected
INVARIANT OneOwner
INVARIANT ExceptionAsTold
PROPERTY DestructorCompletes
CHECK_DEADLOCK FALSE
