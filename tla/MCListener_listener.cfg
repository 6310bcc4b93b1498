SPECIFICATION ListenerSpec
CONSTANTS
    Secure = {TRUE, FALSE}
    MaxCon = 3
CHECK_DEADLOCK FALSE
INVARIANT AcceptArmed
INVARIANT CallbacksOnce
PROPERTY TransportEnds
