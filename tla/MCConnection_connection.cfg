CONSTANTS
    Caller = {t1}
    Asio = asio
    MaxPush = 2
    MaxClose = 3
SPECIFICATION FairSpec
INVARIANT HandlersOnce
INVARIANT NothingAfterTerminal
INVARIANT NoFrameStuck
PROPERTY NeverReopened
PROPERTY EndsTold
CHECK_DEADLOCK FALSE
