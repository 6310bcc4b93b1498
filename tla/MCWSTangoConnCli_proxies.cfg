CONSTANTS
    Conn = {c1, c2}
    NoConn = NoConn
    Id = {i1, i2, i3}
    MaxConn = 0
    MaxErr = 1
    ClientMode = TRUE
    MayStop = FALSE
SPECIFICATION CliSpec
SYMMETRY Symmetry
INVARIANT Registered
INVARIANT PendingWatched
INVARIANT AnsweredOnce
INVARIANT OpenTasksLive
