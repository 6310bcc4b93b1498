CONSTANTS
    Conn = {c1, c2}
    NoConn = NoConn
    Id = {i1, i2}
    MaxConn = 1
    MaxErr = 1
    ClientMode = FALSE
    MayStop = TRUE
SPECIFICATION ServerSpec
PROPERTY RequestsAnswered
PROPERTY ImplementsRequests
PROPERTY StopCompletes
CHECK_DEADLOCK FALSE
