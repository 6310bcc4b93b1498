CONSTANTS
    Request <- MCRequest
    Device <- MCDevice
    MaxDevs = 2
    Conn = {c1, c2}
    Login = {alice, bob}
    Pass = {p1}
    Empty = Empty
    Missing = Missing
    Modes = {"client", "single", "group"}
    OptionLists <- AllOptions
SPECIFICATION GatewaySpec
SYMMETRY Symmetry
INVARIANT AuthenticatedAsLogin
INVARIANT DecisionKept
INVARIANT ToldIsUser
PROPERTY AuthorisedSends
INVARIANT KnownEscapes
INVARIANT Answered
CHECK_DEADLOCK FALSE
