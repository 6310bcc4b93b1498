SPECIFICATION Spec
CONSTANTS
    Attr = {"x", "y", "z"}
    IntMax = 8
    Option = {"prec=3", "precf=10"}
    Dev = {"d1", "d2"}
    Datum <- MCDatum
    CommandData <- MCCommandData
    Pipe <- MCPipe
    Asked <- MCAsked
    Precisions <- MCPrecisions
    Configs <- MCConfigs
    FewData <- MCFewData
    FewPipes <- MCFewPipes
CHECK_DEADLOCK FALSE
INVARIANT WellFormed
INVARIANT DataIsRead
INVARIANT PrecisionAsAsked
