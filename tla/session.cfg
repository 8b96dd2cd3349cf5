SPECIFICATION FairPartSpec
CONSTANTS
    Modes = {"auto", "plan"}
    MaxCalls = 2
    MaxOutside = 3
    MaxSessions = 4
    Viewers = {v}
    MaxProcs = 2
    MaxBuffer = 2
    Asked = {"claude"}
    TerminalLimits <- ShortVisits
CHECK_DEADLOCK FALSE
PROPERTIES  SessionCatchesUp TerminalAnswers
