SPECIFICATION Spec
CONSTANTS
    Modes = {"auto"}
    MaxCalls = 0
    MaxOutside = 1
    MaxSessions = 2
PROPERTY InterruptReaches
CHECK_DEADLOCK FALSE
