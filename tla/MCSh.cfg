CONSTANTS
    MAXARGS = 3
    MaxProcs = 8
    Lines <- MCLines
SPECIFICATION Spec
INVARIANTS ParsedRight ForegroundDone
PROPERTY PromptReturns
CHECK_DEADLOCK FALSE
