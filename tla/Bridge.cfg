CONSTANTS
    Callers = {r1, r2}
    MaxCalls = 3
SPECIFICATION Spec
INVARIANT SessionsAccounted
PROPERTIES SessionsEnd
CHECK_DEADLOCK FALSE
