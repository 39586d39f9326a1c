SPECIFICATION LiveSpec
CONSTANTS Sessions = {s1} Callers = {c1, c2} MaxIdle = 1 None = None rd = rd rc = rc x1 = x1 x2 = x2
CHECK_DEADLOCK FALSE
PROPERTIES SessionsEndUp CloseReturns
