SPECIFICATION LiveSpec
CONSTANTS Callers = {c1} Assocs = {a1} Loop = Loop Uni = Uni Writer = Uni User = User Free = Free
          Threshold = 1 MaxDeadlines = 0 p1 = p1 p2 = p2 g1 = g1 r1 = r1 Nil = Nil
CHECK_DEADLOCK FALSE
PROPERTIES QuicRetires CallsReturn
