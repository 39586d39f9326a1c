SPECIFICATION LiveSpec
CONSTANTS Callers = {c1, c2} Sessions = {s1} MaxConns = 2 Free = Free
          r1 = r1 k1 = k1
          Nobody = Nobody Worker = Worker Owner = Owner Router = Router None = None
          d1 = d1 d2 = d2 a4 = a4 b4 = b4 c6 = c6 Nil = Nil
CHECK_DEADLOCK FALSE
PROPERTIES Hy2Settles ClosedEnds
