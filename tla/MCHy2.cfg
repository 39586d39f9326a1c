SPECIFICATION SafetySpec
CONSTANTS Callers = {c1, c2} Sessions = {s1, s2} MaxConns = 3 Free = Free
          r1 = r1 k1 = k1
          Nobody = Nobody Worker = Worker Owner = Owner Router = Router None = None
          d1 = d1 d2 = d2 a4 = a4 b4 = b4 c6 = c6 Nil = Nil
CHECK_DEADLOCK FALSE
SYMMETRY Symmetry
INVARIANTS Hy2ClientSafe AssembledIsPacket HopIsSound PortsAreExact StickyDialsAreSound
PROPERTIES  FreshEntryStays
