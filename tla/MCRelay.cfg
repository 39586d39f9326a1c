SPECIFICATION RelaySpec
CONSTANTS w1 = w1 w2 = w2 w3 = w3 t1 = t1 Free = Free
          Registrars = {r1, r2} Closers = {k1} Messages = 2 QueueCap = 1 ChanCap = 1
          Nobody = Nobody Worker = Worker Owner = Owner Router = Router
CHECK_DEADLOCK FALSE
SYMMETRY Symmetry
INVARIANTS MessagesInOrder StreamStaysAligned WireIsFramed VisionIsDecodable
