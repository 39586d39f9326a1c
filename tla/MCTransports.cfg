SPECIFICATION SafetySpec
CONSTANTS Pushers = {p1, p2} Registrars = {g1, g2} Readers = {r1, r2} MaxPackets = 3 Cap = 2 Free = Free Nil = Nil
          Unset = Unset
CHECK_DEADLOCK FALSE
SYMMETRY Symmetry
INVARIANTS ReceiveQueueSafe     LazyConnsAreOwned
  
PROPERTIES CongestionStepsAreLegal
