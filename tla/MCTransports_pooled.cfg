SPECIFICATION PooledSpec
CONSTANTS Pushers = {p1} Registrars = {g1} Readers = {r1} MaxPackets = 1 Cap = 1 Free = Free Nil = Nil
          Unset = Unset
CHECK_DEADLOCK FALSE
INVARIANT WriteGetsItsOwnResult
