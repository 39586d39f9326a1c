CONSTANTS
  Clients = {c1, c2, c3}
  Procs = {p1, p2}
  Closers = {k1}
  Free = Free
  Nil = Nil
  Reports = {1, 3}
  Reserved = 2
SPECIFICATION FairSpec
INVARIANTS CursorsInRing NoClientLost WalkCoversRing
PROPERTIES NoClientAfterClose ClientsAreRingClients DialReturns DeadClientLeaves
