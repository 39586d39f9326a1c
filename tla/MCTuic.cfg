SPECIFICATION SafetySpec
CONSTANTS Callers = {c1, c2} Assocs = {a1, a2} Loop = Loop Uni = Uni Writer = Uni User = User Free = Free
          Threshold = 2 MaxDeadlines = 2 p1 = p1 p2 = p2 g1 = g1 r1 = r1 Nil = Nil
CHECK_DEADLOCK FALSE
SYMMETRY Symmetry
INVARIANTS TuicClientSafe
PROPERTIES  ImplementsRingClient JuicityIsSound
