SPECIFICATION FairSpec
CONSTANTS
 Clients = {c1, c2}
 Convs = {x, y}
 Known = {x}
 Runs = {r1, r2}
 Calls = {k1}
 None = None
 MaxTurns = 2
 MaxCalls = 2
INVARIANTS TypeOK  RepeatsAreItsOwn
PROPERTY InterruptedEnds
CHECK_DEADLOCK FALSE
