CONSTANTS
    Runs = {r1, r2}
    Compressors = {c1}
    Window = 1
    HistLimit = 3
    MaxTurns = 2
    MaxIds = 5
    MaxCrashes = 1
SPECIFICATION Spec
SYMMETRY Interchangeable
INVARIANTS TypeOK ReplayIsPaired
  
CHECK_DEADLOCK FALSE
