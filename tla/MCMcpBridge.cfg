CONSTANTS
    wdg = wdg
    s1 = s1
    own = own
    shared = shared
    Primaries = {wdg}
    Secondaries = {s1}
    Boot = Boot
    Nowhere = Nowhere
    Loops = {l1, l2}
    Tools = {own, shared}
    Serves <- ServesOne
    BootTries = 2
    MaxTries = 2
    MaxPings = 2
    MaxStamps = 4
SPECIFICATION Spec
INVARIANTS TypeOK ConnectedIsWatched 
PROPERTY Reconnects
CHECK_DEADLOCK FALSE
