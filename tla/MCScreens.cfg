CONSTANTS
    Pages <- AllPages
    MaxChanges = 2
    MaxFlight = 2
    MaxPolls = 2
    MaxFaults = 1
    MaxElsewhere = 1
    Unwatched <- KnownUnwatched
    LeftBehind <- KnownLeftBehind
    Premature <- KnownPremature
    Outlived <- KnownOutlived
    Hidden <- KnownHidden
SPECIFICATION ScreenSpec
INVARIANTS ScreenTypeOK  
PROPERTIES  LoadingEnds PolledCatchesUp
CHECK_DEADLOCK FALSE
