SPECIFICATION FairSpec
CONSTANTS
  r0 = r0
  r1 = r1
  r2 = r2
  Runs = {r1, r2}
  Kind <- Mixed
  Published = {}
  MaxFaults = 1
PROPERTY RunsSettle
CHECK_DEADLOCK FALSE
