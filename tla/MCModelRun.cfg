SPECIFICATION Spec
CONSTANTS
  r0 = r0
  r1 = r1
  r2 = r2
  Runs = {r0, r1, r2}
  Kind <- FullOnly
  Published = {r0}
  MaxFaults = 2
INVARIANTS TypeOK ActiveIsComplete CancelledIsNotPublished FailureIsRecorded
PROPERTY SwitchKeepsActive
SYMMETRY FreshSymmetry
CHECK_DEADLOCK FALSE
