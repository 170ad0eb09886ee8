CONSTANTS
    b1 = b1
    bx = bx
    Jobs = {"data_stale", "dup_rule"}
    Known = {b1}
    Filter <- Filters
    Dups = {h1}
    MaxDay = 1
    MaxFaults = 1
SPECIFICATION Spec
INVARIANTS TypeOK SuccessIsComplete
 
