SPECIFICATION Spec
CONSTANTS
    t1 = t1
    t2 = t2
    t3 = t3
    f1 = f1
    f2 = f2
    va = va
    vb = vb
    c1 = c1
    c2 = c2
    Txns = {t1, t2, t3}
    Files = {f1, f2}
    Values = {va, vb}
    Long = {va, vb}
    Codes = {c1, c2}
    NoField = NoField
    NoValue = NoValue
    NoCode = NoCode
    NoRule = NoRule
    NoFile = NoFile
    Text <- MCText
    Whole <- MCWhole
    Flow <- MCFlow
    FileOf <- MCFileOf
    Reversed <- MCReversed
    DictDir <- MCDictDir
    Seeds <- MCSeeds
    Requests <- MCRequests
    Batches <- MCBatches
    Drafts <- MCDrafts
    Imports <- MCImports
    Matches <- MCMatches
    Sessions = {s1, s2}
    Brands = {"yufeng", "tamkoko"}
    MaxRules = 4
    MaxChanges = 2
    MaxFaults = 1
    MaxCalls = 3
SYMMETRY Symm
CHECK_DEADLOCK FALSE
INVARIANTS TypeOK  
 
