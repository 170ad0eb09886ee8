SPECIFICATION Spec
CONSTANTS
 pa = pa
 pb = pb
 t1 = t1
 known = known
 unknown = unknown
 NoCode = NoCode
 Nobody = Nobody
 Proposals = {pa, pb}
 Txns <- TheTxns
 TxnOf <- OneTxn
 Type <- AllType1
 Llm <- Suggested
 Codes = {known, unknown}
 Dictionary = {known}
 Calls = {s1, s2}
SYMMETRY CallSymmetry
INVARIANTS TypeOK SettledTogether RepeatYields
CHECK_DEADLOCK FALSE
