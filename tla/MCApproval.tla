---------------------------- MODULE MCApproval -----------------------------
(* Instances of Approval for TLC: two proposals for the same bank          *)
(* transaction; the suggestion of the first lacks its code and that of the *)
(* second names a code the dictionary lacks, until a user corrects them.   *)
EXTENDS Approval, TLC

CONSTANTS pa, pb, t1, known, unknown

TheTxns == {t1}
OneTxn == (pa :> t1) @@ (pb :> t1)
AllType1 == (pa :> "type1") @@ (pb :> "type1")
Suggested == (pa :> NoCode) @@ (pb :> unknown)

CallSymmetry == Permutations(Calls)
=============================================================================
