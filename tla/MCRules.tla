------------------------------ MODULE MCRules ------------------------------
(* Three transactions in two files: one classified by a rule with two
   conditions, one with no rule, one reversed.                                  *)
EXTENDS Rules, TLC

CONSTANTS t1, t2, t3, f1, f2, va, vb, c1, c2

Nothing == [f \in Fields |-> {}]
MCText == t1 :> [Nothing EXCEPT !["summary"] = {va}, !["counterparty_name"] = {vb}]
       @@ t2 :> [Nothing EXCEPT !["memo"] = {va}, !["counterparty_name"] = {va, vb}]
       @@ t3 :> [Nothing EXCEPT !["summary"] = {va}]
MCWhole == t1 :> vb @@ t2 :> NoValue @@ t3 :> NoValue
MCFlow == t1 :> {"out"} @@ t2 :> {"in"} @@ t3 :> {}
MCFileOf == t1 :> f1 @@ t2 :> f2 @@ t3 :> f2
MCReversed == {t3}
MCDictDir == c1 :> "out" @@ c2 :> "in"

Draft(d, f, v, f2nd, v2, c) ==
    [id |-> 0, dir |-> d, field |-> f, type |-> TypeFor(f), value |-> v,
     field2 |-> f2nd, value2 |-> v2, code |-> c, prio |-> 0, enabled |-> TRUE]
MCSeeds == {[Draft("out", "summary", va, "counterparty_name", vb, c1) EXCEPT !.id = 1, !.prio = 20],
            [Draft("in", "counterparty_name", va, NoField, NoValue, c1) EXCEPT !.id = 2, !.prio = 10]}
MCDrafts == {Draft("out", "summary", va, NoField, NoValue, c2)}
Asked(t, f, v, f2nd, v2, c) ==
    [txn |-> t, dir |-> "out", field |-> f, value |-> v, field2 |-> f2nd, value2 |-> v2, code |-> c]
MCRequests == {Asked(t1, "summary", va, NoField, NoValue, c1), Asked(t1, "summary", va, NoField, NoValue, c2),
               Asked(t2, "counterparty_name", vb, NoField, NoValue, c1), Asked(t2, "memo", va, NoField, NoValue, c2)}
MCBatches == {<<Asked(t1, "summary", va, "counterparty_name", vb, c1), Asked(t3, "summary", va, NoField, NoValue, c2)>>,
              <<Asked(t2, "summary", va, NoField, NoValue, c1), Asked(t2, "summary", va, NoField, NoValue, NoCode)>>}
MCImports == {<<Draft("out", "summary", va, NoField, NoValue, c1), Draft("out", "summary", va, NoField, NoValue, c1)>>}

MCMatches == {[txns |-> {t1, t2}, code |-> c2]}
Symm == Permutations(Sessions)
=============================================================================
