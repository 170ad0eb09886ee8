------------------------------ MODULE Classify ------------------------------
(* The decision lists that give a bank transaction its category.

   sql/10_yufeng_fn_classify.sql, sql/10_bonjur_fn_classify.sql and
   sql/30_tamkoko_fn_classify_bank_txn_v2.sql hold one cascade: five steps, each
   a query for the enabled rule of lowest priority on one field; the first step
   that finds a rule answers.  sql/40_*_apply_classification.sql redefine the
   function of two brands without the second condition.  sql/50_yufeng_rule_settle
   .sql and scripts/classify.py hold a second kind: rules in order of priority,
   each tried on its fields.

   A text is the set of keywords it contains; the texts of a transaction do not
   change.  Two rules of one priority have no order in the queries, so a
   classification is the set of rules that may be returned.                     *)
EXTENDS Integers, FiniteSets

CONSTANTS Txns,      \* bank transactions
          Values,    \* keywords of rules
          Long,      \* the keywords of three characters or more
          Codes,     \* categories
          Text,      \* Text[t][f]: the keywords field f of t contains
          Whole,     \* Whole[t]: the keyword the counterparty of t equals
          Flow,      \* Flow[t]: the directions in which t has a positive amount
          NoField, NoValue, NoCode

Fields == {"summary", "memo", "purpose", "counterparty_name"}
Directions == {"in", "out"}

ASSUME ClassifyAssumption ==
    /\ Long \subseteq Values
    /\ Text \in [Txns -> [Fields -> SUBSET Values]]
    /\ Whole \in [Txns -> Values \cup {NoValue}]
    /\ Flow \in [Txns -> SUBSET Directions]
    /\ NoField \notin Fields /\ NoValue \notin Values /\ NoCode \notin Codes
    /\ \A t \in Txns : Whole[t] # NoValue => Whole[t] \in Text[t]["counterparty_name"]

(* A row of bank_rule_map. field2 and value2 are its second condition.          *)
Rule == [id      : Nat,
         dir     : Directions \cup {"any"},
         field   : Fields \cup {"any"},
         type    : {"contains", "exact"},
         value   : Values,
         field2  : Fields \cup {NoField},
         value2  : Values \cup {NoValue},
         code    : Codes,
         prio    : Int,
         enabled : BOOLEAN]

DirectionFits(r, t) == r.dir = "any" \/ r.dir \in Flow[t]

Contains(t, f, v) == v \in Text[t][f]

SecondFits(r, t) == r.field2 = NoField \/ Contains(t, r.field2, r.value2)

(* ORDER BY priority ASC LIMIT 1                                                *)
Lowest(H) == {r \in H : \A s \in H : r.prio <= s.prio}

-----------------------------------------------------------------------------
(* The cascade.                                                                 *)

Steps == 1..5
StepField == <<"summary", "memo", "purpose", "counterparty_name", "counterparty_name">>
StepType  == <<"contains", "contains", "contains", "contains", "exact">>

OfStep(r, t, k) == /\ r.enabled
                   /\ r.field = StepField[k] /\ r.type = StepType[k]
                   /\ DirectionFits(r, t)

(* Steps 1 to 3: summary, memo, purpose.                                        *)
TextHits(R, t, k) ==
    {r \in R : OfStep(r, t, k) /\ Contains(t, StepField[k], r.value) /\ SecondFits(r, t)}

(* Step 4a and 4b: the counterparty, a contained keyword before an exact name.
   They run whenever the steps before found nothing, empty texts or not.        *)
NameHits(R, t, k) ==
    {r \in R : /\ OfStep(r, t, k)
               /\ IF k = 4 THEN r.value \in Long /\ Contains(t, "counterparty_name", r.value)
                           ELSE Whole[t] = r.value
               /\ SecondFits(r, t)}

StepHits(R, t, k) == IF k <= 3 THEN TextHits(R, t, k) ELSE NameHits(R, t, k)

(* What fn_classify_bank_txn_v2 may return; empty means unclassified.           *)
Winners(R, t) ==
    {r \in R : \E k \in Steps : /\ r \in Lowest(StepHits(R, t, k))
                                /\ \A j \in 1..(k - 1) : StepHits(R, t, j) = {}}

(* The same text in the schemas of two other brands.                            *)
BonjurTextHits(R, t, k) == TextHits(R, t, k)
BonjurNameHits(R, t, k) == NameHits(R, t, k)
TamkokoTextHits(R, t, k) == TextHits(R, t, k)
TamkokoNameHits(R, t, k) == NameHits(R, t, k)

(* The redefinitions of sql/40: rules are read without their second condition.  *)
OneSided(R) == {[r EXCEPT !.field2 = NoField, !.value2 = NoValue] : r \in R}
YufengPlainWinners(R, t) == Winners(OneSided(R), t)
BonjurPlainWinners(R, t) == Winners(OneSided(R), t)

-----------------------------------------------------------------------------
(* Lists by priority.                                                           *)

(* fn_classify_bank_txn: an override wins, then the rules of lowest priority
   whose conditions hold; contains whatever the type says, "any" on all fields. *)
OrderedHits(R, t) ==
    {r \in R : /\ r.enabled /\ DirectionFits(r, t)
               /\ \E f \in Fields : r.field \in {f, "any"} /\ Contains(t, f, r.value)
               /\ r.value2 # NoValue => SecondFits(r, t)}
OrderedWinners(R, t) == Lowest(OrderedHits(R, t))

(* fn_check_rule_conflict: the field and the keyword agree, the category not.   *)
Conflicts(R, f, v, c) == {r \in R : r.enabled /\ r.field = f /\ r.value = v /\ r.code # c}

(* classify.py: rules by priority, every rule on every field whatever field it
   names; an exact rule must equal the field, the second condition is read with
   the type of the first.                                                       *)
PythonTextFits(t, f, type, v) ==
    IF type = "contains" THEN Contains(t, f, v)
                         ELSE f = "counterparty_name" /\ Whole[t] = v
PythonHits(R, t) ==
    {r \in R : /\ DirectionFits(r, t)
               /\ \E f \in Fields : PythonTextFits(t, f, r.type, r.value)
               /\ r.field2 = NoField \/ PythonTextFits(t, r.field2, r.type, r.value2)}
PythonWinners(R, t) == Lowest(PythonHits(R, t))

-----------------------------------------------------------------------------
(* Views for operators.                                                         *)

(* v_rule_conflict_all: every enabled rule whose field contains its keyword, as
   rivals of the first by priority; types and second conditions are not read.   *)
ConflictHits(R, t) ==
    {r \in R : /\ r.enabled /\ DirectionFits(r, t)
               /\ \E f \in Fields : r.field \in {f, "any"} /\ Contains(t, f, r.value)}
ConflictSelected(R, t) == Lowest(ConflictHits(R, t))

(* fn_preview_match_value and GET /api/match/preview: the transactions with the
   keyword in any field, which bounds what a rule on one field may take.        *)
PreviewTxns(v) == {t \in Txns : \E f \in Fields : Contains(t, f, v)}

(* v_unclassified_top_keywords: a category by priority from any text but the
   purpose, whatever field and direction the rule names.                        *)
Suggested(R, t) ==
    Lowest({r \in R : r.enabled /\ \E f \in Fields \ {"purpose"} : Contains(t, f, r.value)})
=============================================================================
