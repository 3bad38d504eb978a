--------------------------- MODULE Categorization ---------------------------
(***************************************************************************)
(* What the program derives of a row before reconciliation, and what it     *)
(* learns: rules, local memory, structural marks, saved corrections,        *)
(* source-data and overlap review (src/honeymoney/workspace_derivation.py,  *)
(* rules.py, categorization_memory.py, classification_policy.py,            *)
(* corrections.py, learning.py).  The local model is off, as it is by       *)
(* default; ModelFallback models it.                                        *)
(*                                                                          *)
(* A correction is a function from the fields it saves to their values.     *)
(***************************************************************************)
EXTENDS Reconciliation

CONSTANTS
    ManualRules,   \* the user's own rules
    Memory,        \* categorization_memory.enabled
    Spending,      \* the categories with a spending policy
    Generic        \* descriptions too common to learn from or to remember

\* A category that was saved is never the blank that stands for none.
SpendingAssumption == None \notin Spending
ASSUME SpendingAssumption

\* A restored source row, before anything is derived of it.
Restored(x) ==
    [cat |-> "Unknown", flow |-> "unresolved", src |-> "deterministic",
     owner |-> Fact[x].owner, reasons |-> {"category", "flow"}, needs |-> TRUE,
     flags |-> {}, pair |-> None, partner |-> None, group |-> None,
     status |-> "not_applicable", value |-> Value(x)]

\* An overlap whose count is open asks which rows are one event.
OverlapReview(x, d) ==
    IF Fact[x].amb
    THEN SetReason([d EXCEPT !.flags = @ \cup {"overlap_count_ambiguous"}], "identity", TRUE)
    ELSE d

-----------------------------------------------------------------------------
(* Rules: the user's before the learned ones, then by priority, an exact    *)
(* amount before any amount, then file order; the first that matches wins.  *)
Matches(rule, x) ==
    /\ rule.word \in {None, Fact[x].word}
    /\ rule.acct \in {None, Fact[x].acct}
    /\ rule.dir \in {None, Direction(x)}
    /\ rule.amount \in {None, <<Fact[x].amt, Fact[x].ccy>>}

Specific(rule) == IF rule.managed /\ rule.amount # None THEN 1 ELSE 0

Precedes(a, b) ==
    IF a.managed # b.managed THEN b.managed
    ELSE IF a.prio # b.prio THEN a.prio > b.prio
    ELSE IF Specific(a) # Specific(b) THEN Specific(a) > Specific(b)
    ELSE a.pos < b.pos

FirstMatch(rules, x) ==
    {a \in rules : Matches(a, x) /\ \A b \in rules \ {a} : Matches(b, x) => Precedes(a, b)}

RuledBy(rule, d) ==
    LET flowed == IF rule.flow = None THEN d
                  ELSE [d EXCEPT !.flow = rule.flow, !.src = "rule"]
    IN  SetReasons([flowed EXCEPT !.cat = rule.cat, !.flags = @ \cup {"matched_rule"}],
                   {}, {"category", "suggestion"})

Ruled(rules, x, d) ==
    IF FirstMatch(rules, x) = {} THEN d
    ELSE RuledBy(CHOOSE rule \in FirstMatch(rules, x) : TRUE, d)

-----------------------------------------------------------------------------
(* Local memory: two finished corrections of one merchant that agree, and   *)
(* none that disagrees, categorize its rows that are still unknown.         *)
Field(correction, field, default) ==
    IF field \in DOMAIN correction THEN correction[field] ELSE default
Finished(correction) == Field(correction, "needs", TRUE) = FALSE

MemoryKey(x) ==
    [acct |-> Fact[x].acct, inst |-> Fact[x].inst, ccy |-> Fact[x].ccy, word |-> Fact[x].word]

Remembered(present, saved, x) ==
    LET agree == {y \in present \cap DOMAIN saved :
                    /\ MemoryKey(y) = MemoryKey(x)
                    /\ Finished(saved[y])
                    /\ Field(saved[y], "cat", None) \in Spending}
        cats == {saved[y]["cat"] : y \in agree}
    IN  IF Memory /\ Fact[x].word \notin Generic /\ Cardinality(agree) > 1 /\ Cardinality(cats) = 1
        THEN cats ELSE {}

FromMemory(present, saved, x, d) ==
    IF d.cat # "Unknown" \/ Remembered(present, saved, x) = {} THEN d
    ELSE SetReasons([d EXCEPT !.cat = CHOOSE c \in Remembered(present, saved, x) : TRUE,
                              !.flags = @ \cup {"memory"}],
                    {}, {"category", "suggestion"})

-----------------------------------------------------------------------------
(* Structural marks: what the bank's own words leave no doubt about.        *)
StructuralMark(x) ==
    LET fact == Fact[x]
    IN  IF fact.amt > 0 /\ fact.word = "cashback" THEN {<<"Other", "refund">>}
        ELSE IF fact.amt > 0 /\ fact.word = "interest" THEN {<<"Income", "income">>}
        ELSE IF fact.amt < 0 /\ fact.word = "atm" THEN {<<"Cash", "expense">>}
        ELSE IF fact.amt > 0 /\ fact.type = "credit_card" /\ fact.word = "card payment"
        THEN {<<"Credit Card Payment", "credit_card_payment">>} ELSE {}

MarkedAs(mark, d) ==
    SetReasons([d EXCEPT !.cat = mark[1], !.flow = mark[2], !.src = "structural",
                         !.flags = @ \cup {"structural"}],
               (IF mark[1] = "Other" THEN {"suggestion"} ELSE {})
                   \cup (IF d.owner = "Unknown" THEN {"owner"} ELSE {}),
               {"category", "suggestion", "owner"})
Structural(x, d) ==
    IF d.cat # "Unknown" \/ ~d.needs \/ "matched_rule" \in d.flags \/ StructuralMark(x) = {}
    THEN d
    ELSE MarkedAs(CHOOSE mark \in StructuralMark(x) : TRUE, d)

-----------------------------------------------------------------------------
(* A saved correction, field by field.                                      *)
WithFields(correction, d) ==
    [d EXCEPT
        !.cat = Field(correction, "cat", @),
        !.flow = Field(correction, "flow", @),
        !.src = IF "flow" \in DOMAIN correction THEN "correction" ELSE @,
        !.owner = Field(correction, "owner", @),
        !.pair = Field(correction, "pair", @),
        !.needs = Field(correction, "needs", @),
        !.reasons = Field(correction, "reasons", @),
        !.flags = @ \cup {"manual_correction"}]
WithReasons(correction, d) ==
    IF "reasons" \in DOMAIN correction THEN Asking(d, correction["reasons"])
    ELSE IF Field(correction, "cat", "Unknown") # "Unknown"
    THEN SetReasons(d, {}, {"category", "suggestion"})
    ELSE d
Corrected(correction, d) == Synchronized(WithReasons(correction, WithFields(correction, d)))

(* Source data is in question where the import found a conflict (the rows   *)
(* of "flagged") and where an overlap's count is open.                      *)
SourceReview(flagged, x, d) ==
    LET evidence == x \in flagged \/ "overlap_count_ambiguous" \in d.flags
    IN  SetReason([d EXCEPT !.flags = (@ \ SourceFlags) \cup (IF evidence THEN SourceFlags ELSE {})],
                  "source", evidence)

\* Mutant of DerivedRow: the rules come after the corrections.
RuledLast(present, flagged, rules, saved, x) ==
    LET corrected == IF x \in DOMAIN saved /\ DOMAIN saved[x] # {}
                     THEN Corrected(saved[x], OverlapReview(x, Restored(x)))
                     ELSE OverlapReview(x, Restored(x))
        known == Structural(x, FromMemory(present, saved, x, Ruled(rules, x, corrected)))
    IN  Synchronized(OverlapReview(x, SourceReview(flagged, x, known)))

(* derive_workspace_rows: every row of the workspace, before any view.      *)
DerivedRow(present, flagged, rules, saved, x) ==
    LET ruled == Ruled(rules, x, OverlapReview(x, Restored(x)))
        known == Structural(x, FromMemory(present, saved, x, ruled))
        corrected == IF x \in DOMAIN saved /\ DOMAIN saved[x] # {}
                     THEN Corrected(saved[x], known) ELSE known
    IN  Synchronized(OverlapReview(x, SourceReview(flagged, x, OverlapReview(x, corrected))))

Derived(present, flagged, rules, saved) ==
    Reconciled(Tabulated([x \in present |-> DerivedRow(present, flagged, rules, saved, x)]))

-----------------------------------------------------------------------------
(* Learning: exact rules from finished corrections.  A signature whose rows *)
(* are all decided, and all alike, gives one rule; a signature with         *)
(* different decisions gives one rule for each amount whose rows are all    *)
(* decided alike.                                                           *)
Evidence(saved, x) ==
    IF x \notin DOMAIN saved THEN {}
    ELSE LET c == saved[x]
             cat == Field(c, "cat", "Unknown")
             flow == Field(c, "flow", None)
         IN  IF ~Finished(c) \/ cat = "Unknown" \/ (cat \in Protected /\ flow = None) THEN {}
             ELSE {[cat |-> cat, flow |-> flow]}

Learnable(rows) ==
    {x \in DOMAIN rows : /\ Direction(x) # None /\ Fact[x].word \notin Generic
                         /\ "overlap_count_ambiguous" \notin rows[x].flags}
Signature(x) == [acct |-> Fact[x].acct, word |-> Fact[x].word, dir |-> Direction(x)]
Alike(rows, x) == {y \in Learnable(rows) : Signature(y) = Signature(x)}
AlikeInAmount(rows, x) ==
    {y \in Alike(rows, x) : Fact[y].amt = Fact[x].amt /\ Fact[y].ccy = Fact[x].ccy}

Outcomes(saved, S) == UNION {Evidence(saved, x) : x \in S}

Agreed(saved, S) ==
    Cardinality(Outcomes(saved, S)) = 1 /\ \A x \in S : Evidence(saved, x) # {}

ManagedRule(x, amount, evidence) ==
    [managed |-> TRUE, prio |-> IF amount = None THEN -1000 ELSE -999, pos |-> 0,
     word |-> Fact[x].word, acct |-> Fact[x].acct, dir |-> Direction(x), amount |-> amount,
     cat |-> evidence.cat, flow |-> evidence.flow]

SignatureRules(rows, saved) ==
    UNION {{ManagedRule(x, None, evidence) : evidence \in Outcomes(saved, Alike(rows, x))} :
            x \in {y \in Learnable(rows) : Agreed(saved, Alike(rows, y))}}
AmountRules(rows, saved) ==
    UNION {{ManagedRule(x, <<Fact[x].amt, Fact[x].ccy>>, evidence) :
                evidence \in Outcomes(saved, AlikeInAmount(rows, x))} :
            x \in {y \in Learnable(rows) :
                    /\ Cardinality(Outcomes(saved, Alike(rows, y))) > 1
                    /\ Agreed(saved, AlikeInAmount(rows, y))}}
LearnedRules(rows, saved) == SignatureRules(rows, saved) \cup AmountRules(rows, saved)
=============================================================================
