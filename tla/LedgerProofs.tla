---------------------------- MODULE LedgerProofs ----------------------------
(***************************************************************************)
(* Theorems about ReviewedLedger, and about the modules it is built from    *)
(* (Categorization, Reconciliation, ExchangeMatching), for any rows, facts, *)
(* rates, rules, files and bounds.                                          *)
(*                                                                          *)
(* From the bottom up: what each operation changes in the treatment of one  *)
(* row; what each stage of the reconciliation makes of all of them; that    *)
(* the search for exchange pairs is exact; and what therefore holds of any  *)
(* ledger that was reconciled, whatever state it came from.  The inductive  *)
(* invariant (LedgerInv) is short: the views are derived of the files, with *)
(* the corrections as the last command held them before it wrote them, and  *)
(* a choice that is still fresh would be worked out the same now.           *)
(*                                                                          *)
(* Two ledgers are compared twice: one derived of what a command held and   *)
(* one of what was read back (Twins), and one before and one after a choice *)
(* was saved (SameBut).                                                     *)
(***************************************************************************)
EXTENDS ReviewedLedger, FiniteSetTheorems, WellFoundedInduction, TLAPS

-----------------------------------------------------------------------------
(* Treatments, and what each operation on one changes.                      *)
Fields == {"cat", "flow", "src", "owner", "reasons", "needs", "flags", "pair", "partner", "group",
           "status", "value"}
Treated(d) == d = [g \in Fields |-> d[g]]
Kept(d, e, F) == \A g \in Fields \ F : e[g] = d[g]
Asks(d) == d.needs = (d.reasons # {})
Questions == {"category", "suggestion", "flow", "identity", "source", "owner"}

LEMMA SameTreatment ==
    ASSUME NEW d, NEW e, Treated(d), Treated(e), \A g \in Fields : e[g] = d[g]
    PROVE  e = d
  BY DEF Treated

LEMMA TabulatedIs == ASSUME NEW f PROVE Tabulated(f) = f
  BY DEF Tabulated

LEMMA AskingIs ==
    ASSUME NEW d, Treated(d), NEW R
    PROVE  /\ Treated(Asking(d, R)) /\ Kept(d, Asking(d, R), {"reasons", "needs"})
           /\ Asking(d, R).reasons = R /\ Asks(Asking(d, R))
<1> DEFINE e == Asking(d, R)
<1>1. Treated(e)
  BY DEF Treated, Asking, Fields
<1>2. Kept(d, e, {"reasons", "needs"})
  BY DEF Treated, Asking, Kept, Fields
<1>3. e.reasons = R
  BY DEF Treated, Asking, Fields
<1>4. Asks(e)
  BY DEF Treated, Asking, Fields, Asks
<1> QED BY <1>1, <1>2, <1>3, <1>4

LEMMA SetReasonIs ==
    ASSUME NEW d, Treated(d), NEW r, NEW active
    PROVE  LET e == SetReason(d, r, active) IN
           /\ Treated(e) /\ Kept(d, e, {"reasons", "needs"}) /\ Asks(e)
           /\ e.reasons = IF active THEN d.reasons \cup {r} ELSE d.reasons \ {r}
  BY AskingIs DEF SetReason

LEMMA SetReasonsIs ==
    ASSUME NEW d, Treated(d), NEW asked, NEW settled
    PROVE  LET e == SetReasons(d, asked, settled) IN
           /\ Treated(e) /\ Kept(d, e, {"reasons", "needs"}) /\ Asks(e)
           /\ e.reasons = (d.reasons \ settled) \cup asked
  BY AskingIs DEF SetReasons

Pending(d) == d.needs \/ d.reasons # {}
LEMMA SynchronizedIs ==
    ASSUME NEW d, Treated(d)
    PROVE  LET e == Synchronized(d) IN
           /\ Treated(e) /\ Kept(d, e, {"reasons", "needs"}) /\ Asks(e)
           /\ e.reasons \subseteq Questions
           /\ "category" \in e.reasons <=> Pending(d) /\ d.cat = "Unknown"
           /\ "suggestion" \in e.reasons <=>
                 /\ "suggestion" \in d.reasons
                 /\ "manual_correction" \notin d.flags /\ d.cat # "Unknown"
           /\ "flow" \in e.reasons <=> Pending(d) /\ d.flow = "unresolved"
           /\ "identity" \in e.reasons <=> "overlap_count_ambiguous" \in d.flags
           /\ "source" \in e.reasons <=> "source_data" \in d.flags
           /\ "owner" \in e.reasons <=> "owner" \in d.reasons /\ d.owner = "Unknown"
<1> DEFINE evidence == d.needs \/ d.reasons # {}
           keep(reason) ==
            CASE reason = "category" -> evidence /\ d.cat = "Unknown"
              [] reason = "suggestion" ->
                    /\ reason \in d.reasons /\ evidence
                    /\ "manual_correction" \notin d.flags /\ d.cat # "Unknown"
              [] reason = "flow" -> evidence /\ d.flow = "unresolved"
              [] reason = "identity" -> d.flags \cap IdentityFlags # {}
              [] reason = "source" -> d.flags \cap SourceFlags # {}
              [] reason = "owner" -> reason \in d.reasons /\ evidence /\ d.owner = "Unknown"
           R == {reason \in Questions : keep(reason)}
<1>1. Synchronized(d) = Asking(d, R)
  BY DEF Synchronized, Questions
<1>2. "category" \in R <=> Pending(d) /\ d.cat = "Unknown"
  BY DEF Questions, Pending
<1>3. "suggestion" \in R <=>
         "suggestion" \in d.reasons /\ "manual_correction" \notin d.flags /\ d.cat # "Unknown"
  BY DEF Questions
<1>4. "flow" \in R <=> Pending(d) /\ d.flow = "unresolved"
  BY DEF Questions, Pending
<1>5. "identity" \in R <=> "overlap_count_ambiguous" \in d.flags
  BY DEF Questions, IdentityFlags
<1>6. "source" \in R <=> "source_data" \in d.flags
  BY DEF Questions, SourceFlags
<1>7. "owner" \in R <=> "owner" \in d.reasons /\ d.owner = "Unknown"
  BY DEF Questions
<1>8. R \subseteq Questions
  OBVIOUS
<1> HIDE DEF R
<1> QED BY <1>1, <1>2, <1>3, <1>4, <1>5, <1>6, <1>7, <1>8, AskingIs

LEMMA WithFlowIs ==
    ASSUME NEW x, NEW d, Treated(d)
    PROVE  LET e == WithFlow(x, d) IN
           /\ Treated(e) /\ Kept(d, e, {"flow", "src"})
           /\ d.src \in {"rule", "correction", "structural"} => e = d
           /\ d.src \notin {"rule", "correction", "structural"} =>
                 e.flow = FlowFor(x, d) /\ e.src = "deterministic"
  BY DEF WithFlow, Treated, Fields, Kept

LEMMA PairedIs ==
    ASSUME NEW d, Treated(d), NEW p, NEW g
    PROVE  LET e == Paired(d, p, g) IN
           /\ Treated(e) /\ Kept(d, e, {"partner", "group", "status"})
           /\ e.partner = p /\ e.group = g /\ e.status = "paired"
  BY DEF Paired, Treated, Fields, Kept

LEMMA SettledIs ==
    ASSUME NEW d, Treated(d)
    PROVE  LET e == Settled(d) IN
           /\ Treated(e) /\ Kept(d, e, {"reasons", "needs"}) /\ Asks(e)
           /\ e.reasons = d.reasons \ {"category", "suggestion", "flow"}
  BY SetReasonsIs DEF Settled

LEMMA PairedManuallyIs ==
    ASSUME NEW d, Treated(d), NEW p
    PROVE  LET e == PairedManually(d, p) IN
           /\ Treated(e)
           /\ Kept(d, e, {"cat", "flow", "src", "flags", "reasons", "needs", "partner", "group", "status"})
           /\ e.cat = "Internal Transfer" /\ e.flow = "internal_transfer" /\ e.src = "correction"
           /\ e.flags = d.flags \ {"pair_invalid"}
           /\ e.partner = p /\ e.group = "manual" /\ e.status = "paired"
           /\ e.reasons = d.reasons \ {"category", "suggestion", "flow"} /\ Asks(e)
<1> DEFINE s == Settled(d)
           t == [s EXCEPT !.cat = "Internal Transfer", !.flow = "internal_transfer",
                          !.src = "correction", !.flags = @ \ {"pair_invalid"}]
<1>1. /\ Treated(s) /\ Kept(d, s, {"reasons", "needs"})
      /\ s.reasons = d.reasons \ {"category", "suggestion", "flow"} /\ Asks(s)
  BY SettledIs
<1>2. /\ Treated(t) /\ Kept(s, t, {"cat", "flow", "src", "flags"})
      /\ t.cat = "Internal Transfer" /\ t.flow = "internal_transfer" /\ t.src = "correction"
      /\ t.flags = s.flags \ {"pair_invalid"}
  <2> HIDE DEF s
  <2> QED BY <1>1 DEF Treated, Fields, Kept
<1>3. PairedManually(d, p) = Paired(t, p, "manual")
  BY DEF PairedManually
<1>4. LET e == PairedManually(d, p) IN
      /\ Treated(e) /\ Kept(t, e, {"partner", "group", "status"})
      /\ e.partner = p /\ e.group = "manual" /\ e.status = "paired"
  BY <1>2, <1>3, PairedIs
<1> HIDE DEF s, t
<1>5. Asks(PairedManually(d, p))
  <2> DEFINE e == PairedManually(d, p)
  <2>1. e.reasons = s.reasons /\ e.needs = s.needs
    BY <1>2, <1>4 DEF Kept, Fields
  <2>2. Asks(e)
    BY <1>1, <2>1, Zenon DEF Asks
  <2> QED BY <2>2
<1> QED BY <1>1, <1>2, <1>4, <1>5 DEF Kept, Fields

LEMMA InvalidPairIs ==
    ASSUME NEW d, Treated(d)
    PROVE  LET e == InvalidPair(d) IN
           /\ Treated(e) /\ Kept(d, e, {"flow", "src", "status", "flags", "reasons", "needs"})
           /\ e.flow = "unresolved" /\ e.src = "reconciliation" /\ e.status = "unmatched"
           /\ e.flags = d.flags \cup {"pair_invalid"}
           /\ e.reasons = d.reasons \cup {"flow"} /\ Asks(e)
<1> DEFINE t == [d EXCEPT !.flow = "unresolved", !.src = "reconciliation",
                          !.status = "unmatched", !.flags = @ \cup {"pair_invalid"}]
<1>1. /\ Treated(t) /\ Kept(d, t, {"flow", "src", "status", "flags"})
      /\ t.flow = "unresolved" /\ t.src = "reconciliation" /\ t.status = "unmatched"
      /\ t.flags = d.flags \cup {"pair_invalid"}
  BY DEF Treated, Fields, Kept
<1>2. InvalidPair(d) = SetReason(t, "flow", TRUE)
  BY DEF InvalidPair
<1> HIDE DEF t
<1>3. LET e == InvalidPair(d) IN
      Treated(e) /\ Kept(t, e, {"reasons", "needs"}) /\ Asks(e) /\ e.reasons = t.reasons \cup {"flow"}
  <2>1. InvalidPair(d) = Asking(t, t.reasons \cup {"flow"})
    BY <1>2 DEF SetReason
  <2> QED BY <1>1, <2>1, AskingIs
<1> QED BY <1>1, <1>3 DEF Kept, Fields

LEMMA PairedAcrossCurrenciesIs ==
    ASSUME NEW d, Treated(d), NEW p, NEW value
    PROVE  LET e == PairedAcrossCurrencies(d, p, value) IN
           /\ Treated(e)
           /\ Kept(d, e, {"cat", "flow", "src", "value", "reasons", "needs", "partner", "group", "status"})
           /\ e.cat = "Internal Transfer" /\ e.flow = "internal_transfer" /\ e.src = "reconciliation"
           /\ e.value = value /\ e.partner = p /\ e.group = "exchange" /\ e.status = "paired"
           /\ e.reasons = d.reasons \ {"category", "suggestion", "flow"} /\ Asks(e)
<1> DEFINE s == Settled(d)
           t == [s EXCEPT !.cat = "Internal Transfer", !.flow = "internal_transfer",
                          !.src = "reconciliation", !.value = value]
<1>1. /\ Treated(s) /\ Kept(d, s, {"reasons", "needs"})
      /\ s.reasons = d.reasons \ {"category", "suggestion", "flow"} /\ Asks(s)
  BY SettledIs
<1>2. /\ Treated(t) /\ Kept(s, t, {"cat", "flow", "src", "value"})
      /\ t.cat = "Internal Transfer" /\ t.flow = "internal_transfer" /\ t.src = "reconciliation"
      /\ t.value = value
  <2> HIDE DEF s
  <2> QED BY <1>1 DEF Treated, Fields, Kept
<1>3. PairedAcrossCurrencies(d, p, value) = Paired(t, p, "exchange")
  BY DEF PairedAcrossCurrencies
<1>4. LET e == PairedAcrossCurrencies(d, p, value) IN
      /\ Treated(e) /\ Kept(t, e, {"partner", "group", "status"})
      /\ e.partner = p /\ e.group = "exchange" /\ e.status = "paired"
  BY <1>2, <1>3, PairedIs
<1> HIDE DEF s, t
<1>5. Asks(PairedAcrossCurrencies(d, p, value))
  <2> DEFINE e == PairedAcrossCurrencies(d, p, value)
  <2>1. e.reasons = s.reasons /\ e.needs = s.needs
    BY <1>2, <1>4 DEF Kept, Fields
  <2>2. Asks(e)
    BY <1>1, <2>1, Zenon DEF Asks
  <2> QED BY <2>2
<1> QED BY <1>1, <1>2, <1>4, <1>5 DEF Kept, Fields

LEMMA PairedAsTransferIs ==
    ASSUME NEW x, NEW y, NEW d, Treated(d)
    PROVE  LET e == PairedAsTransfer(x, y, d) IN
           /\ Treated(e) /\ Kept(d, e, {"flow", "src", "partner", "group", "status"})
           /\ Explicit(d) => e.flow = d.flow /\ e.src = d.src
           /\ ~Explicit(d) => e.flow = (CHOOSE flow \in Between(x, y) : TRUE) /\ e.src = "reconciliation"
           /\ e.partner = y /\ e.group = "transfer" /\ e.status = "paired"
<1> DEFINE flow == CHOOSE flow \in Between(x, y) : TRUE
           t == [d EXCEPT !.flow = flow, !.src = "reconciliation"]
<1> HIDE DEF flow
<1>1. Treated(t) /\ Kept(d, t, {"flow", "src"}) /\ t.flow = flow /\ t.src = "reconciliation"
  BY DEF Treated, Fields, Kept
<1>2. PairedAsTransfer(x, y, d) = Paired(IF Explicit(d) THEN d ELSE t, y, "transfer")
  BY DEF PairedAsTransfer, flow
<1> HIDE DEF t
<1>3. CASE Explicit(d)
  BY <1>2, <1>3, PairedIs DEF Kept, Fields
<1>4. CASE ~Explicit(d)
  <2>1. LET e == PairedAsTransfer(x, y, d) IN
        /\ Treated(e) /\ Kept(t, e, {"partner", "group", "status"})
        /\ e.partner = y /\ e.group = "transfer" /\ e.status = "paired"
    BY <1>1, <1>2, <1>4, PairedIs
  <2> QED BY <1>1, <1>4, <2>1 DEF Kept, Fields, flow
<1> QED BY <1>3, <1>4

LEMMA AmbiguousRowIs ==
    ASSUME NEW d, Treated(d)
    PROVE  LET e == AmbiguousRow(d) IN
           /\ Treated(e) /\ Kept(d, e, {"flow", "src", "status", "reasons", "needs"})
           /\ Explicit(d) => e.flow = d.flow /\ e.src = d.src
           /\ ~Explicit(d) => e.flow = "unresolved" /\ e.src = "reconciliation"
           /\ e.status = "ambiguous" /\ e.reasons = d.reasons \cup {"flow"} /\ Asks(e)
<1> DEFINE s == SetReason(d, "flow", TRUE)
           t == [s EXCEPT !.status = "ambiguous"]
           u == [t EXCEPT !.flow = "unresolved", !.src = "reconciliation"]
<1>1. /\ Treated(s) /\ Kept(d, s, {"reasons", "needs"}) /\ Asks(s)
      /\ s.reasons = d.reasons \cup {"flow"}
  BY SetReasonIs
<1> HIDE DEF s
<1>2. Treated(t) /\ Kept(s, t, {"status"}) /\ t.status = "ambiguous"
  BY <1>1 DEF Treated, Fields, Kept
<1> HIDE DEF t
<1>3. Treated(u) /\ Kept(t, u, {"flow", "src"}) /\ u.flow = "unresolved" /\ u.src = "reconciliation"
  BY <1>2 DEF Treated, Fields, Kept
<1> HIDE DEF u
<1>4. AmbiguousRow(d) = IF Explicit(d) THEN t ELSE u
  BY DEF AmbiguousRow, s, t, u
<1>5. Asks(t) /\ Asks(u)
  BY <1>1, <1>2, <1>3 DEF Asks, Kept, Fields
<1> QED BY <1>1, <1>2, <1>3, <1>4, <1>5 DEF Kept, Fields

LEMMA UnmatchedIs ==
    ASSUME NEW d, Treated(d)
    PROVE  LET e == Unmatched(d) IN
           /\ Treated(e) /\ Kept(d, e, {"status"})
           /\ e.status \in {d.status, "unmatched"} /\ (d.status = "paired" => e.status = "paired")
  BY DEF Unmatched, Treated, Fields, Kept

-----------------------------------------------------------------------------
(* A row before reconciliation.                                             *)
Bare(x, d) ==
    /\ Treated(d) /\ Asks(d)
    /\ d.partner = None /\ d.group = None /\ d.status = "not_applicable" /\ d.value = Value(x)
    /\ d.reasons \subseteq Questions
    /\ d.src = "deterministic" => d.flow = "unresolved"
    /\ "overlap_count_ambiguous" \in d.flags <=> Fact[x].amb

\* What is known of a row before its saved correction.
Known(x, d) ==
    /\ Bare(x, d)
    /\ d.pair = None /\ d.owner = Fact[x].owner
    /\ "flow" \in d.reasons
    /\ d.src \in {"deterministic", "rule", "structural"}
    /\ "structural" \in d.flags <=> d.src = "structural"
    /\ d.src = "rule" => "matched_rule" \in d.flags

LEMMA RestoredIs ==
    ASSUME NEW x
    PROVE  LET d == Restored(x) IN
           /\ Treated(d) /\ Asks(d) /\ d.reasons = {"category", "flow"} /\ d.flags = {}
           /\ d.src = "deterministic" /\ d.flow = "unresolved" /\ d.cat = "Unknown"
           /\ d.pair = None /\ d.owner = Fact[x].owner /\ d.partner = None /\ d.group = None
           /\ d.status = "not_applicable" /\ d.value = Value(x)
  BY DEF Restored, Treated, Fields, Asks

LEMMA OverlapReviewIs ==
    ASSUME NEW x, NEW d, Treated(d), Asks(d)
    PROVE  LET e == OverlapReview(x, d) IN
           /\ Treated(e) /\ Asks(e) /\ Kept(d, e, {"flags", "reasons", "needs"})
           /\ e.reasons = d.reasons \cup (IF Fact[x].amb THEN {"identity"} ELSE {})
           /\ e.flags = d.flags \cup (IF Fact[x].amb THEN {"overlap_count_ambiguous"} ELSE {})
<1> DEFINE t == [d EXCEPT !.flags = @ \cup {"overlap_count_ambiguous"}]
<1>1. Treated(t) /\ Kept(d, t, {"flags"}) /\ t.flags = d.flags \cup {"overlap_count_ambiguous"}
  BY DEF Treated, Fields, Kept
<1> HIDE DEF t
<1>2. CASE Fact[x].amb
  <2>1. OverlapReview(x, d) = Asking(t, t.reasons \cup {"identity"})
    BY <1>2 DEF OverlapReview, SetReason, t
  <2>2. LET e == OverlapReview(x, d) IN
        /\ Treated(e) /\ Asks(e) /\ Kept(t, e, {"reasons", "needs"})
        /\ e.reasons = t.reasons \cup {"identity"}
    BY <1>1, <2>1, AskingIs
  <2> QED BY <1>1, <1>2, <2>2 DEF Kept, Fields
<1>3. CASE ~Fact[x].amb
  <2>1. OverlapReview(x, d) = d
    BY <1>3 DEF OverlapReview
  <2> QED BY <1>3, <2>1 DEF Kept
<1> QED BY <1>2, <1>3

LEMMA RuledIs ==
    ASSUME NEW rules, NEW x, NEW d, Known(x, d), d.src = "deterministic"
    PROVE  Known(x, Ruled(rules, x, d))
<1>1. CASE FirstMatch(rules, x) = {}
  BY <1>1 DEF Ruled, Known
<1>2. CASE FirstMatch(rules, x) # {}
  <2> DEFINE rule == CHOOSE rule \in FirstMatch(rules, x) : TRUE
             flowed == IF rule.flow = None THEN d ELSE [d EXCEPT !.flow = rule.flow, !.src = "rule"]
             t == [flowed EXCEPT !.cat = rule.cat, !.flags = @ \cup {"matched_rule"}]
             e == Ruled(rules, x, d)
  <2>1. Ruled(rules, x, d) = SetReasons(t, {}, {"category", "suggestion"})
    BY <1>2 DEF Ruled, RuledBy
  <2> HIDE DEF rule
  <2>2. /\ Treated(flowed) /\ Kept(d, flowed, {"flow", "src"})
        /\ \/ flowed.flow = d.flow /\ flowed.src = d.src
           \/ flowed.src = "rule"
    BY DEF Treated, Fields, Kept, Known, Bare
  <2> HIDE DEF flowed
  <2>3. /\ Treated(t) /\ Kept(flowed, t, {"cat", "flags"})
        /\ t.flags = flowed.flags \cup {"matched_rule"}
    BY <2>2 DEF Treated, Fields, Kept
  <2> HIDE DEF t
  <2>4. /\ Treated(e) /\ Kept(t, e, {"reasons", "needs"}) /\ Asks(e)
        /\ e.reasons = (t.reasons \ {"category", "suggestion"}) \cup {}
    BY <2>1, <2>3, SetReasonsIs
  <2> HIDE DEF e
  <2>5. /\ e.reasons = d.reasons \ {"category", "suggestion"}
        /\ e.flags = d.flags \cup {"matched_rule"}
        /\ e.pair = d.pair /\ e.owner = d.owner /\ e.partner = d.partner /\ e.group = d.group
        /\ e.status = d.status /\ e.value = d.value
        /\ (e.flow = d.flow /\ e.src = d.src) \/ e.src = "rule"
    BY <2>2, <2>3, <2>4 DEF Kept, Fields
  <2>6. Bare(x, e)
    BY <2>4, <2>5 DEF Known, Bare
  <2>7. Known(x, e)
    BY <2>5, <2>6 DEF Known
  <2> QED BY <2>7 DEF e
<1> QED BY <1>1, <1>2

LEMMA FromMemoryIs ==
    ASSUME NEW stock, NEW m, NEW x, NEW d, Known(x, d)
    PROVE  Known(x, FromMemory(stock, m, x, d))
<1>1. CASE d.cat # "Unknown" \/ Remembered(stock, m, x) = {}
  BY <1>1 DEF FromMemory
<1>2. CASE ~(d.cat # "Unknown" \/ Remembered(stock, m, x) = {})
  <2> DEFINE cat == CHOOSE c \in Remembered(stock, m, x) : TRUE
             t == [d EXCEPT !.cat = cat, !.flags = @ \cup {"memory"}]
             e == FromMemory(stock, m, x, d)
  <2>1. e = SetReasons(t, {}, {"category", "suggestion"})
    BY <1>2 DEF FromMemory
  <2> HIDE DEF cat
  <2>2. Treated(t) /\ Kept(d, t, {"cat", "flags"}) /\ t.flags = d.flags \cup {"memory"}
    BY DEF Treated, Fields, Kept, Known, Bare
  <2> HIDE DEF t, e
  <2>3. /\ Treated(e) /\ Kept(t, e, {"reasons", "needs"}) /\ Asks(e)
        /\ e.reasons = (t.reasons \ {"category", "suggestion"}) \cup {}
    BY <2>1, <2>2, SetReasonsIs
  <2>4. /\ e.reasons = d.reasons \ {"category", "suggestion"}
        /\ e.flags = d.flags \cup {"memory"}
        /\ e.pair = d.pair /\ e.owner = d.owner /\ e.partner = d.partner /\ e.group = d.group
        /\ e.status = d.status /\ e.value = d.value /\ e.flow = d.flow /\ e.src = d.src
    BY <2>2, <2>3 DEF Kept, Fields
  <2>5. Bare(x, e)
    BY <2>3, <2>4 DEF Known, Bare
  <2>6. Known(x, e)
    BY <2>4, <2>5 DEF Known
  <2> QED BY <2>6 DEF e
<1> QED BY <1>1, <1>2

LEMMA StructuralIs ==
    ASSUME NEW x, NEW d, Known(x, d)
    PROVE  Known(x, Structural(x, d))
<1> DEFINE left == \/ d.cat # "Unknown" \/ ~d.needs
                   \/ "matched_rule" \in d.flags \/ StructuralMark(x) = {}
<1>1. CASE left
  BY <1>1 DEF Structural
<1>2. CASE ~left
  <2> DEFINE mark == CHOOSE mark \in StructuralMark(x) : TRUE
             t == [d EXCEPT !.cat = mark[1], !.flow = mark[2], !.src = "structural",
                            !.flags = @ \cup {"structural"}]
             asked == (IF mark[1] = "Other" THEN {"suggestion"} ELSE {})
                          \cup (IF d.owner = "Unknown" THEN {"owner"} ELSE {})
             e == Structural(x, d)
  <2>1. e = SetReasons(t, asked, {"category", "suggestion", "owner"})
    BY <1>2 DEF Structural, MarkedAs
  <2>2. asked \subseteq {"suggestion", "owner"}
    OBVIOUS
  <2> HIDE DEF mark, asked
  <2>3. /\ Treated(t) /\ Kept(d, t, {"cat", "flow", "src", "flags"})
        /\ t.flags = d.flags \cup {"structural"} /\ t.src = "structural"
    BY DEF Treated, Fields, Kept, Known, Bare
  <2> HIDE DEF t, e
  <2>4. /\ Treated(e) /\ Kept(t, e, {"reasons", "needs"}) /\ Asks(e)
        /\ e.reasons = (t.reasons \ {"category", "suggestion", "owner"}) \cup asked
    BY <2>1, <2>3, SetReasonsIs
  <2>5. /\ e.reasons = (d.reasons \ {"category", "suggestion", "owner"}) \cup asked
        /\ e.flags = d.flags \cup {"structural"}
        /\ e.pair = d.pair /\ e.owner = d.owner /\ e.partner = d.partner /\ e.group = d.group
        /\ e.status = d.status /\ e.value = d.value /\ e.src = "structural"
    BY <2>3, <2>4 DEF Kept, Fields
  <2>6. Bare(x, e)
    BY <2>2, <2>4, <2>5 DEF Known, Bare, Questions
  <2>7. Known(x, e)
    BY <2>5, <2>6 DEF Known
  <2> QED BY <2>7 DEF e
<1> QED BY <1>1, <1>2

\* What rules, memory and marks give, before the saved correction.
BeforeCorrection(stock, rules, m, x) ==
    Structural(x, FromMemory(stock, m, x, Ruled(rules, x, OverlapReview(x, Restored(x)))))

LEMMA BeforeCorrectionIs ==
    ASSUME NEW stock, NEW rules, NEW m, NEW x
    PROVE  Known(x, BeforeCorrection(stock, rules, m, x))
<1> DEFINE d == OverlapReview(x, Restored(x))
<1>1. Known(x, d) /\ d.src = "deterministic"
  <2> DEFINE r == Restored(x)
  <2>1. /\ Treated(r) /\ Asks(r) /\ r.reasons = {"category", "flow"} /\ r.flags = {}
        /\ r.src = "deterministic" /\ r.flow = "unresolved"
        /\ r.pair = None /\ r.owner = Fact[x].owner /\ r.partner = None /\ r.group = None
        /\ r.status = "not_applicable" /\ r.value = Value(x)
    BY RestoredIs
  <2> HIDE DEF r
  <2>2. /\ Treated(d) /\ Asks(d) /\ Kept(r, d, {"flags", "reasons", "needs"})
        /\ d.reasons = r.reasons \cup (IF Fact[x].amb THEN {"identity"} ELSE {})
        /\ d.flags = r.flags \cup (IF Fact[x].amb THEN {"overlap_count_ambiguous"} ELSE {})
    BY <2>1, OverlapReviewIs DEF r
  <2> HIDE DEF d
  <2>3. /\ d.src = "deterministic" /\ d.flow = "unresolved" /\ d.pair = None
        /\ d.owner = Fact[x].owner /\ d.partner = None /\ d.group = None
        /\ d.status = "not_applicable" /\ d.value = Value(x)
    BY <2>1, <2>2 DEF Kept, Fields
  <2>4. "flow" \in d.reasons /\ d.reasons \subseteq Questions /\ "structural" \notin d.flags
    BY <2>1, <2>2 DEF Questions
  <2>5. "overlap_count_ambiguous" \in d.flags <=> Fact[x].amb
    BY <2>1, <2>2
  <2>6. Known(x, d)
    BY <2>2, <2>3, <2>4, <2>5 DEF Known, Bare
  <2> QED BY <2>3, <2>6 DEF d
<1> QED BY <1>1, RuledIs, FromMemoryIs, StructuralIs DEF BeforeCorrection
\* What a saved correction says of a row.
Saves(m, x, field) == x \in DOMAIN m /\ field \in DOMAIN m[x]
Says(m, x, field, default) == IF Saves(m, x, field) THEN m[x][field] ELSE default

LEMMA WithFieldsIs ==
    ASSUME NEW c, NEW d, Treated(d)
    PROVE  LET e == WithFields(c, d) IN
           /\ Treated(e)
           /\ Kept(d, e, {"cat", "flow", "src", "owner", "pair", "needs", "reasons", "flags"})
           /\ e.cat = Field(c, "cat", d.cat) /\ e.flow = Field(c, "flow", d.flow)
           /\ e.src = IF "flow" \in DOMAIN c THEN "correction" ELSE d.src
           /\ e.owner = Field(c, "owner", d.owner) /\ e.pair = Field(c, "pair", d.pair)
           /\ e.reasons = Field(c, "reasons", d.reasons)
           /\ e.flags = d.flags \cup {"manual_correction"}
  BY DEF WithFields, Treated, Fields, Kept

\* Whether a correction leaves something to ask.
Leaves(c) == "reasons" \in DOMAIN c => c["reasons"] # {}

LEMMA WithReasonsIs ==
    ASSUME NEW c, NEW d, Treated(d), d.reasons = Field(c, "reasons", d.reasons),
           "reasons" \notin DOMAIN c => "flow" \in d.reasons
    PROVE  LET e == WithReasons(c, d) IN
           /\ Treated(e) /\ Kept(d, e, {"reasons", "needs"})
           /\ Pending(e) <=> Leaves(c)
           /\ "owner" \in e.reasons <=> "owner" \in d.reasons
<1> DEFINE e == WithReasons(c, d)
<1>1. CASE "reasons" \in DOMAIN c
  <2>1. e = Asking(d, c["reasons"])
    BY <1>1 DEF WithReasons
  <2>2. d.reasons = c["reasons"]
    BY <1>1 DEF Field
  <2>3. Treated(e) /\ Kept(d, e, {"reasons", "needs"}) /\ e.reasons = c["reasons"] /\ Asks(e)
    BY <2>1, AskingIs
  <2> HIDE DEF e
  <2>4. Pending(e) <=> c["reasons"] # {}
    BY <2>3, Zenon DEF Pending, Asks
  <2>5. Leaves(c) <=> c["reasons"] # {}
    BY <1>1 DEF Leaves
  <2> QED BY <2>2, <2>3, <2>4, <2>5 DEF e
<1>2. CASE "reasons" \notin DOMAIN c
  <2>1. Leaves(c) /\ "flow" \in d.reasons
    BY <1>2 DEF Leaves
  <2>2. CASE Field(c, "cat", "Unknown") # "Unknown"
    <3>1. e = SetReasons(d, {}, {"category", "suggestion"})
      BY <1>2, <2>2 DEF WithReasons
    <3>2. /\ Treated(e) /\ Kept(d, e, {"reasons", "needs"})
          /\ e.reasons = (d.reasons \ {"category", "suggestion"}) \cup {}
      BY <3>1, SetReasonsIs
    <3> HIDE DEF e
    <3>3. "flow" \in e.reasons /\ ("owner" \in e.reasons <=> "owner" \in d.reasons)
      BY <2>1, <3>2
    <3>4. Pending(e)
      BY <3>3 DEF Pending
    <3> QED BY <2>1, <3>2, <3>3, <3>4 DEF e
  <2>3. CASE ~(Field(c, "cat", "Unknown") # "Unknown")
    <3>1. e = d
      BY <1>2, <2>3 DEF WithReasons
    <3>2. Pending(d)
      BY <2>1 DEF Pending
    <3> QED BY <2>1, <3>1, <3>2 DEF Kept
  <2> QED BY <2>2, <2>3
<1> QED BY <1>1, <1>2

LEMMA CorrectedIs ==
    ASSUME NEW x, NEW d, Known(x, d), NEW c
    PROVE  LET e == Corrected(c, d) IN
           /\ Bare(x, e)
           /\ e.cat = Field(c, "cat", d.cat) /\ e.flow = Field(c, "flow", d.flow)
           /\ e.src = IF "flow" \in DOMAIN c THEN "correction" ELSE d.src
           /\ e.owner = Field(c, "owner", d.owner) /\ e.pair = Field(c, "pair", d.pair)
           /\ e.flags = d.flags \cup {"manual_correction"}
           /\ "category" \in e.reasons <=> Leaves(c) /\ e.cat = "Unknown"
           /\ "suggestion" \notin e.reasons
           /\ "flow" \in e.reasons <=> Leaves(c) /\ e.flow = "unresolved"
           /\ "identity" \in e.reasons <=> "overlap_count_ambiguous" \in e.flags
           /\ "source" \in e.reasons <=> "source_data" \in e.flags
           /\ "owner" \in e.reasons <=> "owner" \in Field(c, "reasons", d.reasons) /\ e.owner = "Unknown"
<1> DEFINE f == WithFields(c, d)
           r == WithReasons(c, f)
           e == Corrected(c, d)
<1>1. e = Synchronized(r)
  BY DEF Corrected
<1>2. Treated(d) /\ "flow" \in d.reasons
  BY DEF Known, Bare
<1>3. /\ Treated(f)
      /\ Kept(d, f, {"cat", "flow", "src", "owner", "pair", "needs", "reasons", "flags"})
      /\ f.cat = Field(c, "cat", d.cat) /\ f.flow = Field(c, "flow", d.flow)
      /\ f.src = IF "flow" \in DOMAIN c THEN "correction" ELSE d.src
      /\ f.owner = Field(c, "owner", d.owner) /\ f.pair = Field(c, "pair", d.pair)
      /\ f.reasons = Field(c, "reasons", d.reasons)
      /\ f.flags = d.flags \cup {"manual_correction"}
  BY <1>2, WithFieldsIs
<1> HIDE DEF f
<1>4. f.reasons = Field(c, "reasons", f.reasons) /\ ("reasons" \notin DOMAIN c => "flow" \in f.reasons)
  BY <1>2, <1>3 DEF Field
<1>5. /\ Treated(r) /\ Kept(f, r, {"reasons", "needs"})
      /\ Pending(r) <=> Leaves(c)
      /\ "owner" \in r.reasons <=> "owner" \in f.reasons
  BY <1>3, <1>4, WithReasonsIs
<1> HIDE DEF r
<1>6. /\ Treated(e) /\ Kept(r, e, {"reasons", "needs"}) /\ Asks(e)
      /\ e.reasons \subseteq Questions
      /\ "category" \in e.reasons <=> Pending(r) /\ r.cat = "Unknown"
      /\ "suggestion" \in e.reasons <=>
            "suggestion" \in r.reasons /\ "manual_correction" \notin r.flags /\ r.cat # "Unknown"
      /\ "flow" \in e.reasons <=> Pending(r) /\ r.flow = "unresolved"
      /\ "identity" \in e.reasons <=> "overlap_count_ambiguous" \in r.flags
      /\ "source" \in e.reasons <=> "source_data" \in r.flags
      /\ "owner" \in e.reasons <=> "owner" \in r.reasons /\ r.owner = "Unknown"
  BY <1>1, <1>5, SynchronizedIs
<1> HIDE DEF e
<1>7. /\ e.cat = f.cat /\ e.flow = f.flow /\ e.src = f.src /\ e.owner = f.owner /\ e.pair = f.pair
      /\ e.flags = f.flags /\ e.partner = d.partner /\ e.group = d.group /\ e.status = d.status
      /\ e.value = d.value
      /\ r.cat = e.cat /\ r.flow = e.flow /\ r.flags = e.flags /\ r.owner = e.owner
  BY <1>3, <1>5, <1>6 DEF Kept, Fields
<1>8. e.src = "deterministic" => e.flow = "unresolved"
  BY <1>3, <1>7 DEF Field, Known, Bare
<1>9. "overlap_count_ambiguous" \in e.flags <=> Fact[x].amb
  BY <1>3, <1>7 DEF Known, Bare
<1>10. Bare(x, e)
  BY <1>6, <1>7, <1>8, <1>9 DEF Known, Bare
<1>11. "suggestion" \notin e.reasons
  BY <1>3, <1>6, <1>7
<1> QED BY <1>3, <1>5, <1>6, <1>7, <1>10, <1>11 DEF e

LEMMA SourceReviewIs ==
    ASSUME NEW marked, NEW x, NEW d, Treated(d)
    PROVE  LET e == SourceReview(marked, x, d)
               evidence == x \in marked \/ "overlap_count_ambiguous" \in d.flags
           IN  /\ Treated(e) /\ Asks(e) /\ Kept(d, e, {"flags", "reasons", "needs"})
               /\ e.flags = (d.flags \ {"source_data"}) \cup (IF evidence THEN {"source_data"} ELSE {})
               /\ e.reasons = (d.reasons \ {"source"}) \cup (IF evidence THEN {"source"} ELSE {})
<1> DEFINE evidence == x \in marked \/ "overlap_count_ambiguous" \in d.flags
           t == [d EXCEPT !.flags = (@ \ SourceFlags) \cup (IF evidence THEN SourceFlags ELSE {})]
           e == SourceReview(marked, x, d)
<1>1. e = Asking(t, IF evidence THEN t.reasons \cup {"source"} ELSE t.reasons \ {"source"})
  BY DEF SourceReview, SetReason
<1> HIDE DEF evidence
<1>2. /\ Treated(t) /\ Kept(d, t, {"flags"})
      /\ t.flags = (d.flags \ {"source_data"}) \cup (IF evidence THEN {"source_data"} ELSE {})
  BY DEF Treated, Fields, Kept, SourceFlags
<1> HIDE DEF t, e
<1>3. /\ Treated(e) /\ Asks(e) /\ Kept(t, e, {"reasons", "needs"})
      /\ e.reasons = IF evidence THEN t.reasons \cup {"source"} ELSE t.reasons \ {"source"}
  BY <1>1, <1>2, AskingIs
<1>4. Kept(d, e, {"flags", "reasons", "needs"}) /\ e.flags = t.flags /\ t.reasons = d.reasons
  BY <1>2, <1>3 DEF Kept, Fields
<1>5. e.reasons = (d.reasons \ {"source"}) \cup (IF evidence THEN {"source"} ELSE {})
  BY <1>3, <1>4
<1> QED BY <1>2, <1>3, <1>4, <1>5 DEF e, evidence

\* The rest of the derivation of one row, after its saved correction.
Reviewed(marked, x, d) ==
    Synchronized(OverlapReview(x, SourceReview(marked, x, OverlapReview(x, d))))

LEMMA ReviewedIs ==
    ASSUME NEW marked, NEW x, NEW d, Bare(x, d)
    PROVE  LET e == Reviewed(marked, x, d)
               asked == d.reasons \ {"source"} # {} \/ Fact[x].amb \/ x \in marked
           IN  /\ Bare(x, e) /\ Kept(d, e, {"flags", "reasons", "needs"})
               /\ e.flags \ {"source_data"} = d.flags \ {"source_data"}
               /\ "category" \in e.reasons <=> asked /\ d.cat = "Unknown"
               /\ "suggestion" \in e.reasons <=>
                     /\ "suggestion" \in d.reasons
                     /\ "manual_correction" \notin d.flags /\ d.cat # "Unknown"
               /\ "flow" \in e.reasons <=> asked /\ d.flow = "unresolved"
               /\ "identity" \in e.reasons <=> Fact[x].amb
               /\ "source" \in e.reasons <=> Fact[x].amb \/ x \in marked
               /\ "owner" \in e.reasons <=> "owner" \in d.reasons /\ d.owner = "Unknown"
               /\ "source_data" \in e.flags <=> Fact[x].amb \/ x \in marked
<1> DEFINE e == Reviewed(marked, x, d)
           f == OverlapReview(x, d)
           g == SourceReview(marked, x, f)
           h == OverlapReview(x, g)
           evidence == x \in marked \/ Fact[x].amb
<1>1. /\ Treated(f) /\ Asks(f) /\ Kept(d, f, {"flags", "reasons", "needs"})
      /\ f.reasons = d.reasons \cup (IF Fact[x].amb THEN {"identity"} ELSE {})
      /\ f.flags = d.flags \cup (IF Fact[x].amb THEN {"overlap_count_ambiguous"} ELSE {})
  BY OverlapReviewIs DEF Bare
<1>2. f.flags = d.flags /\ (x \in marked \/ "overlap_count_ambiguous" \in f.flags <=> evidence)
  BY <1>1 DEF Bare
<1> HIDE DEF f
<1>3. /\ Treated(g) /\ Asks(g) /\ Kept(f, g, {"flags", "reasons", "needs"})
      /\ g.flags = (f.flags \ {"source_data"}) \cup (IF evidence THEN {"source_data"} ELSE {})
      /\ g.reasons = (f.reasons \ {"source"}) \cup (IF evidence THEN {"source"} ELSE {})
  BY <1>1, <1>2, SourceReviewIs
<1> HIDE DEF g
<1>4. /\ Treated(h) /\ Asks(h) /\ Kept(g, h, {"flags", "reasons", "needs"})
      /\ h.reasons = g.reasons \cup (IF Fact[x].amb THEN {"identity"} ELSE {})
      /\ h.flags = g.flags \cup (IF Fact[x].amb THEN {"overlap_count_ambiguous"} ELSE {})
  BY <1>3, OverlapReviewIs
<1> HIDE DEF h
<1>5. e = Synchronized(h)
  BY DEF Reviewed, f, g, h
<1> HIDE DEF e
<1>6. /\ Treated(e) /\ Kept(h, e, {"reasons", "needs"}) /\ Asks(e)
      /\ e.reasons \subseteq Questions
      /\ "category" \in e.reasons <=> Pending(h) /\ h.cat = "Unknown"
      /\ "suggestion" \in e.reasons <=>
            "suggestion" \in h.reasons /\ "manual_correction" \notin h.flags /\ h.cat # "Unknown"
      /\ "flow" \in e.reasons <=> Pending(h) /\ h.flow = "unresolved"
      /\ "identity" \in e.reasons <=> "overlap_count_ambiguous" \in h.flags
      /\ "source" \in e.reasons <=> "source_data" \in h.flags
      /\ "owner" \in e.reasons <=> "owner" \in h.reasons /\ h.owner = "Unknown"
  BY <1>4, <1>5, SynchronizedIs
<1>7. Kept(d, e, {"flags", "reasons", "needs"}) /\ Kept(d, h, {"flags", "reasons", "needs"}) /\ e.flags = h.flags
  BY <1>1, <1>3, <1>4, <1>6 DEF Kept, Fields
<1>8. Pending(h) <=> h.reasons # {}
  BY <1>4, Zenon DEF Pending, Asks
<1>9. h.reasons # {} <=> d.reasons \ {"source"} # {} \/ Fact[x].amb \/ x \in marked
  BY <1>1, <1>3, <1>4
<1>10. "suggestion" \in h.reasons <=> "suggestion" \in d.reasons
  BY <1>1, <1>3, <1>4
<1>11. "owner" \in h.reasons <=> "owner" \in d.reasons
  BY <1>1, <1>3, <1>4
<1>12. h.flags = (d.flags \ {"source_data"}) \cup (IF evidence THEN {"source_data"} ELSE {})
  BY <1>1, <1>2, <1>3, <1>4 DEF Bare
<1>13. /\ "overlap_count_ambiguous" \in h.flags <=> Fact[x].amb
       /\ "manual_correction" \in h.flags <=> "manual_correction" \in d.flags
       /\ "source_data" \in h.flags <=> evidence
       /\ h.flags \ {"source_data"} = d.flags \ {"source_data"}
  BY <1>12 DEF Bare
<1>14. h.cat = d.cat /\ h.flow = d.flow /\ h.owner = d.owner
  BY <1>7 DEF Kept, Fields
<1>15. /\ e.partner = d.partner /\ e.group = d.group /\ e.status = d.status /\ e.value = d.value
       /\ e.src = d.src /\ e.flow = d.flow
  BY <1>7 DEF Kept, Fields
<1>16. Bare(x, e)
  BY <1>6, <1>7, <1>13, <1>15 DEF Bare
<1> QED BY <1>6, <1>7, <1>8, <1>9, <1>10, <1>11, <1>13, <1>14, <1>16 DEF e

-----------------------------------------------------------------------------
(* The row as it comes to reconciliation.  Answered: what is undecided      *)
(* still asks.  Origin: where a flow came from can be told.                 *)
Answered(d) == d.cat = "Unknown" \/ d.flow = "unresolved" => d.reasons # {}
Origin(d) ==
    /\ d.src \in {"deterministic", "rule", "structural", "correction"}
    /\ d.src = "structural" => "structural" \in d.flags
    /\ d.src = "deterministic" => "structural" \notin d.flags
LeavesAt(m, x) == x \in DOMAIN m => Leaves(m[x])

LEMMA DerivedRowIs ==
    ASSUME NEW stock, NEW marked, NEW rules, NEW m, NEW x
    PROVE  LET e == DerivedRow(stock, marked, rules, m, x)
               known == BeforeCorrection(stock, rules, m, x)
           IN  /\ Bare(x, e) /\ Origin(e)
               /\ e.pair = Says(m, x, "pair", None)
               /\ e.owner = Says(m, x, "owner", Fact[x].owner)
               /\ Saves(m, x, "flow") => e.src = "correction" /\ e.flow = m[x]["flow"]
               /\ e.cat = Says(m, x, "cat", known.cat)
               /\ LeavesAt(m, x) => Answered(e)
<1> DEFINE known == BeforeCorrection(stock, rules, m, x)
           corrects == x \in DOMAIN m /\ DOMAIN m[x] # {}
           c == IF corrects THEN Corrected(m[x], known) ELSE known
           e == DerivedRow(stock, marked, rules, m, x)
<1>1. e = Reviewed(marked, x, c)
  BY DEF DerivedRow, BeforeCorrection, Reviewed
<1>2. Known(x, known)
  BY BeforeCorrectionIs
<1> HIDE DEF known
<1>3. /\ Bare(x, c) /\ Origin(c)
      /\ c.pair = Says(m, x, "pair", None) /\ c.owner = Says(m, x, "owner", Fact[x].owner)
      /\ Saves(m, x, "flow") => c.src = "correction" /\ c.flow = m[x]["flow"]
      /\ c.cat = Says(m, x, "cat", known.cat)
      /\ LeavesAt(m, x) => (c.cat = "Unknown" \/ c.flow = "unresolved" => c.reasons \ {"source"} # {})
  <2>1. CASE corrects
    <3>1. c = Corrected(m[x], known)
      BY <2>1
    <3> HIDE DEF c
    <3>2. /\ Bare(x, c)
          /\ c.cat = Field(m[x], "cat", known.cat) /\ c.flow = Field(m[x], "flow", known.flow)
          /\ c.src = IF "flow" \in DOMAIN m[x] THEN "correction" ELSE known.src
          /\ c.owner = Field(m[x], "owner", known.owner) /\ c.pair = Field(m[x], "pair", known.pair)
          /\ c.flags = known.flags \cup {"manual_correction"}
          /\ "category" \in c.reasons <=> Leaves(m[x]) /\ c.cat = "Unknown"
          /\ "flow" \in c.reasons <=> Leaves(m[x]) /\ c.flow = "unresolved"
      BY <1>2, <3>1, CorrectedIs
    <3>3. Origin(c)
      BY <1>2, <3>2 DEF Origin, Known
    <3>4. /\ c.pair = Says(m, x, "pair", None) /\ c.owner = Says(m, x, "owner", Fact[x].owner)
          /\ Saves(m, x, "flow") => c.src = "correction" /\ c.flow = m[x]["flow"]
          /\ c.cat = Says(m, x, "cat", known.cat)
      BY <1>2, <2>1, <3>2 DEF Says, Saves, Field, Known
    <3>5. LeavesAt(m, x) => (c.cat = "Unknown" \/ c.flow = "unresolved" => c.reasons \ {"source"} # {})
      BY <2>1, <3>2 DEF LeavesAt
    <3> QED BY <3>2, <3>3, <3>4, <3>5
  <2>2. CASE ~corrects
    <3>1. c = known
      BY <2>2
    <3> HIDE DEF c
    <3>2. ~Saves(m, x, "pair") /\ ~Saves(m, x, "owner") /\ ~Saves(m, x, "flow") /\ ~Saves(m, x, "cat")
      BY <2>2 DEF Saves
    <3>3. Origin(c) /\ c.reasons \ {"source"} # {}
      BY <1>2, <3>1 DEF Origin, Known
    <3> QED BY <1>2, <3>1, <3>2, <3>3 DEF Known, Says
  <2> QED BY <2>1, <2>2
<1> HIDE DEF c, e
<1>4. /\ Bare(x, e) /\ Kept(c, e, {"flags", "reasons", "needs"})
      /\ e.flags \ {"source_data"} = c.flags \ {"source_data"}
      /\ "category" \in e.reasons <=> (c.reasons \ {"source"} # {} \/ Fact[x].amb \/ x \in marked) /\ c.cat = "Unknown"
      /\ "flow" \in e.reasons <=> (c.reasons \ {"source"} # {} \/ Fact[x].amb \/ x \in marked) /\ c.flow = "unresolved"
  BY <1>1, <1>3, ReviewedIs
<1>5. e.cat = c.cat /\ e.flow = c.flow /\ e.src = c.src /\ e.pair = c.pair /\ e.owner = c.owner
  BY <1>4 DEF Kept, Fields
<1>6. Origin(e)
  <2>1. "structural" \in e.flags <=> "structural" \in c.flags
    BY <1>4
  <2> QED BY <1>3, <1>5, <2>1 DEF Origin
<1>7. LeavesAt(m, x) => Answered(e)
  BY <1>3, <1>4, <1>5 DEF Answered
<1> QED BY <1>3, <1>4, <1>5, <1>6, <1>7 DEF e, known

-----------------------------------------------------------------------------
(* Flows, and manual pairs.                                                 *)
Open(x, d) ==
    /\ Treated(d) /\ Asks(d) /\ Origin(d)
    /\ d.partner = None /\ d.group = None /\ d.status = "not_applicable" /\ d.value = Value(x)
    /\ d.reasons \subseteq Questions
    /\ d.src = "deterministic" => d.flow = FlowFor(x, d)
    /\ "overlap_count_ambiguous" \in d.flags <=> Fact[x].amb
Function(rows) == rows = [x \in DOMAIN rows |-> rows[x]]
Plain(rows) ==
    Function(rows) /\ DOMAIN rows \subseteq Rows /\ \A x \in DOMAIN rows : Bare(x, rows[x]) /\ Origin(rows[x])
Opened(rows) ==
    Function(rows) /\ DOMAIN rows \subseteq Rows /\ \A x \in DOMAIN rows : Open(x, rows[x])

LEMMA WithFlowsIs ==
    ASSUME NEW rows, Plain(rows)
    PROVE  LET A == WithFlows(rows) IN
           /\ Opened(A) /\ DOMAIN A = DOMAIN rows
           /\ \A x \in DOMAIN rows :
                 /\ A[x] = WithFlow(x, rows[x]) /\ Kept(rows[x], A[x], {"flow", "src"})
                 /\ rows[x].src = "correction" => A[x] = rows[x]
                 /\ Answered(rows[x]) => Answered(A[x])
<1> DEFINE A == WithFlows(rows)
<1>1. A = [x \in DOMAIN rows |-> WithFlow(x, rows[x])]
  BY TabulatedIs DEF WithFlows
<1> HIDE DEF A
<1>2. Function(A) /\ DOMAIN A = DOMAIN rows
  BY <1>1 DEF Function
<1>3. ASSUME NEW x \in DOMAIN rows
      PROVE  /\ Open(x, A[x]) /\ A[x] = WithFlow(x, rows[x]) /\ Kept(rows[x], A[x], {"flow", "src"})
             /\ rows[x].src = "correction" => A[x] = rows[x]
             /\ Answered(rows[x]) => Answered(A[x])
  <2> DEFINE d == rows[x]
             e == A[x]
  <2>1. e = WithFlow(x, d)
    BY <1>1
  <2>2. Bare(x, d) /\ Origin(d) /\ Treated(d)
    BY DEF Plain, Bare
  <2> HIDE DEF d, e
  <2>3. /\ Treated(e) /\ Kept(d, e, {"flow", "src"})
        /\ d.src \in {"rule", "correction", "structural"} => e = d
        /\ d.src \notin {"rule", "correction", "structural"} =>
              e.flow = FlowFor(x, d) /\ e.src = "deterministic"
    BY <2>1, <2>2, WithFlowIs
  <2>4. /\ e.partner = d.partner /\ e.group = d.group /\ e.status = d.status /\ e.value = d.value
        /\ e.reasons = d.reasons /\ e.needs = d.needs /\ e.flags = d.flags /\ e.cat = d.cat
    BY <2>3 DEF Kept, Fields
  <2>5. FlowFor(x, e) = FlowFor(x, d)
    BY <2>4 DEF FlowFor
  <2>6. Origin(e) /\ (e.src = "deterministic" => e.flow = FlowFor(x, e))
    BY <2>2, <2>3, <2>4, <2>5 DEF Origin
  <2>7. Asks(e)
    BY <2>2, <2>4, Zenon DEF Bare, Asks
  <2>8. Open(x, e)
    BY <2>2, <2>3, <2>4, <2>6, <2>7 DEF Bare, Open
  <2>9. Answered(d) => Answered(e)
    BY <2>2, <2>3, <2>4 DEF Answered, Bare, Origin
  <2> QED BY <2>1, <2>3, <2>8, <2>9 DEF d, e
<1> QED BY <1>2, <1>3 DEF Opened, Plain, A

LEMMA TwoElements ==
    ASSUME NEW S, IsFiniteSet(S), Cardinality(S) = 2, NEW a \in S, NEW b \in S, a # b
    PROVE  S = {a, b}
<1>1. IsFiniteSet({a}) /\ Cardinality({a}) = 1
  BY FS_Singleton
<1> DEFINE T == {a} \cup {b}
<1>2. Cardinality(T) = Cardinality({a}) + 1
  <2>1. b \notin {a}
    OBVIOUS
  <2> QED BY <1>1, <2>1, FS_AddElement
<1>3. T \subseteq S /\ Cardinality(T) = Cardinality(S)
  BY <1>1, <1>2
<1> HIDE DEF T
<1>4. T = S
  BY <1>3, FS_Subset
<1> QED BY <1>4 DEF T

LEMMA OneElement ==
    ASSUME NEW S, Cardinality(S) = 1, IsFiniteSet(S)
    PROVE  \E a : S = {a}
  BY FS_Singleton

LEMMA FiniteRows ==
    ASSUME NEW S, S \subseteq Rows
    PROVE  IsFiniteSet(S)
  BY FactsAssumption, FS_Subset DEF FactsAssumption

\* Two rows that share a manual pair's name are each other's partners.
LEMMA ManualPartnerIs ==
    ASSUME NEW rows, DOMAIN rows \subseteq Rows, NEW x \in Marked(rows), NEW y \in ManualPartner(rows, x)
    PROVE  /\ y \in Marked(rows) /\ y # x /\ ManualFacts(x, y, rows)
           /\ ManualPartner(rows, x) = {y} /\ ManualPartner(rows, y) = {x}
<1>1. /\ y \in Sharing(rows, x) /\ Cardinality(Sharing(rows, x)) = 2 /\ ManualFacts(x, y, rows)
      /\ y \in Marked(rows) /\ rows[y].pair = rows[x].pair
  BY DEF ManualPartner, Sharing
<1>2. y # x
  BY <1>1 DEF ManualFacts
<1>3. Sharing(rows, x) = {x, y} /\ Sharing(rows, y) = Sharing(rows, x)
  <2>1. x \in Sharing(rows, x) /\ Sharing(rows, x) \subseteq Rows
    BY DEF Sharing, Marked
  <2>2. Sharing(rows, x) = {x, y}
    BY <1>1, <1>2, <2>1, FiniteRows, TwoElements
  <2>3. Sharing(rows, y) = Sharing(rows, x)
    BY <1>1 DEF Sharing
  <2> QED BY <2>2, <2>3
<1>4. x \in Rows /\ y \in Rows
  BY <1>1 DEF Marked
<1>5. ManualFacts(y, x, rows)
  BY <1>1, <1>4, FactsAssumption DEF FactsAssumption, ManualFacts, OwnersCompatible
<1>6. ~ManualFacts(x, x, rows) /\ ~ManualFacts(y, y, rows)
  BY DEF ManualFacts
<1>7. ManualPartner(rows, x) = {y}
  BY <1>1, <1>3, <1>6 DEF ManualPartner
<1>8. ManualPartner(rows, y) = {x}
  BY <1>1, <1>3, <1>5, <1>6 DEF ManualPartner
<1> QED BY <1>1, <1>2, <1>7, <1>8

LEMMA WithManualPairsIs ==
    ASSUME NEW A, Function(A)
    PROVE  LET B == WithManualPairs(A) IN
           /\ Function(B) /\ DOMAIN B = DOMAIN A
           /\ \A x \in DOMAIN A :
                 /\ A[x].pair = None => B[x] = A[x]
                 /\ A[x].pair # None /\ ManualPartner(A, x) = {} => B[x] = InvalidPair(A[x])
                 /\ A[x].pair # None => \A y : ManualPartner(A, x) = {y} => B[x] = PairedManually(A[x], y)
<1> DEFINE B == WithManualPairs(A)
<1>1. B = [x \in DOMAIN A |->
              IF x \notin Marked(A) THEN A[x]
              ELSE IF ManualPartner(A, x) = {} THEN InvalidPair(A[x])
              ELSE PairedManually(A[x], CHOOSE y \in ManualPartner(A, x) : TRUE)]
  BY TabulatedIs DEF WithManualPairs
<1> HIDE DEF B
<1>2. ASSUME NEW x \in DOMAIN A, A[x].pair # None, NEW y, ManualPartner(A, x) = {y}
      PROVE  B[x] = PairedManually(A[x], y)
  <2>1. (CHOOSE z \in ManualPartner(A, x) : TRUE) = y
    BY <1>2
  <2> QED BY <1>1, <1>2, <2>1 DEF Marked
<1> QED BY <1>1, <1>2 DEF Function, Marked, B

\* The rows after manual pairs: as they were, paired by a person, or not to be paired so.
Sound(x, d) ==
    /\ Treated(d) /\ Asks(d)
    /\ "overlap_count_ambiguous" \in d.flags <=> Fact[x].amb
PairedBy(rows, x) ==
    LET d == rows[x] IN
    /\ d.group = "manual" /\ d.status = "paired" /\ d.flow = "internal_transfer" /\ d.src = "correction"
    /\ d.cat = "Internal Transfer" /\ d.pair # None
    /\ d.partner \in DOMAIN rows \ {x}
    /\ rows[d.partner].partner = x /\ rows[d.partner].group = "manual" /\ rows[d.partner].pair = d.pair
    /\ Fact[x].ccy = Fact[d.partner].ccy /\ Fact[x].amt = -Fact[d.partner].amt
LeftOpen(rows, x) ==
    LET d == rows[x] IN
    /\ d.group = None /\ d.status = "unmatched" /\ d.flow = "unresolved" /\ d.src = "reconciliation"
    /\ d.partner = None /\ d.pair # None /\ "flow" \in d.reasons
Named(rows) ==
    /\ Function(rows) /\ DOMAIN rows \subseteq Rows
    /\ \A x \in DOMAIN rows :
          /\ Sound(x, rows[x]) /\ rows[x].value = Value(x)
          /\ rows[x].pair = None => Open(x, rows[x])
          /\ rows[x].pair # None => PairedBy(rows, x) \/ LeftOpen(rows, x)

LEMMA ManualPairsAre ==
    ASSUME NEW A, Opened(A)
    PROVE  LET B == WithManualPairs(A) IN
           /\ Named(B) /\ DOMAIN B = DOMAIN A
           /\ \A x \in DOMAIN A :
                 /\ B[x].pair = A[x].pair /\ B[x].owner = A[x].owner
                 /\ A[x].pair = None => B[x] = A[x]
                 /\ Answered(A[x]) => Answered(B[x])
<1> DEFINE B == WithManualPairs(A)
<1>1. /\ Function(B) /\ DOMAIN B = DOMAIN A
      /\ \A x \in DOMAIN A :
            /\ A[x].pair = None => B[x] = A[x]
            /\ A[x].pair # None /\ ManualPartner(A, x) = {} => B[x] = InvalidPair(A[x])
            /\ A[x].pair # None => \A y : ManualPartner(A, x) = {y} => B[x] = PairedManually(A[x], y)
  BY WithManualPairsIs DEF Opened
<1> HIDE DEF B
<1>2. ASSUME NEW x \in DOMAIN A, A[x].pair = None
      PROVE  /\ Sound(x, B[x]) /\ B[x].value = Value(x) /\ Open(x, B[x]) /\ B[x] = A[x]
  BY <1>1, <1>2 DEF Opened, Open, Sound
<1>3. ASSUME NEW x \in DOMAIN A, A[x].pair # None, ManualPartner(A, x) = {}
      PROVE  /\ Sound(x, B[x]) /\ B[x].value = Value(x) /\ LeftOpen(B, x) /\ Answered(B[x])
             /\ B[x].pair = A[x].pair /\ B[x].owner = A[x].owner
  <2> DEFINE d == A[x]
             e == B[x]
  <2>1. Open(x, d) /\ Treated(d) /\ e = InvalidPair(d)
    BY <1>1, <1>3 DEF Opened, Open
  <2>2. d.pair # None
    BY <1>3
  <2>5. LeftOpen(B, x) <=>
          /\ e.group = None /\ e.status = "unmatched" /\ e.flow = "unresolved" /\ e.src = "reconciliation"
          /\ e.partner = None /\ e.pair # None /\ "flow" \in e.reasons
    BY DEF LeftOpen
  <2> HIDE DEF d, e
  <2>3. /\ Treated(e) /\ Kept(d, e, {"flow", "src", "status", "flags", "reasons", "needs"})
        /\ e.flow = "unresolved" /\ e.src = "reconciliation" /\ e.status = "unmatched"
        /\ e.flags = d.flags \cup {"pair_invalid"}
        /\ e.reasons = d.reasons \cup {"flow"} /\ Asks(e)
    BY <2>1, InvalidPairIs
  <2>4. e.pair = d.pair /\ e.owner = d.owner /\ e.group = d.group /\ e.partner = d.partner /\ e.value = d.value
    BY <2>3 DEF Kept, Fields
  <2>6. Sound(x, e)
    BY <2>1, <2>3 DEF Sound, Open
  <2>7. Answered(e)
    BY <2>3 DEF Answered
  <2> QED BY <2>1, <2>2, <2>3, <2>4, <2>5, <2>6, <2>7 DEF Open, d, e
<1>4. ASSUME NEW x \in DOMAIN A, A[x].pair # None, NEW y \in ManualPartner(A, x)
      PROVE  /\ y \in DOMAIN A \ {x} /\ A[y].pair = A[x].pair
             /\ Fact[x].ccy = Fact[y].ccy /\ Fact[x].amt = -Fact[y].amt
             /\ B[x] = PairedManually(A[x], y) /\ B[y] = PairedManually(A[y], x)
  <2>1. x \in Marked(A) /\ DOMAIN A \subseteq Rows
    BY <1>4 DEF Marked, Opened
  <2>2. /\ y \in Marked(A) /\ y # x /\ ManualFacts(x, y, A)
        /\ ManualPartner(A, x) = {y} /\ ManualPartner(A, y) = {x}
    BY <2>1, ManualPartnerIs
  <2>3. A[y].pair = A[x].pair
    BY <1>4 DEF ManualPartner, Sharing
  <2> QED BY <1>1, <1>4, <2>2, <2>3 DEF Marked, ManualFacts
<1>5. ASSUME NEW x \in DOMAIN A, A[x].pair # None, NEW y, B[x] = PairedManually(A[x], y)
      PROVE  LET e == B[x] IN
             /\ Sound(x, e) /\ e.value = Value(x)
             /\ e.group = "manual" /\ e.status = "paired" /\ e.flow = "internal_transfer"
             /\ e.src = "correction" /\ e.cat = "Internal Transfer" /\ e.pair = A[x].pair /\ e.partner = y
             /\ e.owner = A[x].owner /\ Answered(e)
  <2> DEFINE d == A[x]
             e == B[x]
  <2>1. Open(x, d) /\ Treated(d) /\ e = PairedManually(d, y)
    BY <1>5 DEF Opened, Open
  <2> HIDE DEF d, e
  <2>3. /\ Treated(e)
        /\ Kept(d, e, {"cat", "flow", "src", "flags", "reasons", "needs", "partner", "group", "status"})
        /\ e.cat = "Internal Transfer" /\ e.flow = "internal_transfer" /\ e.src = "correction"
        /\ e.flags = d.flags \ {"pair_invalid"}
        /\ e.partner = y /\ e.group = "manual" /\ e.status = "paired"
        /\ e.reasons = d.reasons \ {"category", "suggestion", "flow"} /\ Asks(e)
    <3>1. LET f == PairedManually(d, y) IN
          /\ Treated(f)
          /\ Kept(d, f, {"cat", "flow", "src", "flags", "reasons", "needs", "partner", "group", "status"})
          /\ f.cat = "Internal Transfer" /\ f.flow = "internal_transfer" /\ f.src = "correction"
          /\ f.flags = d.flags \ {"pair_invalid"}
          /\ f.partner = y /\ f.group = "manual" /\ f.status = "paired"
          /\ f.reasons = d.reasons \ {"category", "suggestion", "flow"} /\ Asks(f)
      <4>1. Treated(d)
        BY <2>1
      <4> QED BY <4>1, PairedManuallyIs
    <3>2. e = PairedManually(d, y)
      BY <2>1
    <3> QED BY <3>1, <3>2
  <2>4. e.pair = d.pair /\ e.owner = d.owner /\ e.value = d.value
    BY <2>3 DEF Kept, Fields
  <2>6. Sound(x, e)
    BY <2>1, <2>3 DEF Sound, Open
  <2>7. Answered(e)
    BY <2>3 DEF Answered
  <2> QED BY <2>1, <2>3, <2>4, <2>6, <2>7 DEF Open, d, e
<1>6. ASSUME NEW x \in DOMAIN A, A[x].pair # None, NEW y \in ManualPartner(A, x)
      PROVE  /\ Sound(x, B[x]) /\ B[x].value = Value(x) /\ PairedBy(B, x) /\ Answered(B[x])
             /\ B[x].pair = A[x].pair /\ B[x].owner = A[x].owner
  <2>1. /\ y \in DOMAIN A \ {x} /\ A[y].pair = A[x].pair
        /\ Fact[x].ccy = Fact[y].ccy /\ Fact[x].amt = -Fact[y].amt
        /\ B[x] = PairedManually(A[x], y) /\ B[y] = PairedManually(A[y], x)
    BY <1>4, <1>6
  <2>2. /\ Sound(x, B[x]) /\ B[x].value = Value(x)
        /\ B[x].group = "manual" /\ B[x].status = "paired" /\ B[x].flow = "internal_transfer"
        /\ B[x].src = "correction" /\ B[x].cat = "Internal Transfer" /\ B[x].pair = A[x].pair
        /\ B[x].partner = y /\ B[x].owner = A[x].owner /\ Answered(B[x])
    BY <1>5, <1>6, <2>1
  <2>3. B[y].group = "manual" /\ B[y].partner = x /\ B[y].pair = A[y].pair
    <3>1. y \in DOMAIN A /\ A[y].pair # None /\ B[y] = PairedManually(A[y], x)
      BY <1>6, <2>1
    <3> QED BY <1>5, <3>1, Zenon
  <2> QED BY <1>1, <1>6, <2>1, <2>2, <2>3 DEF PairedBy
<1>7. ASSUME NEW x \in DOMAIN A
      PROVE  /\ Sound(x, B[x]) /\ B[x].value = Value(x)
             /\ B[x].pair = None => Open(x, B[x])
             /\ B[x].pair # None => PairedBy(B, x) \/ LeftOpen(B, x)
             /\ B[x].pair = A[x].pair /\ B[x].owner = A[x].owner
             /\ A[x].pair = None => B[x] = A[x]
             /\ Answered(A[x]) => Answered(B[x])
  BY <1>2, <1>3, <1>6
<1>8. Named(B)
  BY <1>1, <1>7 DEF Named, Opened
<1> QED BY <1>1, <1>7, <1>8 DEF B

-----------------------------------------------------------------------------
(* A least natural number of a set.                                         *)
LEMMA LeastOf ==
    ASSUME NEW B, B \subseteq Nat, B # {}
    PROVE  \E b \in B : \A c \in B : b <= c
<1>1. PICK b \in B : \A c \in B : ~ (<<c, b>> \in OpToRel(<, Nat))
  BY NatLessThanWellFounded, WFMin, Zenon
<1>2. \A c \in B : ~ (c < b)
  BY <1>1 DEF OpToRel
<1> QED BY <1>2

(* The search that assign makes, one attempt after the other.               *)
Level(edges, n, k, again) ==
    [b \in 1..n |-> [search \in Searches(n) |->
        IF k = 0 THEN search ELSE Attempt(edges, again, b, search)]]

LEMMA AssignIs ==
    ASSUME NEW edges, NEW n \in Nat
    PROVE  \E assign : /\ \A k \in 0..n : assign[k] = Level(edges, n, k, assign[k - 1])
                       /\ Assign(edges, n) = assign[n]
<1> DEFINE Made(K, g) == g = [k \in 0..K |-> Level(edges, n, k, g[k - 1])]
           B == {K \in 0..n : ~ \E g : Made(K, g)}
<1>0. ASSUME NEW g, NEW h
      PROVE  Level(edges, n, 0, g) = Level(edges, n, 0, h)
  BY DEF Level
<1>1. B = {}
  <2>1. SUFFICES ASSUME B # {} PROVE FALSE
    OBVIOUS
  <2>2. B \subseteq Nat
    OBVIOUS
  <2>3. PICK K \in B : \A c \in B : K <= c
    <3> HIDE DEF B
    <3> QED BY <2>1, <2>2, LeastOf
  <2>4. \A g : ~Made(K, g)
    BY <2>3
  <2>5. K # 0
    <3>1. SUFFICES ASSUME K = 0 PROVE FALSE
      OBVIOUS
    <3> DEFINE g == [k \in 0..0 |-> Level(edges, n, 0, 0)]
    <3>2. Made(0, g)
      BY <1>0
    <3> QED BY <2>4, <3>1, <3>2
  <2>6. K - 1 \in 0..n /\ K - 1 \notin B /\ K \in 1..n
    <3>1. K \in 0..n
      OBVIOUS
    <3> HIDE DEF B
    <3> QED BY <2>2, <2>3, <2>5, <3>1
  <2>7. PICK g : Made(K - 1, g)
    BY <2>6
  <2> DEFINE h == [k \in 0..K |-> Level(edges, n, k, g[k - 1])]
  <2>8. ASSUME NEW k \in 0..(K - 1)
        PROVE  h[k] = g[k]
    <3>1. k \in 0..K
      BY <2>6, <2>8
    <3>2. h[k] = Level(edges, n, k, g[k - 1])
      BY <3>1
    <3>3. g[k] = Level(edges, n, k, g[k - 1])
      <4> HIDE DEF h
      <4> QED BY <2>7, <2>8
    <3> QED BY <3>2, <3>3
  <2>9. ASSUME NEW k \in 0..K
        PROVE  Level(edges, n, k, g[k - 1]) = Level(edges, n, k, h[k - 1])
    <3>1. CASE k = 0
      BY <1>0, <3>1
    <3>2. CASE k # 0
      <4>1. k - 1 \in 0..(K - 1)
        BY <2>6, <2>9, <3>2
      <4> QED BY <2>8, <4>1
    <3> QED BY <3>1, <3>2
  <2>10. Made(K, h)
    <3>1. h = [k \in 0..K |-> Level(edges, n, k, h[k - 1])]
      BY <2>9
    <3> QED BY <3>1
  <2> QED BY <2>4, <2>10
<1>2. \E g : Made(n, g)
  <2>1. n \in 0..n
    OBVIOUS
  <2> HIDE DEF Made
  <2> QED BY <1>1, <2>1
<1> DEFINE assign == CHOOSE assign : assign = [k \in 0..n |-> Level(edges, n, k, assign[k - 1])]
<1>3. Made(n, assign)
  <2>1. \E g : g = [k \in 0..n |-> Level(edges, n, k, g[k - 1])]
    BY <1>2
  <2> QED BY <2>1
<1>4. Assign(edges, n) = assign[n]
  BY DEF Assign, Level
<1> HIDE DEF assign
<1>5. \A k \in 0..n : assign[k] = Level(edges, n, k, assign[k - 1])
  BY <1>3
<1> QED BY <1>4, <1>5

Unheld(n) == [found |-> TRUE, held |-> [f \in 1..n |-> 0]]

LEMMA AugmentIs ==
    ASSUME NEW edges, NEW n \in Nat
    PROVE  \E augment : /\ augment[0] = Unheld(n)
                        /\ \A b \in 1..n : augment[b] = Augmented(edges, n, b, augment[b - 1])
                        /\ Augment(edges, n) = augment[n]
<1> DEFINE Made(K, g) ==
               g = [b \in 0..K |-> IF b = 0 THEN Unheld(n)
                                   ELSE Augmented(edges, n, b, g[b - 1])]
           B == {K \in 0..n : ~ \E g : Made(K, g)}
<1>1. B = {}
  <2>1. SUFFICES ASSUME B # {} PROVE FALSE
    OBVIOUS
  <2>2. B \subseteq Nat
    OBVIOUS
  <2>3. PICK K \in B : \A c \in B : K <= c
    <3> HIDE DEF B
    <3> QED BY <2>1, <2>2, LeastOf
  <2>4. \A g : ~Made(K, g)
    BY <2>3
  <2>5. K # 0
    <3>1. SUFFICES ASSUME K = 0 PROVE FALSE
      OBVIOUS
    <3>2. Made(0, [b \in 0..0 |-> Unheld(n)])
      OBVIOUS
    <3> QED BY <2>4, <3>1, <3>2
  <2>6. K - 1 \in 0..n /\ K - 1 \notin B /\ K \in 1..n
    <3>1. K \in 0..n
      OBVIOUS
    <3> HIDE DEF B
    <3> QED BY <2>2, <2>3, <2>5, <3>1
  <2>7. PICK g : Made(K - 1, g)
    BY <2>6
  <2> DEFINE h == [b \in 0..K |-> IF b = 0 THEN Unheld(n)
                                  ELSE Augmented(edges, n, b, g[b - 1])]
  <2>8. ASSUME NEW b \in 0..(K - 1)
        PROVE  h[b] = g[b]
    <3>1. b \in 0..K
      BY <2>6, <2>8
    <3>2. h[b] = IF b = 0 THEN Unheld(n)
                 ELSE Augmented(edges, n, b, g[b - 1])
      BY <3>1
    <3>3. g[b] = IF b = 0 THEN Unheld(n)
                 ELSE Augmented(edges, n, b, g[b - 1])
      <4> HIDE DEF h
      <4> QED BY <2>7, <2>8
    <3> QED BY <3>2, <3>3
  <2>9. ASSUME NEW b \in 0..K, b # 0
        PROVE  h[b - 1] = g[b - 1]
    <3>1. b - 1 \in 0..(K - 1)
      BY <2>6, <2>9
    <3> QED BY <2>8, <3>1
  <2>10. Made(K, h)
    <3>1. h = [b \in 0..K |-> IF b = 0 THEN Unheld(n)
                              ELSE Augmented(edges, n, b, h[b - 1])]
      BY <2>9
    <3> QED BY <3>1
  <2> QED BY <2>4, <2>10
<1>2. \E g : Made(n, g)
  <2>1. n \in 0..n
    OBVIOUS
  <2> HIDE DEF Made
  <2> QED BY <1>1, <2>1
<1> DEFINE augment == CHOOSE augment : augment =
               [b \in 0..n |->
                   IF b = 0 THEN Unheld(n)
                   ELSE Augmented(edges, n, b, augment[b - 1])]
<1>3. Made(n, augment)
  <2>1. \E g : g = [b \in 0..n |-> IF b = 0 THEN Unheld(n)
                                   ELSE Augmented(edges, n, b, g[b - 1])]
    BY <1>2
  <2> QED BY <2>1
<1>4. Augment(edges, n) = augment[n]
  BY DEF Augment, Unheld
<1> HIDE DEF augment
<1>5. /\ augment[0] = Unheld(n)
      /\ \A b \in 1..n : augment[b] = Augmented(edges, n, b, augment[b - 1])
  BY <1>3
<1> QED BY <1>4, <1>5

(* One attempt of debit b, as it follows from the attempts before.          *)
LEMMA LevelIs ==
    ASSUME NEW n \in Nat, NEW edges, NEW again, NEW k, NEW b \in 1..n, NEW s \in Searches(n)
    PROVE  Level(edges, n, k, again)[b][s] = IF k = 0 THEN s ELSE Attempt(edges, again, b, s)
  BY DEF Level

(* What a search keeps.  Each deposit is held by a debit it suits, and no   *)
(* debit holds two of S.                                                    *)
Along(edges, n, held) ==
    held \in [1..n -> 0..n] /\ \A f \in 1..n : held[f] # 0 => f \in edges[held[f]]
Once(held, S) == \A f, g \in S : held[f] = held[g] /\ held[f] # 0 => f = g
Holders(held, S) == {held[f] : f \in S} \ {0}

(* A search for debit b may begin: what b holds has been seen.              *)
Begun(edges, n, b, s) ==
    /\ s \in Searches(n) /\ ~s.ok
    /\ Along(edges, n, s.held) /\ Once(s.held, 1..n)
    /\ \A f \in 1..n : s.held[f] = b => f \in s.seen

(* It succeeds: b has another deposit, and all that held one hold one still. *)
Won(edges, n, b, s, r) ==
    /\ r \in Searches(n) /\ r.ok
    /\ \A g \in s.seen : r.held[g] = s.held[g]
    /\ Along(edges, n, r.held)
    /\ \E f \in (1..n) \ s.seen :
          /\ r.held[f] = b
          /\ Once(r.held, (1..n) \ {f})
          /\ Holders(r.held, (1..n) \ {f}) = Holders(s.held, 1..n)

(* It fails: nothing has moved, and if there were attempts enough, b and    *)
(* the holders of what was seen can go nowhere else.                        *)
Stuck(edges, b, s, r) ==
    /\ edges[b] \subseteq r.seen
    /\ \A g \in r.seen \ s.seen : s.held[g] # 0 /\ edges[s.held[g]] \subseteq r.seen
Lost(edges, n, k, b, s, r) ==
    /\ r \in Searches(n) /\ ~r.ok /\ r.held = s.held /\ s.seen \subseteq r.seen
    /\ Cardinality((1..n) \ s.seen) <= k => Stuck(edges, b, s, r)

Ended(edges, n, k, b, s, r) == Won(edges, n, b, s, r) \/ Lost(edges, n, k, b, s, r)

LEMMA TakesFree ==
    ASSUME NEW n \in Nat, NEW edges \in [1..n -> SUBSET (1..n)], NEW b \in 1..n, NEW s,
           Begun(edges, n, b, s), NEW f \in edges[b] \ s.seen, s.held[f] = 0,
           NEW r, r = [ok |-> TRUE, seen |-> s.seen \cup {f}, held |-> [s.held EXCEPT ![f] = b]]
    PROVE  Won(edges, n, b, s, r)
<1>1. f \in 1..n /\ s.held \in [1..n -> 0..n] /\ s.seen \subseteq 1..n /\ b \in 0..n
  BY DEF Begun, Along, Searches
<1>2. r.held \in [1..n -> 0..n] /\ r.held[f] = b /\ \A g \in (1..n) \ {f} : r.held[g] = s.held[g]
  BY <1>1
<1>3. r \in Searches(n) /\ r.ok
  BY <1>1, <1>2 DEF Searches
<1>4. Along(edges, n, r.held)
  BY <1>1, <1>2 DEF Begun, Along
<1>5. Once(r.held, (1..n) \ {f})
  BY <1>1, <1>2 DEF Begun, Once
<1>6. Holders(r.held, (1..n) \ {f}) = Holders(s.held, 1..n)
  <2>1. ASSUME NEW v \in Holders(r.held, (1..n) \ {f})
        PROVE  v \in Holders(s.held, 1..n)
    BY <1>2 DEF Holders
  <2>2. ASSUME NEW v \in Holders(s.held, 1..n)
        PROVE  v \in Holders(r.held, (1..n) \ {f})
    <3>1. PICK g \in 1..n : v = s.held[g] /\ v # 0
      BY DEF Holders
    <3>2. g \in (1..n) \ {f}
      BY <3>1
    <3> QED BY <1>2, <3>1, <3>2 DEF Holders
  <2> QED BY <2>1, <2>2
<1>7. \A g \in s.seen : r.held[g] = s.held[g]
  BY <1>1, <1>2
<1> QED BY <1>1, <1>2, <1>3, <1>4, <1>5, <1>6, <1>7 DEF Won

LEMMA TakesOver ==
    ASSUME NEW n \in Nat, NEW edges \in [1..n -> SUBSET (1..n)], NEW b \in 1..n, NEW s,
           Begun(edges, n, b, s), NEW f \in edges[b] \ s.seen, s.held[f] # 0,
           NEW m, m = [s EXCEPT !.seen = @ \cup {f}],
           NEW r, Won(edges, n, s.held[f], m, r), NEW t, t = [r EXCEPT !.held[f] = b]
    PROVE  Won(edges, n, b, s, t)
<1> DEFINE c == s.held[f]
<1>1. f \in 1..n /\ s.held \in [1..n -> 0..n] /\ s.seen \subseteq 1..n /\ b \in 0..n /\ c # 0
  BY DEF Begun, Along, Searches, Won
<1>2. m.seen = s.seen \cup {f} /\ m.held = s.held
  BY DEF Begun, Searches
<1>3. r.held \in [1..n -> 0..n] /\ r \in Searches(n) /\ r.ok /\ Along(edges, n, r.held)
      /\ \A g \in m.seen : r.held[g] = s.held[g]
  BY <1>2 DEF Won, Along
<1>4. /\ t.held \in [1..n -> 0..n] /\ t.held[f] = b
      /\ \A g \in (1..n) \ {f} : t.held[g] = r.held[g]
      /\ t \in Searches(n) /\ t.ok
  BY <1>1, <1>3 DEF Searches
<1>5. PICK h \in (1..n) \ m.seen : /\ r.held[h] = c
                                   /\ Once(r.held, (1..n) \ {h})
                                   /\ Holders(r.held, (1..n) \ {h}) = Holders(s.held, 1..n)
  BY <1>2 DEF Won
<1>6. h # f /\ r.held[f] = c
  BY <1>2, <1>3, <1>5
<1> HIDE DEF c
<1>7. Along(edges, n, t.held)
  BY <1>1, <1>3, <1>4 DEF Along
<1>8. Once(t.held, (1..n) \ {f})
  <2>1. ASSUME NEW g \in (1..n) \ {f, h}
        PROVE  t.held[g] = r.held[g] /\ r.held[g] # c
    BY <1>1, <1>4, <1>5, <1>6 DEF Once
  <2>2. t.held[h] = c
    BY <1>4, <1>5, <1>6
  <2> QED BY <1>5, <2>1, <2>2 DEF Once
<1>9. Holders(t.held, (1..n) \ {f}) = Holders(r.held, (1..n) \ {h})
  <2>1. Holders(t.held, (1..n) \ {f}) = Holders(r.held, (1..n) \ {f})
    <3>1. ASSUME NEW v PROVE v \in Holders(t.held, (1..n) \ {f}) <=> v \in Holders(r.held, (1..n) \ {f})
      BY <1>4 DEF Holders
    <3> QED BY <3>1
  <2>2. Holders(r.held, (1..n) \ {f}) = Holders(r.held, (1..n) \ {h})
    BY <1>1, <1>5, <1>6 DEF Holders
  <2> QED BY <2>1, <2>2
<1>10. \A g \in s.seen : t.held[g] = s.held[g]
  BY <1>1, <1>2, <1>3, <1>4
<1> QED BY <1>1, <1>4, <1>5, <1>7, <1>8, <1>9, <1>10 DEF Won

LEMMA AttemptEnds ==
    ASSUME NEW n \in Nat, NEW edges \in [1..n -> SUBSET (1..n)], NEW k \in Nat, NEW again,
           \A c \in 1..n, s \in Searches(n) : Begun(edges, n, c, s) => Ended(edges, n, k, c, s, again[c][s]),
           NEW b \in 1..n, NEW s, Begun(edges, n, b, s)
    PROVE  Ended(edges, n, k + 1, b, s, Attempt(edges, again, b, s))
<1> SUFFICES ASSUME NEW r, r = Attempt(edges, again, b, s)
             PROVE  Ended(edges, n, k + 1, b, s, r)
  OBVIOUS
<1> DEFINE open == edges[b] \ s.seen
<1>1. s \in Searches(n) /\ ~s.ok /\ s.seen \subseteq 1..n /\ s.held \in [1..n -> 0..n]
  BY DEF Begun, Searches
<1>2. CASE open = {}
  <2>1. r = s
    BY <1>2 DEF Attempt
  <2>2. Stuck(edges, b, s, s)
    BY <1>2 DEF Stuck
  <2> QED BY <1>1, <2>1, <2>2 DEF Ended, Lost
<1>3. CASE open # {}
  <2> DEFINE f == CHOOSE f \in open : \A g \in open : f <= g
             m == [s EXCEPT !.seen = @ \cup {f}]
             moved == IF m.held[f] = 0 THEN [m EXCEPT !.ok = TRUE] ELSE again[m.held[f]][m]
  <2>1. r = IF moved.ok THEN [moved EXCEPT !.held[f] = b] ELSE again[b][moved]
    BY <1>1, <1>3 DEF Attempt
  <2>2. f \in edges[b] \ s.seen
    <3>1. \E g \in open : \A h \in open : g <= h
      <4>1. open \subseteq Nat
        OBVIOUS
      <4> HIDE DEF open
      <4> QED BY <1>3, <4>1, LeastOf
    <3> QED BY <3>1
  <2> HIDE DEF f
  <2>3. f \in 1..n /\ m \in Searches(n) /\ ~m.ok /\ m.held = s.held /\ m.seen = s.seen \cup {f}
    BY <1>1, <2>2 DEF Searches
  <2>4. CASE s.held[f] = 0
    <3>1. moved = [ok |-> TRUE, seen |-> s.seen \cup {f}, held |-> s.held]
      BY <1>1, <2>3, <2>4 DEF Searches
    <3> HIDE DEF moved
    <3>2. r = [ok |-> TRUE, seen |-> s.seen \cup {f}, held |-> [s.held EXCEPT ![f] = b]]
      BY <2>1, <3>1
    <3>3. Won(edges, n, b, s, r)
      BY <2>2, <2>4, <3>2, TakesFree
    <3> QED BY <3>3 DEF Ended
  <2>5. CASE s.held[f] # 0
    <3> DEFINE c == s.held[f]
    <3>1. c \in 1..n /\ moved = again[c][m]
      BY <1>1, <2>3, <2>5
    <3>2. Begun(edges, n, c, m)
      BY <2>3, <2>5 DEF Begun, Once
    <3>3. Ended(edges, n, k, c, m, moved)
      BY <2>3, <3>1, <3>2
    <3> HIDE DEF moved, m
    <3>4. CASE Won(edges, n, c, m, moved)
      <4>1. r = [moved EXCEPT !.held[f] = b]
        BY <2>1, <3>4 DEF Won
      <4>2. Won(edges, n, b, s, r)
        BY <2>2, <2>5, <3>4, <4>1, TakesOver DEF m
      <4> QED BY <4>2 DEF Ended
    <3>5. CASE Lost(edges, n, k, c, m, moved)
      <4>1. r = again[b][moved] /\ moved \in Searches(n) /\ moved.held = s.held /\ m.seen \subseteq moved.seen
            /\ ~moved.ok
        BY <2>1, <2>3, <3>5 DEF Lost
      <4>2. Begun(edges, n, b, moved)
        BY <2>3, <4>1 DEF Begun
      <4>3. Ended(edges, n, k, b, moved, r)
        BY <4>1, <4>2
      <4>4. CASE Won(edges, n, b, moved, r)
        <5>1. s.seen \subseteq moved.seen
          BY <2>3, <4>1
        <5>2. PICK h \in (1..n) \ moved.seen :
                    /\ r.held[h] = b
                    /\ Once(r.held, (1..n) \ {h})
                    /\ Holders(r.held, (1..n) \ {h}) = Holders(s.held, 1..n)
          BY <4>1, <4>4 DEF Won
        <5>3. h \in (1..n) \ s.seen
          BY <5>1
        <5>4. /\ r \in Searches(n) /\ r.ok /\ Along(edges, n, r.held)
              /\ \A g \in s.seen : r.held[g] = s.held[g]
          BY <4>1, <4>4, <5>1 DEF Won
        <5> QED BY <5>2, <5>3, <5>4 DEF Won, Ended
      <4>5. CASE Lost(edges, n, k, b, moved, r)
        <5>1. r \in Searches(n) /\ ~r.ok /\ r.held = s.held /\ s.seen \subseteq r.seen /\ moved.seen \subseteq r.seen
          BY <2>3, <4>1, <4>5 DEF Lost
        <5>2. ASSUME Cardinality((1..n) \ s.seen) <= k + 1
              PROVE  Stuck(edges, b, s, r)
          <6>1. /\ Cardinality((1..n) \ m.seen) <= k
                /\ Cardinality((1..n) \ moved.seen) <= k
            <7>1. IsFiniteSet(1..n) /\ IsFiniteSet((1..n) \ s.seen) /\ IsFiniteSet((1..n) \ m.seen)
              <8>1. IsFiniteSet(1..n)
                BY FS_Interval
              <8>2. (1..n) \ s.seen \in SUBSET (1..n) /\ (1..n) \ m.seen \in SUBSET (1..n)
                OBVIOUS
              <8> QED BY <8>1, <8>2, FS_Subset
            <7>2. (1..n) \ m.seen = ((1..n) \ s.seen) \ {f}
              BY <2>3
            <7>3. Cardinality((1..n) \ m.seen) = Cardinality((1..n) \ s.seen) - 1
              <8>1. f \in (1..n) \ s.seen
                BY <2>2, <2>3
              <8>2. Cardinality(((1..n) \ s.seen) \ {f}) = Cardinality((1..n) \ s.seen) - 1
                BY <7>1, <8>1, FS_RemoveElement
              <8> QED BY <7>2, <8>2
            <7>4. (1..n) \ moved.seen \subseteq (1..n) \ m.seen
              BY <4>1
            <7>5. IsFiniteSet((1..n) \ moved.seen)
                  /\ Cardinality((1..n) \ moved.seen) <= Cardinality((1..n) \ m.seen)
              BY <7>1, <7>4, FS_Subset
            <7>6. /\ Cardinality((1..n) \ s.seen) \in Nat
                  /\ Cardinality((1..n) \ m.seen) \in Nat
                  /\ Cardinality((1..n) \ moved.seen) \in Nat
              BY <7>1, <7>5, FS_CardinalityType
            <7> HIDE DEF open, c
            <7> QED BY <5>2, <7>3, <7>5, <7>6
          <6>2. Stuck(edges, c, m, moved) /\ Stuck(edges, b, moved, r)
            BY <3>5, <4>5, <6>1 DEF Lost
          <6>3. edges[b] \subseteq r.seen
            BY <6>2 DEF Stuck
          <6>4. ASSUME NEW g \in r.seen \ s.seen
                PROVE  s.held[g] # 0 /\ edges[s.held[g]] \subseteq r.seen
            <7>1. CASE g = f
              BY <2>5, <5>1, <6>2, <7>1 DEF Stuck
            <7>2. CASE g \in moved.seen \ m.seen
              BY <2>3, <5>1, <6>2, <7>2 DEF Stuck
            <7>3. CASE g \in r.seen \ moved.seen
              BY <4>1, <6>2, <7>3 DEF Stuck
            <7> QED BY <2>3, <6>4, <7>1, <7>2, <7>3
          <6> QED BY <6>3, <6>4 DEF Stuck
        <5> QED BY <5>1, <5>2 DEF Ended, Lost
      <4> QED BY <4>3, <4>4, <4>5 DEF Ended
    <3> QED BY <3>3, <3>4, <3>5 DEF Ended
  <2> QED BY <2>4, <2>5
<1> QED BY <1>2, <1>3

(* With as many attempts as deposits, a search ends as it should.           *)
LEMMA AssignEnds ==
    ASSUME NEW n \in Nat, NEW edges \in [1..n -> SUBSET (1..n)],
           NEW b \in 1..n, NEW s, Begun(edges, n, b, s)
    PROVE  Ended(edges, n, n, b, s, Assign(edges, n)[b][s])
<1>1. PICK assign : /\ \A k \in 0..n : assign[k] = Level(edges, n, k, assign[k - 1])
                    /\ Assign(edges, n) = assign[n]
  BY AssignIs
<1> DEFINE Ends(k) == \A c \in 1..n, t \in Searches(n) :
                          Begun(edges, n, c, t) => Ended(edges, n, k, c, t, assign[k][c][t])
           B == {k \in 0..n : ~Ends(k)}
<1>2. Ends(0)
  <2>1. SUFFICES ASSUME NEW c \in 1..n, NEW t \in Searches(n), Begun(edges, n, c, t)
                 PROVE  Ended(edges, n, 0, c, t, assign[0][c][t])
    OBVIOUS
  <2>2. assign[0][c][t] = t
    <3>1. assign[0] = Level(edges, n, 0, assign[0 - 1])
      BY <1>1
    <3> QED BY <2>1, <3>1, LevelIs
  <2>3. ASSUME Cardinality((1..n) \ t.seen) <= 0
        PROVE  Stuck(edges, c, t, t)
    <3>1. IsFiniteSet((1..n) \ t.seen)
      BY FS_Interval, FS_Subset
    <3>2. Cardinality((1..n) \ t.seen) \in Nat
      BY <3>1, FS_CardinalityType
    <3>3. Cardinality((1..n) \ t.seen) = 0
      BY <2>3, <3>2
    <3>4. (1..n) \ t.seen = {}
      BY <3>1, <3>3, FS_EmptySet
    <3>5. edges[c] \subseteq 1..n
      BY <2>1
    <3> QED BY <3>4, <3>5 DEF Stuck
  <2>4. ~t.ok
    BY <2>1 DEF Begun
  <2> QED BY <2>1, <2>2, <2>3, <2>4 DEF Ended, Lost
<1>3. ASSUME NEW k \in 1..n, Ends(k - 1)
      PROVE  Ends(k)
  <2>1. SUFFICES ASSUME NEW c \in 1..n, NEW t \in Searches(n), Begun(edges, n, c, t)
                 PROVE  Ended(edges, n, k, c, t, assign[k][c][t])
    OBVIOUS
  <2>2. assign[k][c][t] = Attempt(edges, assign[k - 1], c, t)
    <3>1. k \in 0..n /\ k # 0
      OBVIOUS
    <3>2. assign[k] = Level(edges, n, k, assign[k - 1])
      BY <1>1, <3>1
    <3> QED BY <2>1, <3>1, <3>2, LevelIs
  <2>3. Ended(edges, n, (k - 1) + 1, c, t, Attempt(edges, assign[k - 1], c, t))
    <3>1. k - 1 \in Nat
      OBVIOUS
    <3> QED BY <1>3, <2>1, <3>1, AttemptEnds
  <2>4. (k - 1) + 1 = k
    OBVIOUS
  <2> QED BY <2>2, <2>3, <2>4
<1> HIDE DEF Ends
<1>4. B = {}
  <2>1. SUFFICES ASSUME B # {} PROVE FALSE
    OBVIOUS
  <2>2. B \subseteq Nat
    OBVIOUS
  <2>3. PICK k \in B : \A c \in B : k <= c
    <3> HIDE DEF B
    <3> QED BY <2>1, <2>2, LeastOf
  <2>4. k \in 1..n
    BY <1>2, <2>3
  <2>5. k - 1 \in 0..n /\ k - 1 \notin B
    <3>1. k - 1 \in 0..n /\ k \in Nat
      BY <2>4
    <3> HIDE DEF B
    <3> QED BY <2>3, <3>1
  <2> QED BY <1>3, <2>4, <2>5
<1>5. Ends(n)
  BY <1>4
<1>6. s \in Searches(n)
  BY DEF Begun
<1> QED BY <1>1, <1>5, <1>6 DEF Ends

(* Where the search for b is stuck, no assignment exists (Hall's condition  *)
(* fails: the debits that share the deposits seen are one too many).        *)
LEMMA StuckForGood ==
    ASSUME NEW n \in Nat, NEW edges \in [1..n -> SUBSET (1..n)], NEW b \in 1..n, NEW s,
           NEW r, r \in Searches(n), Stuck(edges, b, s, r), s.seen = {},
           Along(edges, n, s.held), Once(s.held, 1..n), \A f \in 1..n : s.held[f] # b
    PROVE  Matchings(edges) = {}
<1> SUFFICES ASSUME NEW m \in Matchings(edges) PROVE FALSE
  OBVIOUS
<1> DEFINE Z == r.seen
           held == s.held
<1>1. /\ m \in [1..n -> 1..n] /\ \A c \in 1..n : m[c] \in edges[c]
      /\ \A c, d \in 1..n : m[c] = m[d] => c = d
  BY DEF Matchings
<1>2. /\ Z \subseteq 1..n /\ edges[b] \subseteq Z
      /\ \A g \in Z : held[g] \in 1..n /\ edges[held[g]] \subseteq Z
      /\ \A f, g \in Z : held[f] = held[g] => f = g
      /\ \A g \in Z : held[g] # b
  BY DEF Stuck, Searches, Along, Once
<1> HIDE DEF Z, held
<1> DEFINE moved == [g \in Z |-> m[held[g]]]
<1>3. moved \in [Z -> Z]
  BY <1>1, <1>2
<1>4. \A f, g \in Z : moved[f] = moved[g] => f = g
  BY <1>1, <1>2
<1>5. moved \in Injection(Z, Z)
  <2> HIDE DEF moved
  <2> QED BY <1>3, <1>4 DEF Injection, IsInjective
<1>6. IsFiniteSet(Z)
  <2>1. IsFiniteSet(1..n) /\ Z \in SUBSET (1..n)
    BY <1>2, FS_Interval
  <2> QED BY <2>1, FS_Subset
<1>7. moved \in Surjection(Z, Z)
  <2> HIDE DEF moved
  <2> QED BY <1>5, <1>6, FS_Injection
<1>8. PICK g \in Z : moved[g] = m[b]
  <2>1. m[b] \in Z
    BY <1>1, <1>2
  <2> HIDE DEF moved
  <2> QED BY <1>7, <2>1 DEF Surjection
<1>9. held[g] = b
  BY <1>1, <1>2, <1>8
<1> QED BY <1>2, <1>9

(* The debits up to b have a deposit each, or no assignment exists.         *)
Provided(edges, n, b, a) ==
    /\ a.found => Along(edges, n, a.held) /\ Once(a.held, 1..n) /\ Holders(a.held, 1..n) = 1..b
    /\ ~a.found => Matchings(edges) = {}

LEMMA AugmentedIs ==
    ASSUME NEW n \in Nat, NEW edges \in [1..n -> SUBSET (1..n)], NEW b \in 1..n,
           NEW before, Provided(edges, n, b - 1, before)
    PROVE  Provided(edges, n, b, Augmented(edges, n, b, before))
<1>1. CASE ~before.found
  BY <1>1 DEF Augmented, Provided
<1>2. CASE before.found
  <2> DEFINE s == [ok |-> FALSE, seen |-> {}, held |-> before.held]
             r == Assign(edges, n)[b][s]
             a == Augmented(edges, n, b, before)
  <2>1. a.found = r.ok /\ a.held = r.held
    BY <1>2 DEF Augmented
  <2>2. /\ Along(edges, n, before.held) /\ Once(before.held, 1..n)
        /\ Holders(before.held, 1..n) = 1..(b - 1)
    BY <1>2 DEF Provided
  <2>3. \A f \in 1..n : before.held[f] # b
    <3>1. SUFFICES ASSUME NEW f \in 1..n, before.held[f] = b PROVE FALSE
      OBVIOUS
    <3>2. b \in Holders(before.held, 1..n)
      BY <3>1 DEF Holders
    <3>3. b \in 1..(b - 1)
      BY <2>2, <3>2
    <3> QED BY <3>3
  <2>4. /\ s.held = before.held /\ s.seen = {} /\ s \in Searches(n) /\ ~s.ok
    BY <2>2 DEF Along, Searches
  <2> HIDE DEF s
  <2>5. Begun(edges, n, b, s)
    BY <2>2, <2>3, <2>4 DEF Begun
  <2>6. Ended(edges, n, n, b, s, r)
    BY <2>5, AssignEnds
  <2> HIDE DEF r, a
  <2>7. CASE Won(edges, n, b, s, r)
    <3>1. PICK f \in 1..n : /\ r.held[f] = b
                            /\ Once(r.held, (1..n) \ {f})
                            /\ Holders(r.held, (1..n) \ {f}) = 1..(b - 1)
      BY <2>2, <2>4, <2>7 DEF Won
    <3>2. a.found /\ Along(edges, n, a.held)
      BY <2>1, <2>7 DEF Won
    <3>3. ASSUME NEW g \in (1..n) \ {f}
          PROVE  r.held[g] # b
      <4>1. SUFFICES ASSUME r.held[g] = b PROVE FALSE
        OBVIOUS
      <4>2. b \in 1..(b - 1)
        BY <3>1, <3>3, <4>1 DEF Holders
      <4> QED BY <4>2
    <3>4. Once(a.held, 1..n)
      BY <2>1, <3>1, <3>3 DEF Once
    <3>5. Holders(a.held, 1..n) = 1..b
      <4>1. Holders(r.held, 1..n) = Holders(r.held, (1..n) \ {f}) \cup {b}
        BY <3>1 DEF Holders
      <4>2. 1..b = (1..(b - 1)) \cup {b}
        OBVIOUS
      <4> QED BY <2>1, <3>1, <4>1, <4>2
    <3> QED BY <3>2, <3>4, <3>5 DEF Provided, a
  <2>8. CASE Lost(edges, n, n, b, s, r)
    <3>1. Cardinality((1..n) \ s.seen) <= n
      <4>1. Cardinality(1..n) = n
        BY FS_Interval
      <4>2. (1..n) \ s.seen = 1..n
        BY <2>4
      <4>3. Cardinality((1..n) \ s.seen) = n
        BY <4>1, <4>2, Zenon
      <4>4. n <= n
        OBVIOUS
      <4> QED BY <4>3, <4>4, Zenon
    <3>2. Stuck(edges, b, s, r) /\ ~r.ok /\ r \in Searches(n)
      BY <2>8, <3>1 DEF Lost
    <3>3. Matchings(edges) = {}
      BY <2>2, <2>3, <2>4, <3>2, StuckForGood
    <3> QED BY <2>1, <3>2, <3>3 DEF Provided, a
  <2> QED BY <2>6, <2>7, <2>8 DEF Ended, a
<1> QED BY <1>1, <1>2

LEMMA AugmentEnds ==
    ASSUME NEW n \in Nat, NEW edges \in [1..n -> SUBSET (1..n)]
    PROVE  Provided(edges, n, n, Augment(edges, n))
<1>1. PICK augment : /\ augment[0] = Unheld(n)
                     /\ \A b \in 1..n : augment[b] = Augmented(edges, n, b, augment[b - 1])
                     /\ Augment(edges, n) = augment[n]
  BY AugmentIs
<1> DEFINE Ends(b) == Provided(edges, n, b, augment[b])
           B == {b \in 0..n : ~Ends(b)}
<1>2. Ends(0)
  <2> DEFINE none == Unheld(n)
  <2>1. none.found = TRUE /\ none.held \in [1..n -> 0..n] /\ \A f \in 1..n : none.held[f] = 0
    BY DEF Unheld
  <2> HIDE DEF none
  <2>2. Along(edges, n, none.held) /\ Once(none.held, 1..n)
    BY <2>1 DEF Along, Once
  <2>3. Holders(none.held, 1..n) = 1..0
    <3>1. Holders(none.held, 1..n) = {}
      BY <2>1 DEF Holders
    <3> QED BY <3>1
  <2> QED BY <1>1, <2>1, <2>2, <2>3 DEF Provided, none
<1>3. ASSUME NEW b \in 1..n, Ends(b - 1)
      PROVE  Ends(b)
  BY <1>1, <1>3, AugmentedIs
<1> HIDE DEF Ends
<1>4. B = {}
  <2>1. SUFFICES ASSUME B # {} PROVE FALSE
    OBVIOUS
  <2>2. B \subseteq Nat
    OBVIOUS
  <2>3. PICK b \in B : \A c \in B : b <= c
    <3> HIDE DEF B
    <3> QED BY <2>1, <2>2, LeastOf
  <2>4. b \in 1..n
    BY <1>2, <2>3
  <2>5. b - 1 \in 0..n /\ b - 1 \notin B
    <3>1. b - 1 \in 0..n /\ b \in Nat
      BY <2>4
    <3> HIDE DEF B
    <3> QED BY <2>3, <3>1
  <2> QED BY <1>3, <2>4, <2>5
<1>5. Ends(n)
  BY <1>4
<1> QED BY <1>1, <1>5 DEF Ends

LEMMA OnlyMatchingIs ==
    ASSUME NEW n \in Nat, NEW edges \in [1..n -> SUBSET (1..n)], NEW m \in OnlyMatching(edges)
    PROVE  /\ OnlyMatching(edges) = {m} /\ m \in [1..n -> 1..n]
           /\ \A b \in 1..n : m[b] \in edges[b]
           /\ \A b, c \in 1..n : m[b] = m[c] => b = c
<1> DEFINE M == Matchings(edges)
           D == 1..n
           graph == [f \in M |-> {<<b, f[b]>> : b \in D}]
<1>1. M \subseteq [D -> D] /\ \A f \in M : /\ \A b \in D : f[b] \in edges[b]
                                          /\ \A b, c \in D : f[b] = f[c] => b = c
  BY DEF Matchings
<1>2. Cardinality(M) = 1 /\ OnlyMatching(edges) = M /\ m \in M
  BY DEF OnlyMatching
<1> HIDE DEF M
<1>3. IsFiniteSet(SUBSET (D \X D))
  <2>1. IsFiniteSet(D)
    BY FS_Interval
  <2>2. IsFiniteSet(D \X D)
    BY <2>1, FS_Product
  <2> QED BY <2>2, FS_SUBSET
<1>4. graph \in Injection(M, SUBSET (D \X D))
  <2> HIDE DEF D
  <2>1. graph \in [M -> SUBSET (D \X D)]
    BY <1>1
  <2>2. ASSUME NEW f \in M, NEW g \in M, graph[f] = graph[g]
        PROVE  f = g
    <3>1. ASSUME NEW b \in D
          PROVE  f[b] = g[b]
      <4>1. <<b, f[b]>> \in {<<c, g[c]>> : c \in D}
        BY <2>2
      <4> QED BY <4>1
    <3> QED BY <1>1, <3>1
  <2>3. IsInjective(graph)
    BY <2>1, <2>2 DEF IsInjective
  <2> QED BY <2>1, <2>3 DEF Injection
<1> HIDE DEF graph
<1>5. IsFiniteSet(M)
  BY <1>3, <1>4, FS_Injection
<1>6. PICK f : M = {f}
  BY <1>2, <1>5, FS_Singleton
<1> QED BY <1>1, <1>2, <1>6

\* The debits are numbered as the edges are.
LEMMA PerfectMatchingIs ==
    ASSUME NEW n \in Nat, NEW edges \in [1..n -> SUBSET (1..n)], NEW excluded
    PROVE  LET found == PerfectMatching(edges, excluded)
               left == Matchings(Allowing(edges, excluded))
           IN  /\ found \subseteq left
               /\ found = {} <=> left = {}
               /\ \A m, o \in found : m = o
<1> DEFINE E == Allowing(edges, excluded)
           a == Augment(E, n)
           m == [b \in 1..n |-> CHOOSE f \in 1..n : a.held[f] = b]
           found == PerfectMatching(edges, excluded)
<1>1. E \in [1..n -> SUBSET (1..n)] /\ DOMAIN E = 1..n
  BY DEF Allowing
<1>2. Cardinality(DOMAIN edges) = n
  <2>1. DOMAIN edges = 1..n
    OBVIOUS
  <2>2. Cardinality(1..n) = n
    BY FS_Interval
  <2> QED BY <2>1, <2>2, Zenon
<1>3. found = IF a.found THEN {m} ELSE {}
  <2> DEFINE Result(k) == IF Augment(E, k).found
                          THEN {[b \in 1..k |-> CHOOSE f \in 1..k : Augment(E, k).held[f] = b]}
                          ELSE {}
  <2>1. found = Result(Cardinality(DOMAIN edges))
    BY DEF PerfectMatching
  <2>2. Result(Cardinality(DOMAIN edges)) = Result(n)
    <3> HIDE DEF Result
    <3> QED BY <1>2
  <2>3. found = Result(n)
    BY <2>1, <2>2, Zenon
  <2> QED BY <2>3, Zenon
<1> HIDE DEF E
<1>4. Provided(E, n, n, a)
  BY <1>1, AugmentEnds
<1> HIDE DEF a, found
<1>5. CASE ~a.found
  <2>1. Matchings(E) = {}
    BY <1>4, <1>5 DEF Provided
  <2>2. found = {}
    BY <1>3, <1>5
  <2> QED BY <2>1, <2>2 DEF E, found
<1>6. CASE a.found
  <2>1. Along(E, n, a.held) /\ Holders(a.held, 1..n) = 1..n
    BY <1>4, <1>6 DEF Provided
  <2>2. ASSUME NEW b \in 1..n
        PROVE  m[b] \in 1..n /\ a.held[m[b]] = b
    <3>1. b \in Holders(a.held, 1..n)
      BY <2>1
    <3>2. \E f \in 1..n : a.held[f] = b
      BY <3>1 DEF Holders
    <3> QED BY <3>2
  <2>3. m \in [1..n -> 1..n]
    BY <2>2
  <2> HIDE DEF m
  <2>4. m \in Matchings(E)
    <3>1. ASSUME NEW b \in 1..n PROVE m[b] \in E[b]
      <4>1. \A f \in 1..n : a.held[f] # 0 => f \in E[a.held[f]]
        BY <2>1 DEF Along
      <4>2. m[b] \in 1..n /\ a.held[m[b]] = b /\ b # 0
        BY <2>2
      <4> QED BY <4>1, <4>2
    <3> QED BY <1>1, <2>2, <2>3, <3>1 DEF Matchings
  <2> QED BY <1>3, <1>6, <2>4 DEF E, found
<1> QED BY <1>5, <1>6 DEF found

(* The search is exact: it finds the only assignment there is, or none      *)
(* (reconciliation.py:710-775).                                             *)
LEMMA SearchIsExact ==
    ASSUME NEW n \in Nat, NEW edges \in [1..n -> SUBSET (1..n)]
    PROVE  UniqueMatching(edges) = OnlyMatching(edges)
<1> DEFINE M == Matchings(edges)
           first == PerfectMatching(edges, NoEdge)
<1>1. /\ first \subseteq M /\ (first = {} <=> M = {}) /\ \A m, o \in first : m = o
  <2>1. Allowing(edges, NoEdge) = edges
    <3>1. ASSUME NEW b \in 1..n PROVE {f \in edges[b] : <<b, f>> # NoEdge} = edges[b]
      <4>1. edges[b] \subseteq 1..n
        OBVIOUS
      <4> QED BY <4>1 DEF NoEdge
    <3> QED BY <3>1 DEF Allowing
  <2> QED BY <2>1, PerfectMatchingIs
<1>2. \A m \in M : m \in [1..n -> 1..n]
  BY DEF Matchings
<1>3. ASSUME NEW m \in M, NEW b \in 1..n
      PROVE  PerfectMatching(edges, <<b, m[b]>>) = {} <=> \A o \in M : o[b] = m[b]
  <2>1. Matchings(Allowing(edges, <<b, m[b]>>)) = {o \in M : o[b] # m[b]}
    <3> DEFINE E == Allowing(edges, <<b, m[b]>>)
    <3>1. DOMAIN E = 1..n /\ DOMAIN edges = 1..n
          /\ \A c \in 1..n : E[c] = {f \in edges[c] : <<c, f>> # <<b, m[b]>>}
      BY DEF Allowing
    <3> HIDE DEF E
    <3>2. ASSUME NEW o \in [1..n -> 1..n]
          PROVE  (\A c \in 1..n : o[c] \in E[c]) <=> (\A c \in 1..n : o[c] \in edges[c]) /\ o[b] # m[b]
      BY <3>1
    <3> QED BY <3>1, <3>2 DEF Matchings, E
  <2> QED BY <2>1, PerfectMatchingIs
<1> HIDE DEF first
<1>4. UniqueMatching(edges) = {m \in first : \A o \in M : o = m}
  <2>1. ASSUME NEW m \in first
        PROVE  (\A b \in DOMAIN m : PerfectMatching(edges, <<b, m[b]>>) = {}) <=> (\A o \in M : o = m)
    <3>1. m \in M /\ m \in [1..n -> 1..n]
      BY <1>1, <1>2
    <3>2. (\A b \in DOMAIN m : PerfectMatching(edges, <<b, m[b]>>) = {})
             <=> (\A b \in 1..n : \A o \in M : o[b] = m[b])
      BY <1>3, <3>1
    <3>3. (\A b \in 1..n : \A o \in M : o[b] = m[b]) <=> (\A o \in M : o = m)
      <4> HIDE DEF M
      <4>1. ASSUME NEW o \in M, \A b \in 1..n : o[b] = m[b]
            PROVE  o = m
        BY <1>2, <3>1, <4>1
      <4> QED BY <4>1
    <3> QED BY <3>2, <3>3
  <2> QED BY <2>1 DEF UniqueMatching, first
<1>5. CASE \E m : M = {m}
  <2>1. PICK m : M = {m}
    BY <1>5
  <2> HIDE DEF M
  <2>2. UniqueMatching(edges) = M
    BY <1>1, <1>4, <2>1
  <2>3. Cardinality(M) = 1
    BY <2>1, FS_Singleton
  <2> QED BY <2>2, <2>3 DEF OnlyMatching, M
<1>6. CASE ~ \E m : M = {m}
  <2>1. OnlyMatching(edges) = {}
    <3>1. SUFFICES ASSUME NEW m \in OnlyMatching(edges) PROVE FALSE
      OBVIOUS
    <3>2. OnlyMatching(edges) = {m}
      BY OnlyMatchingIs
    <3>3. OnlyMatching(edges) = M
      BY DEF OnlyMatching
    <3> QED BY <1>6, <3>2, <3>3
  <2> HIDE DEF M
  <2>2. UniqueMatching(edges) = {}
    <3>1. SUFFICES ASSUME NEW m \in first, \A o \in M : o = m PROVE FALSE
      BY <1>4
    <3>2. m \in M
      BY <1>1
    <3>3. M = {m}
      BY <3>1, <3>2
    <3> QED BY <1>6, <3>3
  <2> QED BY <2>1, <2>2
<1> QED BY <1>5, <1>6

(* The search for exchange pairs is exact for any number of debits and      *)
(* deposits, and any rates between them that are acceptable                 *)
(* (reconciliation.py, _unique_exchange_assignment).                        *)
THEOREM SearchAlwaysExact == \A max \in Nat : ExactUpTo(max)
<1>1. ASSUME NEW max \in Nat, NEW n \in 1..max, NEW edges \in [1..n -> SUBSET (1..n)]
      PROVE  UniqueMatching(edges) = OnlyMatching(edges)
  BY SearchIsExact
<1> QED BY <1>1 DEF ExactUpTo

(* A finite set, numbered.                                                  *)
LEMMA SequenceOf ==
    ASSUME NEW S, IsFiniteSet(S)
    PROVE  LET s == SetToSeq(S)
               n == Cardinality(S)
           IN  /\ n \in Nat /\ s \in [1..n -> S] /\ DOMAIN s = 1..n
               /\ \A x \in S : \E i \in 1..n : s[i] = x
               /\ \A i, j \in 1..n : s[i] = s[j] => i = j
<1> DEFINE s == SetToSeq(S)
           n == Cardinality(S)
<1>1. n \in Nat /\ ExistsBijection(1..n, S)
  BY FS_CardinalityType
<1>2. \E f \in [1..n -> S] : IsInjective(f)
  BY <1>1 DEF ExistsBijection, Bijection, Injection
<1>3. s \in [1..n -> S] /\ IsInjective(s)
  BY <1>2 DEF SetToSeq
<1>4. s \in Injection(1..n, S) /\ IsFiniteSet(1..n) /\ Cardinality(1..n) = n
  <2>1. s \in Injection(1..n, S)
    BY <1>3 DEF Injection
  <2>2. IsFiniteSet(1..n) /\ Cardinality(1..n) = n
    BY <1>1, FS_Interval
  <2> QED BY <2>1, <2>2
<1>5. s \in Surjection(1..n, S)
  BY <1>4, FS_Injection
<1> HIDE DEF s, n
<1>6. \A x \in S : \E i \in 1..n : s[i] = x
  BY <1>5 DEF Surjection
<1>7. \A i, j \in 1..n : s[i] = s[j] => i = j
  BY <1>3 DEF IsInjective
<1> QED BY <1>1, <1>3, <1>6, <1>7 DEF s, n

-----------------------------------------------------------------------------
(* The events that exchanges are looked for in.                             *)
Debits(rows) == {x \in Free(rows) : IsDebit(x)}
Deposits(rows) == {x \in Free(rows) : IsDeposit(x)}
PlaceOf(e) == [day |-> e.day, inst |-> e.inst]

LEMMA EventIs ==
    ASSUME NEW rows, DOMAIN rows \subseteq Rows, NEW e \in Events(rows)
    PROVE  /\ e.debits = {x \in Debits(rows) : Place(x) = PlaceOf(e)}
           /\ e.deposits = {x \in Deposits(rows) : Place(x) = PlaceOf(e)}
           /\ e = Event(Debits(rows), Deposits(rows), PlaceOf(e))
           /\ IsFiniteSet(e.debits) /\ IsFiniteSet(e.deposits)
           /\ Cardinality(e.debits) = Cardinality(e.deposits)
           /\ \E x \in e.deposits : e.ccy = {Fact[x].ccy} /\ Fact[x].day = e.day
<1>1. PICK y \in Debits(rows) : e = Event(Debits(rows), Deposits(rows), Place(y))
  BY DEF Events, Debits, Deposits
<1>2. Cardinality(e.debits) = Cardinality(e.deposits) /\ Cardinality(e.ccy) = 1
  BY DEF Events
<1>3. /\ e.debits = {x \in Debits(rows) : Place(x) = Place(y)}
      /\ e.deposits = {x \in Deposits(rows) : Place(x) = Place(y)}
      /\ e.day = Place(y).day /\ e.inst = Place(y).inst
      /\ e.ccy = {Fact[x].ccy : x \in {z \in Deposits(rows) : Place(z) = Place(y)}}
  BY <1>1 DEF Event
<1>4. PlaceOf(e) = Place(y)
  BY <1>3 DEF PlaceOf, Place
<1>5. e.debits \subseteq Rows /\ e.deposits \subseteq Rows
  BY <1>3 DEF Debits, Deposits, Free
<1>6. IsFiniteSet(e.debits) /\ IsFiniteSet(e.deposits)
  BY <1>5, FiniteRows
<1>7. IsFiniteSet(e.ccy)
  <2> DEFINE f == [x \in e.deposits |-> Fact[x].ccy]
  <2>1. f \in Surjection(e.deposits, e.ccy)
    BY <1>3 DEF Surjection
  <2> HIDE DEF f
  <2> QED BY <1>6, <2>1, FS_Surjection
<1>8. PICK c : e.ccy = {c}
  BY <1>2, <1>7, OneElement
<1>9. PICK x \in e.deposits : Fact[x].ccy = c
  BY <1>3, <1>8
<1>10. Fact[x].day = e.day
  BY <1>3, <1>4 DEF Place, PlaceOf
<1> QED BY <1>1, <1>2, <1>3, <1>4, <1>6, <1>8, <1>9, <1>10

LEMMA EventsDiffer ==
    ASSUME NEW rows, DOMAIN rows \subseteq Rows, NEW e \in Events(rows), NEW f \in Events(rows),
           NEW x \in e.debits \cup e.deposits, x \in f.debits \cup f.deposits
    PROVE  e = f
<1>1. Place(x) = PlaceOf(e) /\ e = Event(Debits(rows), Deposits(rows), PlaceOf(e))
  BY EventIs
<1>2. Place(x) = PlaceOf(f) /\ f = Event(Debits(rows), Deposits(rows), PlaceOf(f))
  BY EventIs
<1> QED BY <1>1, <1>2

LEMMA OneReference ==
    ASSUME NEW rows, DOMAIN rows \subseteq Rows, NEW e \in Events(rows),
           NEW r \in ReferenceRate(Events(rows), e), NEW s \in ReferenceRate(Events(rows), e)
    PROVE  r = s
<1>1. PICK x \in e.deposits : e.ccy = {Fact[x].ccy} /\ Fact[x].day = e.day
  BY EventIs
<1>2. x \in Rows /\ IsDeposit(x)
  <2>1. e.deposits = {y \in Deposits(rows) : Place(y) = PlaceOf(e)}
    BY EventIs
  <2> QED BY <2>1 DEF Deposits, Free
<1>3. UNION {RateOf(ccy, e.day) : ccy \in e.ccy} = Rate[Fact[x].ccy, Fact[x].day]
  <2>1. UNION {RateOf(ccy, e.day) : ccy \in e.ccy} = RateOf(Fact[x].ccy, e.day)
    <3>1. \A ccy \in e.ccy : ccy = Fact[x].ccy
      BY <1>1
    <3>2. Fact[x].ccy \in e.ccy
      BY <1>1
    <3> QED BY <3>1, <3>2
  <2> QED BY <1>1, <2>1 DEF RateOf
<1>4. \A p, q \in Rate[Fact[x].ccy, Fact[x].day] : p = q
  BY <1>2, RatesAssumption DEF RatesAssumption, IsDeposit
<1>5. \A p, q \in CohortRate(Events(rows), e) : p = q
  BY DEF CohortRate
<1>6. \/ ReferenceRate(Events(rows), e) = Rate[Fact[x].ccy, Fact[x].day]
      \/ ReferenceRate(Events(rows), e) = CohortRate(Events(rows), e)
  <2>1. ReferenceRate(Events(rows), e) =
           IF Rate[Fact[x].ccy, Fact[x].day] # {} THEN Rate[Fact[x].ccy, Fact[x].day]
           ELSE CohortRate(Events(rows), e)
    BY <1>3, Zenon DEF ReferenceRate
  <2> QED BY <2>1
<1> QED BY <1>4, <1>5, <1>6

LEMMA TrialIs ==
    ASSUME NEW rows, DOMAIN rows \subseteq Rows, NEW e \in Events(rows), NEW r
    PROVE  LET t == Trial(e, r)
               n == Cardinality(e.debits)
           IN  /\ n \in Nat
               /\ t.debit \in [1..n -> e.debits] /\ t.deposit \in [1..n -> e.deposits]
               /\ \A i, j \in 1..n : t.debit[i] = t.debit[j] => i = j
               /\ \A i, j \in 1..n : t.deposit[i] = t.deposit[j] => i = j
               /\ t.edges \in [1..n -> SUBSET (1..n)]
               /\ \A b \in 1..n : t.edges[b] = {f \in 1..n : MayExchange(t.debit[b], t.deposit[f], r)}
<1> DEFINE t == Trial(e, r)
           n == Cardinality(e.debits)
           debit == SetToSeq(e.debits)
           deposit == SetToSeq(e.deposits)
<1>1. IsFiniteSet(e.debits) /\ IsFiniteSet(e.deposits) /\ Cardinality(e.deposits) = n
  BY EventIs
<1>2. /\ n \in Nat /\ debit \in [1..n -> e.debits] /\ DOMAIN debit = 1..n
      /\ \A i, j \in 1..n : debit[i] = debit[j] => i = j
  BY <1>1, SequenceOf
<1>3. /\ deposit \in [1..n -> e.deposits] /\ DOMAIN deposit = 1..n
      /\ \A i, j \in 1..n : deposit[i] = deposit[j] => i = j
  BY <1>1, SequenceOf
<1>4. /\ t.debit = debit /\ t.deposit = deposit
      /\ t.edges = [b \in DOMAIN debit |-> {f \in DOMAIN deposit : MayExchange(debit[b], deposit[f], r)}]
  BY TabulatedIs DEF Trial
<1> HIDE DEF t, n, debit, deposit
<1> QED BY <1>2, <1>3, <1>4 DEF t, n

LEMMA ExchangePairsAre ==
    ASSUME NEW rows, DOMAIN rows \subseteq Rows
    PROVE  LET P == PairsAmong(Events(rows)) IN
           /\ P \subseteq Debits(rows) \X Deposits(rows)
           /\ \A p, q \in P : p[1] = q[1] \/ p[2] = q[2] => p = q
           /\ P = UNION {PairsBy(t, OnlyMatching(t.edges)) : t \in Trials(Events(rows))}
<1> DEFINE P == PairsAmong(Events(rows))
           E == Events(rows)
<1>1. ASSUME NEW t \in Trials(E)
      PROVE  /\ UniqueMatching(t.edges) = OnlyMatching(t.edges)
             /\ \E e \in E : \E r \in ReferenceRate(E, e) :
                   /\ t = Trial(e, r)
                   /\ \A p \in PairsBy(t, OnlyMatching(t.edges)) :
                         p \in e.debits \X e.deposits
                   /\ \A p, q \in PairsBy(t, OnlyMatching(t.edges)) : p[1] = q[1] \/ p[2] = q[2] => p = q
  <2>1. PICK e \in E : \E r \in ReferenceRate(E, e) : t = Trial(e, r)
    BY <1>1 DEF Trials
  <2>2. PICK r \in ReferenceRate(E, e) : t = Trial(e, r)
    BY <2>1
  <2> DEFINE n == Cardinality(e.debits)
  <2>3. /\ n \in Nat
        /\ t.debit \in [1..n -> e.debits] /\ t.deposit \in [1..n -> e.deposits]
        /\ \A i, j \in 1..n : t.debit[i] = t.debit[j] => i = j
        /\ \A i, j \in 1..n : t.deposit[i] = t.deposit[j] => i = j
        /\ t.edges \in [1..n -> SUBSET (1..n)]
    BY <2>2, TrialIs
  <2> HIDE DEF n, E, P
  <2>4. UniqueMatching(t.edges) = OnlyMatching(t.edges)
    BY <2>3, SearchIsExact
  <2>5. ASSUME NEW p \in PairsBy(t, OnlyMatching(t.edges)), NEW q \in PairsBy(t, OnlyMatching(t.edges))
        PROVE  p \in e.debits \X e.deposits /\ (p[1] = q[1] \/ p[2] = q[2] => p = q)
    <3>1. PICK m \in OnlyMatching(t.edges) : TRUE
      BY <2>5 DEF PairsBy
    <3>2. /\ OnlyMatching(t.edges) = {m} /\ m \in [1..n -> 1..n]
          /\ \A b, c \in 1..n : m[b] = m[c] => b = c
      BY <2>3, <3>1, OnlyMatchingIs
    <3>3. PairsBy(t, OnlyMatching(t.edges)) = {<<t.debit[b], t.deposit[m[b]]>> : b \in 1..n}
      BY <3>2 DEF PairsBy
    <3>4. PICK b \in 1..n : p = <<t.debit[b], t.deposit[m[b]]>>
      BY <2>5, <3>3
    <3>5. PICK c \in 1..n : q = <<t.debit[c], t.deposit[m[c]]>>
      BY <2>5, <3>3
    <3>6. m[b] \in 1..n /\ m[c] \in 1..n
      BY <3>2
    <3>7. p \in e.debits \X e.deposits
      BY <2>3, <3>4, <3>6
    <3>8. p[1] = t.debit[b] /\ q[1] = t.debit[c] /\ p[2] = t.deposit[m[b]] /\ q[2] = t.deposit[m[c]]
      BY <3>4, <3>5
    <3>9. p[1] = q[1] \/ p[2] = q[2] => b = c
      BY <2>3, <3>2, <3>6, <3>8
    <3> QED BY <3>4, <3>5, <3>7, <3>9
  <2> QED BY <2>2, <2>4, <2>5
<1>2. P = UNION {PairsBy(t, OnlyMatching(t.edges)) : t \in Trials(E)}
  BY <1>1 DEF PairsAmong
<1> HIDE DEF P
<1>3. ASSUME NEW p \in P
      PROVE  \E e \in E : \E r \in ReferenceRate(E, e) :
                /\ p \in PairsBy(Trial(e, r), OnlyMatching(Trial(e, r).edges))
                /\ p \in e.debits \X e.deposits
                /\ \A q \in PairsBy(Trial(e, r), OnlyMatching(Trial(e, r).edges)) :
                      p[1] = q[1] \/ p[2] = q[2] => p = q
  <2>1. PICK t \in Trials(E) : p \in PairsBy(t, OnlyMatching(t.edges))
    BY <1>2, <1>3
  <2> QED BY <1>1, <2>1
<1>4. ASSUME NEW p \in P
      PROVE  p \in Debits(rows) \X Deposits(rows)
  <2>1. PICK e \in E : p \in e.debits \X e.deposits
    BY <1>3, <1>4
  <2>2. e.debits \subseteq Debits(rows) /\ e.deposits \subseteq Deposits(rows)
    BY EventIs
  <2> QED BY <2>1, <2>2
<1>5. ASSUME NEW p \in P, NEW q \in P, p[1] = q[1] \/ p[2] = q[2]
      PROVE  p = q
  <2>1. PICK e \in E : \E r \in ReferenceRate(E, e) :
                /\ p \in e.debits \X e.deposits
                /\ \A s \in PairsBy(Trial(e, r), OnlyMatching(Trial(e, r).edges)) :
                      p[1] = s[1] \/ p[2] = s[2] => p = s
    BY <1>3, <1>5
  <2>2. PICK f \in E : \E s \in ReferenceRate(E, f) :
                /\ q \in PairsBy(Trial(f, s), OnlyMatching(Trial(f, s).edges))
                /\ q \in f.debits \X f.deposits
    BY <1>3, <1>5
  <2>3. e = f
    <3>1. p[1] \in e.debits /\ p[2] \in e.deposits /\ q[1] \in f.debits /\ q[2] \in f.deposits
      BY <2>1, <2>2
    <3>2. \E x \in e.debits \cup e.deposits : x \in f.debits \cup f.deposits
      BY <1>5, <3>1
    <3> QED BY <3>2, EventsDiffer
  <2>4. PICK r \in ReferenceRate(E, e) :
           \A s \in PairsBy(Trial(e, r), OnlyMatching(Trial(e, r).edges)) :
                 p[1] = s[1] \/ p[2] = s[2] => p = s
    BY <2>1
  <2>5. PICK s \in ReferenceRate(E, f) : q \in PairsBy(Trial(f, s), OnlyMatching(Trial(f, s).edges))
    BY <2>2
  <2>6. r = s
    BY <2>3, OneReference
  <2> QED BY <1>5, <2>3, <2>4, <2>5, <2>6
<1> QED BY <1>2, <1>4, <1>5 DEF P

-----------------------------------------------------------------------------
(* The rows after exchanges.                                                *)
Leg(rows, x) ==
    LET d == rows[x] IN
    /\ d.pair = None /\ d.status = "paired" /\ d.flow = "internal_transfer"
    /\ d.src = "reconciliation" /\ d.cat = "Internal Transfer"
    /\ d.partner \in DOMAIN rows \ {x}
    /\ rows[d.partner].partner = x /\ rows[d.partner].group = "exchange"
    /\ d.value = {-v : v \in rows[d.partner].value}
Crossed(rows) ==
    /\ Function(rows) /\ DOMAIN rows \subseteq Rows
    /\ \A x \in DOMAIN rows :
          /\ Sound(x, rows[x])
          /\ rows[x].group = "exchange" => Leg(rows, x)
          /\ rows[x].group # "exchange" =>
                /\ rows[x].value = Value(x)
                /\ rows[x].pair = None => Open(x, rows[x])
                /\ rows[x].pair # None => PairedBy(rows, x) \/ LeftOpen(rows, x)

LEMMA DebitValue ==
    ASSUME NEW x \in Rows, IsDebit(x)
    PROVE  Value(x) = {-v : v \in {Abs(Fact[x].amt)}} /\ {Abs(Fact[x].amt)} = {-v : v \in Value(x)}
<1>1. Fact[x].amt \in Int /\ Fact[x].amt < 0 /\ Value(x) = {Fact[x].amt}
  BY FactsAssumption DEF FactsAssumption, IsDebit, Value
<1>2. Abs(Fact[x].amt) = -Fact[x].amt
  BY <1>1 DEF Abs
<1> QED BY <1>1, <1>2

LEMMA LegIs ==
    ASSUME NEW x, NEW d, Sound(x, d), NEW y, NEW v
    PROVE  LET e == PairedAcrossCurrencies(d, y, v) IN
           /\ Sound(x, e) /\ Answered(e)
           /\ e.cat = "Internal Transfer" /\ e.flow = "internal_transfer" /\ e.src = "reconciliation"
           /\ e.value = v /\ e.partner = y /\ e.group = "exchange" /\ e.status = "paired"
           /\ Kept(d, e, {"cat", "flow", "src", "value", "reasons", "needs", "partner", "group", "status"})
<1> DEFINE e == PairedAcrossCurrencies(d, y, v)
<1>1. Treated(d)
  BY DEF Sound
<1>2. /\ Treated(e)
      /\ Kept(d, e, {"cat", "flow", "src", "value", "reasons", "needs", "partner", "group", "status"})
      /\ e.cat = "Internal Transfer" /\ e.flow = "internal_transfer" /\ e.src = "reconciliation"
      /\ e.value = v /\ e.partner = y /\ e.group = "exchange" /\ e.status = "paired"
      /\ e.reasons = d.reasons \ {"category", "suggestion", "flow"} /\ Asks(e)
  BY <1>1, PairedAcrossCurrenciesIs
<1> HIDE DEF e
<1>3. e.flags = d.flags
  BY <1>2 DEF Kept, Fields
<1>4. Sound(x, e)
  BY <1>2, <1>3 DEF Sound
<1>5. Answered(e)
  BY <1>2 DEF Answered
<1> QED BY <1>2, <1>4, <1>5 DEF e

LEMMA ExchangesAre ==
    ASSUME NEW B, Named(B)
    PROVE  LET C == WithExchanges(B)
               P == PairsAmong(Events(B))
           IN  /\ Crossed(C) /\ DOMAIN C = DOMAIN B
               /\ \A x \in DOMAIN B :
                     /\ C[x].pair = B[x].pair /\ C[x].owner = B[x].owner
                     /\ C[x].group # "exchange" => C[x] = B[x]
                     /\ Answered(B[x]) => Answered(C[x])
                     /\ C[x].group = "exchange" <=> \E p \in P : x = p[1] \/ x = p[2]
               /\ \A x \in DOMAIN B : \A p \in P :
                     /\ x = p[1] => C[x].partner = p[2]
                     /\ x = p[2] => C[x].partner = p[1]
<1> DEFINE C == WithExchanges(B)
           P == PairsAmong(Events(B))
<1>1. C = Exchanged(B, P)
  BY TabulatedIs DEF WithExchanges
<1>2. Function(B) /\ DOMAIN B \subseteq Rows
  BY DEF Named
<1>3. P \subseteq Debits(B) \X Deposits(B) /\ \A p, q \in P : p[1] = q[1] \/ p[2] = q[2] => p = q
  BY <1>2, ExchangePairsAre
<1> HIDE DEF P, C
<1>4. Function(C) /\ DOMAIN C = DOMAIN B
  BY <1>1 DEF Exchanged, Function
<1>5. ASSUME NEW x \in DOMAIN B, ~ \E p \in P : x = p[1] \/ x = p[2]
      PROVE  C[x] = B[x] /\ C[x].group # "exchange"
  <2>1. C[x] = B[x]
    BY <1>1, <1>5 DEF Exchanged
  <2>2. B[x].group # "exchange"
    BY NoneAssumption DEF NoneAssumption, Named, Open, PairedBy, LeftOpen
  <2> QED BY <2>1, <2>2
<1>6. ASSUME NEW p \in P
      PROVE  /\ p = <<p[1], p[2]>> /\ p[1] \in DOMAIN B /\ p[2] \in DOMAIN B /\ p[1] # p[2]
             /\ IsDebit(p[1]) /\ ~IsDebit(p[2]) /\ ~IsDeposit(p[1])
             /\ B[p[1]].pair = None /\ B[p[2]].pair = None
             /\ C[p[1]] = PairedAcrossCurrencies(B[p[1]], p[2], Value(p[1]))
             /\ C[p[2]] = PairedAcrossCurrencies(B[p[2]], p[1], {Abs(Fact[p[1]].amt)})
  <2>1. p = <<p[1], p[2]>> /\ p[1] \in Debits(B) /\ p[2] \in Deposits(B)
    BY <1>3
  <2>2. /\ p[1] \in DOMAIN B /\ p[2] \in DOMAIN B /\ IsDebit(p[1]) /\ IsDeposit(p[2])
        /\ B[p[1]].pair = None /\ B[p[2]].pair = None
    BY <2>1 DEF Debits, Deposits, Free
  <2>3. ~IsDebit(p[2]) /\ ~IsDeposit(p[1]) /\ p[1] # p[2]
    BY <2>2 DEF IsDebit, IsDeposit
  <2>4. ASSUME NEW q \in P
        PROVE  /\ q[2] # p[1] /\ q[1] # p[2]
               /\ p[1] = q[1] => q = p
               /\ p[2] = q[2] => q = p
    <3>1. q[1] \in Debits(B) /\ q[2] \in Deposits(B)
      BY <1>3
    <3>2. IsDebit(q[1]) /\ IsDeposit(q[2])
      BY <3>1 DEF Debits, Deposits
    <3> QED BY <1>3, <2>3, <3>2
  <2>5. (CHOOSE q \in P : p[1] = q[1]) = p /\ (CHOOSE q \in P : p[2] = q[2]) = p
    BY <2>4
  <2>6. B[p[1]].value = Value(p[1])
    BY <2>2 DEF Named
  <2>7. C[p[1]] = PairedAcrossCurrencies(B[p[1]], p[2], Value(p[1]))
    BY <1>1, <2>2, <2>5, <2>6 DEF Exchanged
  <2>8. C[p[2]] = PairedAcrossCurrencies(B[p[2]], p[1], {Abs(Fact[p[1]].amt)})
    <3>1. (\E q \in P : p[2] = q[2]) /\ ~ \E q \in P : p[2] = q[1]
      BY <2>4
    <3> QED BY <1>1, <2>2, <2>5, <3>1 DEF Exchanged
  <2> QED BY <2>1, <2>2, <2>3, <2>7, <2>8
<1>7. ASSUME NEW p \in P
      PROVE  /\ Leg(C, p[1]) /\ Leg(C, p[2])
             /\ C[p[1]].group = "exchange" /\ C[p[2]].group = "exchange"
             /\ C[p[1]].partner = p[2] /\ C[p[2]].partner = p[1]
             /\ Sound(p[1], C[p[1]]) /\ Sound(p[2], C[p[2]]) /\ Answered(C[p[1]]) /\ Answered(C[p[2]])
             /\ C[p[1]].pair = B[p[1]].pair /\ C[p[1]].owner = B[p[1]].owner
             /\ C[p[2]].pair = B[p[2]].pair /\ C[p[2]].owner = B[p[2]].owner
  <2> DEFINE debit == p[1]
             deposit == p[2]
  <2>1. /\ debit \in DOMAIN B /\ deposit \in DOMAIN B /\ debit # deposit /\ IsDebit(debit)
        /\ B[debit].pair = None /\ B[deposit].pair = None
        /\ C[debit] = PairedAcrossCurrencies(B[debit], deposit, Value(debit))
        /\ C[deposit] = PairedAcrossCurrencies(B[deposit], debit, {Abs(Fact[debit].amt)})
    BY <1>6
  <2> HIDE DEF debit, deposit
  <2>2. /\ Sound(debit, C[debit]) /\ Answered(C[debit])
        /\ C[debit].cat = "Internal Transfer" /\ C[debit].flow = "internal_transfer" /\ C[debit].src = "reconciliation"
        /\ C[debit].value = Value(debit) /\ C[debit].partner = deposit /\ C[debit].group = "exchange" /\ C[debit].status = "paired"
        /\ C[debit].pair = B[debit].pair /\ C[debit].owner = B[debit].owner
    <3>1. C[debit] = PairedAcrossCurrencies(B[debit], deposit, Value(debit)) /\ Sound(debit, B[debit])
      BY <2>1 DEF Named
    <3>2. LET e == PairedAcrossCurrencies(B[debit], deposit, Value(debit)) IN
          /\ Sound(debit, e) /\ Answered(e)
          /\ e.cat = "Internal Transfer" /\ e.flow = "internal_transfer" /\ e.src = "reconciliation"
          /\ e.value = Value(debit) /\ e.partner = deposit /\ e.group = "exchange" /\ e.status = "paired"
          /\ Kept(B[debit], e, {"cat", "flow", "src", "value", "reasons", "needs", "partner", "group", "status"})
      BY <3>1, LegIs
    <3> QED BY <3>1, <3>2 DEF Kept, Fields
  <2>3. /\ Sound(deposit, C[deposit]) /\ Answered(C[deposit])
        /\ C[deposit].cat = "Internal Transfer" /\ C[deposit].flow = "internal_transfer" /\ C[deposit].src = "reconciliation"
        /\ C[deposit].value = {Abs(Fact[debit].amt)} /\ C[deposit].partner = debit /\ C[deposit].group = "exchange"
        /\ C[deposit].status = "paired" /\ C[deposit].pair = B[deposit].pair /\ C[deposit].owner = B[deposit].owner
    <3>1. /\ deposit \in DOMAIN B /\ B[deposit].pair = None
          /\ C[deposit] = PairedAcrossCurrencies(B[deposit], debit, {Abs(Fact[debit].amt)})
      BY <2>1
    <3>2. Sound(deposit, B[deposit])
      BY <2>1 DEF Named
    <3>3. LET e == PairedAcrossCurrencies(B[deposit], debit, {Abs(Fact[debit].amt)}) IN
          /\ Sound(deposit, e) /\ Answered(e)
          /\ e.cat = "Internal Transfer" /\ e.flow = "internal_transfer" /\ e.src = "reconciliation"
          /\ e.value = {Abs(Fact[debit].amt)} /\ e.partner = debit /\ e.group = "exchange" /\ e.status = "paired"
          /\ Kept(B[deposit], e, {"cat", "flow", "src", "value", "reasons", "needs", "partner", "group", "status"})
      BY <3>2, LegIs
    <3> QED BY <3>1, <3>3 DEF Kept, Fields
  <2>4. C[debit].value = {-v : v \in C[deposit].value} /\ C[deposit].value = {-v : v \in C[debit].value}
    <3>1. debit \in Rows
      BY <1>2, <2>1
    <3> QED BY <2>1, <2>2, <2>3, <3>1, DebitValue
  <2>5. Leg(C, debit) /\ Leg(C, deposit)
    BY <1>4, <2>1, <2>2, <2>3, <2>4 DEF Leg
  <2> QED BY <2>2, <2>3, <2>5 DEF debit, deposit
<1>8. ASSUME NEW x \in DOMAIN B
      PROVE  /\ C[x].pair = B[x].pair /\ C[x].owner = B[x].owner
             /\ C[x].group # "exchange" => C[x] = B[x]
             /\ Answered(B[x]) => Answered(C[x])
             /\ C[x].group = "exchange" <=> \E p \in P : x = p[1] \/ x = p[2]
             /\ Sound(x, C[x])
             /\ C[x].group = "exchange" => Leg(C, x)
  <2>1. CASE \E p \in P : x = p[1] \/ x = p[2]
    BY <1>7, <2>1
  <2>2. CASE ~ \E p \in P : x = p[1] \/ x = p[2]
    BY <1>5, <2>2 DEF Named
  <2> QED BY <2>1, <2>2
<1>9. ASSUME NEW x \in DOMAIN B, C[x].group # "exchange"
       PROVE  /\ C[x].value = Value(x)
              /\ C[x].pair = None => Open(x, C[x])
              /\ C[x].pair # None => PairedBy(C, x) \/ LeftOpen(C, x)
  <2>1. C[x] = B[x]
    BY <1>8, <1>9
  <2>2. CASE B[x].pair = None
    BY <2>1, <2>2 DEF Named
  <2>3. CASE B[x].pair # None /\ LeftOpen(B, x)
    BY <2>1, <2>3 DEF Named, LeftOpen
  <2>4. CASE B[x].pair # None /\ PairedBy(B, x)
    <3>1. /\ B[x].partner \in DOMAIN B \ {x} /\ B[B[x].partner].pair # None
      BY <2>4 DEF PairedBy
    <3>2. C[B[x].partner] = B[B[x].partner]
      <4>1. ~ \E p \in P : B[x].partner = p[1] \/ B[x].partner = p[2]
        BY <1>6, <3>1
      <4> QED BY <1>5, <3>1, <4>1
    <3>3. PairedBy(C, x)
      BY <1>4, <2>1, <2>4, <3>1, <3>2 DEF PairedBy
    <3> QED BY <2>1, <2>4, <3>3 DEF Named
  <2> QED BY <2>2, <2>3, <2>4 DEF Named
<1>10. Crossed(C)
  BY <1>2, <1>4, <1>8, <1>9 DEF Crossed
<1> QED BY <1>4, <1>7, <1>8, <1>10 DEF C, P

-----------------------------------------------------------------------------
(* What the facts say of two rows whose values are opposite.                *)
Opposite(x, y) == Value(x) = {-v : v \in Value(y)}

LEMMA ProductSign ==
    ASSUME NEW a \in Int, NEW b \in Nat \ {0}
    PROVE  a * b < 0 <=> a < 0
  OBVIOUS

LEMMA DivisionSign ==
    ASSUME NEW a \in Int, NEW b \in Nat \ {0}
    PROVE  a \div b \in Int /\ (a \div b < 0 <=> a < 0)
  OBVIOUS

\* A value has its amount's sign.
LEMMA ValueIs ==
    ASSUME NEW x \in Rows, Value(x) # {}
    PROVE  \E v \in Int : Value(x) = {v} /\ (v < 0 <=> Fact[x].amt < 0)
<1>1. Fact[x].amt \in Int
  BY FactsAssumption DEF FactsAssumption
<1>2. CASE Fact[x].ccy = Base
  BY <1>1, <1>2 DEF Value
<1>3. CASE Fact[x].ccy # Base
  <2> DEFINE rates == Rate[Fact[x].ccy, Fact[x].day]
  <2>1. Value(x) = {(Fact[x].amt * rate[1]) \div rate[2] : rate \in rates}
    BY <1>3 DEF Value, RateOf
  <2>2. rates \subseteq (Nat \ {0}) \X (Nat \ {0}) /\ \A r, s \in rates : r = s
    BY <1>3, RatesAssumption DEF RatesAssumption
  <2> HIDE DEF rates
  <2>3. PICK rate \in rates : TRUE
    BY <2>1
  <2>4. rate[1] \in Nat \ {0} /\ rate[2] \in Nat \ {0}
    BY <2>2
  <2> DEFINE p == Fact[x].amt * rate[1]
             v == p \div rate[2]
  <2>5. p \in Int /\ (p < 0 <=> Fact[x].amt < 0)
    BY <1>1, <2>4, ProductSign
  <2>6. Value(x) = {v}
    BY <2>1, <2>2
  <2> HIDE DEF p
  <2>7. v \in Int /\ (v < 0 <=> p < 0)
    BY <2>4, <2>5, DivisionSign
  <2> QED BY <2>5, <2>6, <2>7
<1> QED BY <1>2, <1>3

LEMMA OppositeIs ==
    ASSUME NEW x \in Rows, NEW y \in Rows, Opposite(x, y), Value(x) # {}, Value(x) # {0}
    PROVE  /\ Opposite(y, x) /\ Value(y) # {} /\ Value(y) # {0} /\ x # y
           /\ Fact[x].amt < 0 <=> ~(Fact[y].amt < 0)
<1>1. Value(y) # {}
  BY DEF Opposite
<1>2. PICK v \in Int : Value(x) = {v} /\ (v < 0 <=> Fact[x].amt < 0)
  BY ValueIs
<1>3. PICK w \in Int : Value(y) = {w} /\ (w < 0 <=> Fact[y].amt < 0)
  BY <1>1, ValueIs
<1>4. v = -w
  BY <1>2, <1>3 DEF Opposite
<1>5. v # 0
  BY <1>2
<1>6. Opposite(y, x)
  BY <1>2, <1>3, <1>4 DEF Opposite
<1> QED BY <1>1, <1>2, <1>3, <1>4, <1>5, <1>6

LEMMA TransferFlowIs ==
    ASSUME NEW a, NEW b, NEW f \in TransferFlow(a, b)
    PROVE  /\ f \in Transfers /\ TransferFlow(a, b) = {f}
           /\ {a, b} \subseteq {"bank", "credit_card", "investment"}
  BY DEF TransferFlow, Transfers

LEMMA BetweenIs ==
    ASSUME NEW x \in Rows, NEW y \in Rows, Fact[x].amt < 0 <=> ~(Fact[y].amt < 0), x # y
    PROVE  /\ Between(x, y) = Between(y, x)
           /\ \A f \in Between(x, y) :
                 /\ f \in Transfers /\ Between(x, y) = {f}
                 /\ {Fact[x].type, Fact[y].type} \subseteq {"bank", "credit_card", "investment"}
<1>1. CASE Fact[x].amt < 0
  <2>1. Between(x, y) = TransferFlow(Fact[x].type, Fact[y].type)
    BY <1>1 DEF Between
  <2>2. Between(y, x) = TransferFlow(Fact[x].type, Fact[y].type)
    BY <1>1 DEF Between
  <2> QED BY <2>1, <2>2, TransferFlowIs
<1>2. CASE ~(Fact[x].amt < 0)
  <2>1. Between(x, y) = TransferFlow(Fact[y].type, Fact[x].type)
    BY <1>2 DEF Between
  <2>2. Between(y, x) = TransferFlow(Fact[y].type, Fact[x].type)
    BY <1>2 DEF Between
  <2> QED BY <2>1, <2>2, TransferFlowIs
<1> QED BY <1>1, <1>2

LEMMA DistanceIs ==
    ASSUME NEW x \in Rows, NEW y \in Rows
    PROVE  Distance(x, y) \in Nat /\ Distance(x, y) = Distance(y, x)
  BY FactsAssumption DEF FactsAssumption, Distance, Abs

-----------------------------------------------------------------------------
(* The candidates and the partner of a row.                                 *)
LEMMA CandidatesAre ==
    ASSUME NEW C, DOMAIN C \subseteq Rows
    PROVE  LET cands == Candidates(C) IN
           /\ DOMAIN cands = Eligible(C) /\ Eligible(C) \subseteq DOMAIN C
           /\ \A x \in Eligible(C) :
                 /\ cands[x] = {y \in Eligible(C) : MayTransfer(C, x, y)}
                 /\ IsFiniteSet(cands[x])
           /\ \A x, y \in Eligible(C) : y \in cands[x] =>
                 /\ x \in cands[y] /\ x # y /\ Opposite(x, y)
                 /\ Fact[x].amt < 0 <=> ~(Fact[y].amt < 0)
<1> DEFINE cands == Candidates(C)
<1>1. cands = [x \in Eligible(C) |-> {y \in Eligible(C) : MayTransfer(C, x, y)}]
  BY TabulatedIs DEF Candidates, CandidatesAmong
<1> HIDE DEF cands
<1>2. Eligible(C) \subseteq DOMAIN C
  BY DEF Eligible
<1>3. ASSUME NEW x \in Eligible(C)
      PROVE  IsFiniteSet(cands[x])
  <2>1. cands[x] \subseteq Rows
    BY <1>1, <1>2
  <2> QED BY <2>1, FiniteRows
<1>4. ASSUME NEW x \in Eligible(C), NEW y \in Eligible(C), y \in cands[x]
      PROVE  /\ x \in cands[y] /\ x # y /\ Opposite(x, y)
             /\ Fact[x].amt < 0 <=> ~(Fact[y].amt < 0)
  <2>1. MayTransfer(C, x, y)
    BY <1>1, <1>4
  <2>2. x \in Rows /\ y \in Rows
    BY <1>2
  <2>3. Opposite(x, y) /\ Value(x) # {} /\ Value(x) # {0}
    BY <2>1 DEF MayTransfer, Opposite, Eligible
  <2>4. Opposite(y, x) /\ x # y /\ (Fact[x].amt < 0 <=> ~(Fact[y].amt < 0))
    BY <2>2, <2>3, OppositeIs
  <2>5. Between(y, x) = Between(x, y) /\ Distance(x, y) = Distance(y, x)
    BY <2>2, <2>4, BetweenIs, DistanceIs
  <2>6. {y, x} = {x, y}
    OBVIOUS
  <2>7. MayTransfer(C, y, x)
    BY <2>1, <2>4, <2>5, <2>6 DEF MayTransfer, Opposite
  <2> QED BY <1>1, <2>3, <2>4, <2>7
<1> QED BY <1>1, <1>2, <1>3, <1>4 DEF cands

LEMMA BestIs ==
    ASSUME NEW cands, NEW x \in DOMAIN cands, IsFiniteSet(cands[x]), NEW y \in Best(cands, x)
    PROVE  /\ Best(cands, x) = {y} /\ y \in cands[x]
           /\ \A z \in cands[x] : Distance(x, y) <= Distance(x, z)
           /\ \A w \in cands[x] : (\A z \in cands[x] : Distance(x, w) <= Distance(x, z)) => w = y
<1> DEFINE nearest == {w \in cands[x] : \A z \in cands[x] : Distance(x, w) <= Distance(x, z)}
<1>1. Best(cands, x) = IF Cardinality(nearest) = 1 THEN nearest ELSE {}
  BY DEF Best
<1>2. \A w : w \in nearest <=> w \in cands[x] /\ \A z \in cands[x] : Distance(x, w) <= Distance(x, z)
  OBVIOUS
<1> HIDE DEF nearest
<1>3. IsFiniteSet(nearest)
  <2>1. nearest \subseteq cands[x]
    BY <1>2
  <2> QED BY <2>1, FS_Subset
<1>4. Cardinality(nearest) = 1 /\ Best(cands, x) = nearest
  BY <1>1
<1>5. PICK w : nearest = {w}
  BY <1>3, <1>4, OneElement
<1> QED BY <1>2, <1>4, <1>5

LEMMA TransferPartnerIs ==
    ASSUME NEW C, DOMAIN C \subseteq Rows, NEW x \in Eligible(C), NEW y \in TransferPartner(Candidates(C), x)
    PROVE  LET cands == Candidates(C) IN
           /\ y \in Eligible(C) /\ y # x /\ MayTransfer(C, x, y) /\ Opposite(x, y)
           /\ TransferPartner(cands, x) = {y} /\ TransferPartner(cands, y) = {x}
           /\ Between(x, y) = Between(y, x)
           /\ \E f \in Transfers :
                 /\ Between(x, y) = {f}
                 /\ \A z \in {x, y} : Explicit(C[z]) => C[z].flow = f
           /\ \A z \in Eligible(C) : MayTransfer(C, x, z) /\ Distance(x, z) <= Distance(x, y) => z = y
<1> DEFINE cands == Candidates(C)
<1>1. /\ DOMAIN cands = Eligible(C) /\ Eligible(C) \subseteq DOMAIN C
      /\ \A u \in Eligible(C) :
            cands[u] = {w \in Eligible(C) : MayTransfer(C, u, w)} /\ IsFiniteSet(cands[u])
      /\ \A u, w \in Eligible(C) : w \in cands[u] =>
            /\ u \in cands[w] /\ u # w /\ Opposite(u, w)
            /\ Fact[u].amt < 0 <=> ~(Fact[w].amt < 0)
  BY CandidatesAre
<1> HIDE DEF cands
<1>2. y \in Best(cands, x) /\ x \in Best(cands, y)
  BY DEF TransferPartner, cands
<1>3. /\ Best(cands, x) = {y} /\ y \in cands[x]
      /\ \A z \in cands[x] : Distance(x, y) <= Distance(x, z)
      /\ \A w \in cands[x] : (\A z \in cands[x] : Distance(x, w) <= Distance(x, z)) => w = y
  BY <1>1, <1>2, BestIs
<1>4. y \in Eligible(C) /\ MayTransfer(C, x, y) /\ y # x /\ Opposite(x, y)
  BY <1>1, <1>3
<1>5. Best(cands, y) = {x}
  BY <1>1, <1>2, <1>4, BestIs
<1>6. TransferPartner(cands, x) = {y} /\ TransferPartner(cands, y) = {x}
  BY <1>2, <1>3, <1>5 DEF TransferPartner
<1>7. x \in Rows /\ y \in Rows /\ (Fact[x].amt < 0 <=> ~(Fact[y].amt < 0))
  BY <1>1, <1>3, <1>4
<1>8. Between(x, y) = Between(y, x)
  BY <1>4, <1>7, BetweenIs
<1>9. PICK f \in Between(x, y) : \A z \in {x, y} : Explicit(C[z]) => C[z].flow = f
  BY <1>4 DEF MayTransfer
<1>10. f \in Transfers /\ Between(x, y) = {f}
  BY <1>4, <1>7, BetweenIs
<1>11. ASSUME NEW z \in Eligible(C), MayTransfer(C, x, z), Distance(x, z) <= Distance(x, y)
       PROVE  z = y
  <2>1. z \in cands[x]
    BY <1>1, <1>11
  <2>2. ASSUME NEW w \in cands[x]
        PROVE  Distance(x, z) <= Distance(x, w)
    <3>1. Distance(x, y) <= Distance(x, w)
      BY <1>3
    <3>2. w \in Rows /\ z \in Rows
      BY <1>1
    <3>3. Distance(x, y) \in Nat /\ Distance(x, z) \in Nat /\ Distance(x, w) \in Nat
      BY <1>7, <3>2, DistanceIs
    <3> QED BY <1>11, <3>1, <3>3
  <2> QED BY <1>3, <2>1, <2>2
<1> QED BY <1>4, <1>6, <1>8, <1>9, <1>10, <1>11 DEF cands

-----------------------------------------------------------------------------
(* The rows after transfers.                                                *)
LEMMA EligibleIs ==
    ASSUME NEW C, Crossed(C), NEW x \in Eligible(C)
    PROVE  Open(x, C[x]) /\ C[x].group = None /\ C[x].pair = None /\ C[x].partner = None
<1>1. x \in DOMAIN C /\ C[x].status # "paired" /\ C[x].pair = None
  BY DEF Eligible
<1>2. C[x].group # "exchange"
  BY <1>1 DEF Crossed, Leg
<1> QED BY <1>1, <1>2 DEF Crossed, Open

LEMMA TransfersAre ==
    ASSUME NEW C, Crossed(C)
    PROVE  LET T == WithTransfers(C) IN
           /\ Function(T) /\ DOMAIN T = DOMAIN C
           /\ \A x \in DOMAIN C :
                 /\ Kept(C[x], T[x], {"flow", "src", "partner", "group", "status", "reasons", "needs"})
                 /\ Sound(x, T[x])
                 /\ Explicit(T[x]) <=> Explicit(C[x])
                 /\ Explicit(C[x]) => T[x].flow = C[x].flow /\ T[x].src = C[x].src
                 /\ C[x].group # None => T[x] = C[x]
                 /\ C[x].group = None => T[x].group \in {None, "transfer"}
                 /\ T[x].group = None => T[x].partner = None /\ T[x].status # "paired"
                 /\ Answered(C[x]) => Answered(T[x])
                 /\ T[x].group = "transfer" =>
                       /\ x \in Eligible(C) /\ T[x].partner \in TransferPartner(Candidates(C), x)
                       /\ T[x].status = "paired" /\ T[x].flow \in Between(x, T[x].partner)
           /\ \A x \in Eligible(C) : \A y \in TransferPartner(Candidates(C), x) :
                 T[x].group = "transfer" /\ T[x].partner = y
<1> DEFINE T == WithTransfers(C)
           cands == Candidates(C)
           Same == {"flow", "src", "partner", "group", "status", "reasons", "needs"}
<1>1. T = Transferred(C, cands)
  BY TabulatedIs DEF WithTransfers
<1>2. DOMAIN cands = Eligible(C) /\ Eligible(C) \subseteq DOMAIN C /\ DOMAIN C \subseteq Rows
  BY CandidatesAre DEF Crossed
<1> HIDE DEF T
<1>3. Function(T) /\ DOMAIN T = DOMAIN C
  BY <1>1 DEF Function, Transferred
<1>4. ASSUME NEW x \in DOMAIN C, T[x] = Unmatched(C[x])
      PROVE  /\ Kept(C[x], T[x], Same) /\ Sound(x, T[x])
             /\ T[x].flow = C[x].flow /\ T[x].src = C[x].src
             /\ T[x].group = C[x].group /\ T[x].partner = C[x].partner
             /\ C[x].status = "paired" => T[x] = C[x]
             /\ C[x].status # "paired" => T[x].status # "paired"
             /\ Answered(C[x]) => Answered(T[x])
  <2> DEFINE d == C[x]
             e == T[x]
  <2>1. Sound(x, d) /\ e = Unmatched(d)
    BY <1>4 DEF Crossed
  <2> HIDE DEF d, e
  <2>2. /\ Treated(e) /\ Kept(d, e, {"status"})
        /\ e.status \in {d.status, "unmatched"}
    <3>1. Treated(d)
      BY <2>1 DEF Sound
    <3> QED BY <2>1, <3>1, UnmatchedIs
  <2>3. /\ e.flow = d.flow /\ e.src = d.src /\ e.group = d.group /\ e.partner = d.partner
        /\ e.reasons = d.reasons /\ e.cat = d.cat /\ e.flags = d.flags
    BY <2>2 DEF Kept, Fields
  <2>4. e.needs = d.needs
    BY <2>2 DEF Kept, Fields
  <2>5. Asks(e)
    BY <2>1, <2>3, <2>4, Zenon DEF Asks, Sound
  <2>6. Sound(x, e)
    BY <2>1, <2>2, <2>3, <2>5 DEF Sound
  <2>7. d.status = "paired" => e = d
    BY <2>1 DEF Unmatched
  <2>8. Kept(d, e, Same) /\ (Answered(d) => Answered(e))
    BY <2>2, <2>3 DEF Kept, Answered
  <2>9. d.status # "paired" => e.status # "paired"
    BY <2>2
  <2> QED BY <2>3, <2>6, <2>7, <2>8, <2>9 DEF d, e
<1>5. ASSUME NEW x \in Eligible(C), NEW y \in TransferPartner(cands, x)
      PROVE  /\ Kept(C[x], T[x], Same) /\ Sound(x, T[x])
             /\ Explicit(T[x]) <=> Explicit(C[x])
             /\ Explicit(C[x]) => T[x].flow = C[x].flow /\ T[x].src = C[x].src
             /\ T[x].group = "transfer" /\ T[x].partner = y /\ T[x].status = "paired"
             /\ T[x].flow \in Between(x, y)
             /\ Answered(C[x]) => Answered(T[x])
  <2> DEFINE d == C[x]
             e == T[x]
  <2>1. Open(x, d)
    BY EligibleIs
  <2>2. TransferPartner(cands, x) = {y}
    BY <1>2, TransferPartnerIs
  <2>3. PICK f \in Transfers : /\ Between(x, y) = {f}
                               /\ \A z \in {x, y} : Explicit(C[z]) => C[z].flow = f
    <3> HIDE DEF d, e
    <3> QED BY <1>2, TransferPartnerIs
  <2>4. e = PairedAsTransfer(x, y, d)
    BY <1>1, <1>2, <2>2 DEF Transferred
  <2>5. Explicit(d) => d.flow = f
    BY <2>3
  <2> HIDE DEF d, e, cands
  <2>6. /\ Treated(e) /\ Kept(d, e, {"flow", "src", "partner", "group", "status"})
        /\ Explicit(d) => e.flow = d.flow /\ e.src = d.src
        /\ ~Explicit(d) => e.flow = (CHOOSE flow \in Between(x, y) : TRUE) /\ e.src = "reconciliation"
        /\ e.partner = y /\ e.group = "transfer" /\ e.status = "paired"
    <3>1. Treated(d)
      BY <2>1 DEF Open
    <3>2. LET g == PairedAsTransfer(x, y, d) IN
          /\ Treated(g) /\ Kept(d, g, {"flow", "src", "partner", "group", "status"})
          /\ Explicit(d) => g.flow = d.flow /\ g.src = d.src
          /\ ~Explicit(d) => g.flow = (CHOOSE flow \in Between(x, y) : TRUE) /\ g.src = "reconciliation"
          /\ g.partner = y /\ g.group = "transfer" /\ g.status = "paired"
      BY <3>1, PairedAsTransferIs
    <3> QED BY <2>4, <3>2
  <2>7. (CHOOSE flow \in Between(x, y) : TRUE) = f
    BY <2>3
  <2>8. e.flow = f
    BY <2>5, <2>6, <2>7
  <2>9. e.cat = d.cat /\ e.reasons = d.reasons /\ e.flags = d.flags
    BY <2>6 DEF Kept, Fields
  <2>10. e.needs = d.needs
    BY <2>6 DEF Kept, Fields
  <2>11. Asks(e)
    BY <2>1, <2>9, <2>10, Zenon DEF Asks, Open
  <2>12. Sound(x, e)
    BY <2>1, <2>6, <2>9, <2>11 DEF Sound, Open
  <2>13. Answered(d) => Answered(e)
    BY <2>8, <2>9 DEF Answered, Transfers
  <2>14. Explicit(e) <=> Explicit(d)
    BY <2>6 DEF Explicit
  <2>15. Kept(d, e, Same)
    BY <2>6 DEF Kept
  <2> QED BY <2>3, <2>6, <2>8, <2>12, <2>13, <2>14, <2>15 DEF d, e
<1>6. ASSUME NEW x \in DOMAIN C, T[x] = AmbiguousRow(C[x]), x \in Eligible(C)
      PROVE  /\ Kept(C[x], T[x], Same) /\ Sound(x, T[x])
             /\ Explicit(T[x]) <=> Explicit(C[x])
             /\ Explicit(C[x]) => T[x].flow = C[x].flow /\ T[x].src = C[x].src
             /\ T[x].group = None /\ T[x].partner = None /\ T[x].status # "paired"
             /\ Answered(T[x])
  <2> DEFINE d == C[x]
             e == T[x]
  <2>1. Open(x, d) /\ d.group = None /\ d.partner = None
    BY <1>6, EligibleIs
  <2>2. e = AmbiguousRow(d)
    BY <1>6
  <2> HIDE DEF d, e
  <2>3. /\ Treated(e) /\ Kept(d, e, {"flow", "src", "status", "reasons", "needs"})
        /\ Explicit(d) => e.flow = d.flow /\ e.src = d.src
        /\ ~Explicit(d) => e.flow = "unresolved" /\ e.src = "reconciliation"
        /\ e.status = "ambiguous" /\ e.reasons = d.reasons \cup {"flow"} /\ Asks(e)
    <3>1. Treated(d)
      BY <2>1 DEF Open
    <3> QED BY <2>2, <3>1, AmbiguousRowIs
  <2>4. e.group = d.group /\ e.partner = d.partner /\ e.flags = d.flags
    BY <2>3 DEF Kept, Fields
  <2>5. Sound(x, e)
    BY <2>1, <2>3, <2>4 DEF Sound, Open
  <2>6. Answered(e)
    BY <2>3 DEF Answered
  <2>7. Explicit(e) <=> Explicit(d)
    BY <2>3 DEF Explicit
  <2>8. Kept(d, e, Same)
    BY <2>3 DEF Kept
  <2> QED BY <2>1, <2>3, <2>4, <2>5, <2>6, <2>7, <2>8 DEF d, e
<1>7. \A x \in DOMAIN C :
         \/ x \in Eligible(C) /\ TransferPartner(cands, x) # {}
         \/ x \in Eligible(C) /\ T[x] = AmbiguousRow(C[x])
         \/ T[x] = Unmatched(C[x])
  BY <1>1, <1>2 DEF Transferred
<1>8. ASSUME NEW x \in DOMAIN C
      PROVE  C[x].group # None => C[x].status = "paired" /\ x \notin Eligible(C)
  BY DEF Crossed, Open, PairedBy, LeftOpen, Leg, Eligible
<1>9. ASSUME NEW x \in DOMAIN C
      PROVE  C[x].group = None => C[x].partner = None /\ C[x].status # "paired"
  <2>1. C[x].group = None => C[x].group # "exchange" /\ C[x].group # "manual"
    BY NoneAssumption DEF NoneAssumption
  <2> QED BY <2>1 DEF Crossed, Open, PairedBy, LeftOpen
<1>10. ASSUME NEW x \in DOMAIN C
      PROVE  /\ Kept(C[x], T[x], Same)
             /\ Sound(x, T[x])
             /\ Explicit(T[x]) <=> Explicit(C[x])
             /\ Explicit(C[x]) => T[x].flow = C[x].flow /\ T[x].src = C[x].src
             /\ C[x].group # None => T[x] = C[x]
             /\ C[x].group = None => T[x].group \in {None, "transfer"}
             /\ T[x].group = None => T[x].partner = None /\ T[x].status # "paired"
             /\ Answered(C[x]) => Answered(T[x])
             /\ T[x].group = "transfer" =>
                   /\ x \in Eligible(C) /\ T[x].partner \in TransferPartner(cands, x)
                   /\ T[x].status = "paired" /\ T[x].flow \in Between(x, T[x].partner)
  <2>1. CASE x \in Eligible(C) /\ TransferPartner(cands, x) # {}
    <3>1. PICK y \in TransferPartner(cands, x) : TRUE
      BY <2>1
    <3>2. C[x].group = None
      BY <2>1, EligibleIs
    <3>3. T[x].group # None
      BY <1>5, <2>1, <3>1, NoneAssumption DEF NoneAssumption
    <3> QED BY <1>5, <2>1, <3>1, <3>2, <3>3
  <2>2. CASE x \in Eligible(C) /\ T[x] = AmbiguousRow(C[x])
    <3>1. C[x].group = None
      BY <2>2, EligibleIs
    <3>2. T[x].group # "transfer"
      BY <1>6, <2>2, NoneAssumption DEF NoneAssumption
    <3> QED BY <1>6, <2>2, <3>1, <3>2
  <2>3. CASE T[x] = Unmatched(C[x])
    <3>1. Explicit(T[x]) <=> Explicit(C[x])
      BY <1>4, <2>3 DEF Explicit
    <3>2. T[x].group # "transfer"
      BY <1>4, <2>3, NoneAssumption DEF NoneAssumption, Crossed, Open, PairedBy, LeftOpen
    <3> QED BY <1>4, <1>8, <1>9, <2>3, <3>1, <3>2
  <2> QED BY <1>7, <2>1, <2>2, <2>3
<1> QED BY <1>3, <1>5, <1>10 DEF T

-----------------------------------------------------------------------------
(* The whole reconciliation.                                                *)
Crossing(rows) == WithExchanges(WithManualPairs(WithFlows(rows)))
Legs(rows) == PairsAmong(Events(rows))

LEMMA EventsDependOnPairs ==
    ASSUME NEW rows, NEW others, DOMAIN rows = DOMAIN others, \A x \in DOMAIN rows : rows[x].pair = others[x].pair
    PROVE  Events(rows) = Events(others)
<1>1. Free(rows) = Free(others)
  BY DEF Free
<1> QED BY <1>1 DEF Events

LEMMA AllSynchronizedIs ==
    ASSUME NEW T, \A x \in DOMAIN T : Treated(T[x])
    PROVE  LET S == AllSynchronized(T) IN
           /\ Function(S) /\ DOMAIN S = DOMAIN T
           /\ \A x \in DOMAIN T :
                 /\ S[x] = Synchronized(T[x]) /\ Treated(S[x])
                 /\ Kept(T[x], S[x], {"reasons", "needs"}) /\ Asks(S[x])
                 /\ "flow" \in S[x].reasons => S[x].flow = "unresolved"
                 /\ Answered(T[x]) => Answered(S[x])
<1> DEFINE S == AllSynchronized(T)
<1>1. S = [x \in DOMAIN T |-> Synchronized(T[x])]
  BY TabulatedIs DEF AllSynchronized
<1> HIDE DEF S
<1>2. Function(S) /\ DOMAIN S = DOMAIN T
  BY <1>1 DEF Function
<1>3. ASSUME NEW x \in DOMAIN T
      PROVE  /\ S[x] = Synchronized(T[x]) /\ Treated(S[x])
             /\ Kept(T[x], S[x], {"reasons", "needs"}) /\ Asks(S[x])
             /\ "flow" \in S[x].reasons => S[x].flow = "unresolved"
             /\ Answered(T[x]) => Answered(S[x])
  <2> DEFINE d == T[x]
             e == S[x]
  <2>1. e = Synchronized(d) /\ Treated(d)
    BY <1>1
  <2> HIDE DEF d, e
  <2>2. /\ Treated(e) /\ Kept(d, e, {"reasons", "needs"}) /\ Asks(e)
        /\ "category" \in e.reasons <=> Pending(d) /\ d.cat = "Unknown"
        /\ "flow" \in e.reasons <=> Pending(d) /\ d.flow = "unresolved"
    BY <2>1, SynchronizedIs
  <2>3. e.flow = d.flow /\ e.cat = d.cat
    BY <2>2 DEF Kept, Fields
  <2>4. d.reasons # {} => Pending(d)
    BY DEF Pending
  <2>5. Answered(d) => Answered(e)
    BY <2>2, <2>3, <2>4 DEF Answered
  <2> QED BY <2>1, <2>2, <2>3, <2>5 DEF d, e
<1> QED BY <1>2, <1>3 DEF S

LEMMA CrossingIs ==
    ASSUME NEW rows, Plain(rows)
    PROVE  LET C == Crossing(rows)
               P == Legs(rows)
           IN  /\ Crossed(C) /\ DOMAIN C = DOMAIN rows /\ Legs(C) = P
               /\ \A x \in DOMAIN rows :
                     /\ C[x].pair = rows[x].pair /\ C[x].owner = rows[x].owner
                     /\ Answered(rows[x]) => Answered(C[x])
                     /\ C[x].group # "exchange" /\ C[x].pair = None => C[x] = WithFlow(x, rows[x])
                     /\ C[x].group = "exchange" <=> \E p \in P : x = p[1] \/ x = p[2]
               /\ \A x \in DOMAIN rows : \A p \in P :
                     /\ x = p[1] => C[x].partner = p[2]
                     /\ x = p[2] => C[x].partner = p[1]
               /\ P \subseteq {x \in DOMAIN rows : IsDebit(x)} \X {x \in DOMAIN rows : IsDeposit(x)}
               /\ P = UNION {PairsBy(t, OnlyMatching(t.edges)) : t \in Trials(Events(rows))}
<1> DEFINE A == WithFlows(rows)
           B == WithManualPairs(A)
           C == WithExchanges(B)
           P == Legs(rows)
<1>1. /\ Opened(A) /\ DOMAIN A = DOMAIN rows
      /\ \A x \in DOMAIN rows :
            /\ A[x] = WithFlow(x, rows[x]) /\ Kept(rows[x], A[x], {"flow", "src"})
            /\ Answered(rows[x]) => Answered(A[x])
  BY WithFlowsIs
<1> HIDE DEF A
<1>2. /\ Named(B) /\ DOMAIN B = DOMAIN A
      /\ \A x \in DOMAIN A :
            /\ B[x].pair = A[x].pair /\ B[x].owner = A[x].owner
            /\ A[x].pair = None => B[x] = A[x]
            /\ Answered(A[x]) => Answered(B[x])
  BY <1>1, ManualPairsAre
<1> HIDE DEF B
<1>3. /\ Crossed(C) /\ DOMAIN C = DOMAIN B
      /\ \A x \in DOMAIN B :
            /\ C[x].pair = B[x].pair /\ C[x].owner = B[x].owner
            /\ C[x].group # "exchange" => C[x] = B[x]
            /\ Answered(B[x]) => Answered(C[x])
            /\ C[x].group = "exchange" <=> \E p \in Legs(B) : x = p[1] \/ x = p[2]
      /\ \A x \in DOMAIN B : \A p \in Legs(B) :
            /\ x = p[1] => C[x].partner = p[2]
            /\ x = p[2] => C[x].partner = p[1]
  BY <1>2, ExchangesAre DEF Legs
<1> HIDE DEF C
<1>4. \A x \in DOMAIN rows : A[x].pair = rows[x].pair /\ A[x].owner = rows[x].owner
  BY <1>1 DEF Kept, Fields
<1>5. Legs(B) = P /\ Legs(C) = P
  BY <1>1, <1>2, <1>3, <1>4, EventsDependOnPairs DEF Legs
<1>6. C = Crossing(rows)
  BY DEF A, B, C, Crossing
<1>7. DOMAIN rows \subseteq Rows
  BY DEF Plain
<1>8. /\ P \subseteq Debits(rows) \X Deposits(rows)
      /\ P = UNION {PairsBy(t, OnlyMatching(t.edges)) : t \in Trials(Events(rows))}
  BY <1>7, ExchangePairsAre DEF Legs
<1>9. /\ Debits(rows) \subseteq {x \in DOMAIN rows : IsDebit(x)}
      /\ Deposits(rows) \subseteq {x \in DOMAIN rows : IsDeposit(x)}
  BY DEF Debits, Deposits, Free
<1>10. P \subseteq {x \in DOMAIN rows : IsDebit(x)} \X {x \in DOMAIN rows : IsDeposit(x)}
  BY <1>8, <1>9
<1> HIDE DEF P
<1>11. ASSUME NEW x \in DOMAIN rows
       PROVE  /\ C[x].pair = rows[x].pair /\ C[x].owner = rows[x].owner
              /\ Answered(rows[x]) => Answered(C[x])
              /\ C[x].group # "exchange" /\ C[x].pair = None => C[x] = WithFlow(x, rows[x])
              /\ C[x].group = "exchange" <=> \E p \in P : x = p[1] \/ x = p[2]
  BY <1>1, <1>2, <1>3, <1>4, <1>5
<1>12. DOMAIN C = DOMAIN rows
  BY <1>1, <1>2, <1>3
<1>13. \A x \in DOMAIN rows : \A p \in P :
            /\ x = p[1] => C[x].partner = p[2]
            /\ x = p[2] => C[x].partner = p[1]
  BY <1>1, <1>2, <1>3, <1>5
<1> QED BY <1>3, <1>5, <1>6, <1>8, <1>10, <1>11, <1>12, <1>13 DEF P

LEMMA ReconciledIs ==
    ASSUME NEW rows, Plain(rows)
    PROVE  LET C == Crossing(rows)
               S == Reconciled(rows)
           IN  /\ Function(S) /\ DOMAIN S = DOMAIN rows
               /\ \A x \in DOMAIN rows :
                     /\ Kept(C[x], S[x], {"flow", "src", "partner", "group", "status", "reasons", "needs"})
                     /\ Asks(S[x]) /\ Treated(S[x])
                     /\ Explicit(S[x]) <=> Explicit(C[x])
                     /\ Explicit(C[x]) => S[x].flow = C[x].flow /\ S[x].src = C[x].src
                     /\ C[x].group # None => Kept(C[x], S[x], {"reasons", "needs"})
                     /\ C[x].group = None => S[x].group \in {None, "transfer"}
                     /\ S[x].group = None => S[x].partner = None /\ S[x].status # "paired"
                     /\ Answered(rows[x]) => Answered(S[x])
                     /\ "flow" \in S[x].reasons => S[x].flow = "unresolved"
                     /\ S[x].group = "transfer" =>
                           /\ x \in Eligible(C) /\ S[x].partner \in TransferPartner(Candidates(C), x)
                           /\ S[x].status = "paired" /\ S[x].flow \in Between(x, S[x].partner)
               /\ \A x \in Eligible(C) : \A y \in TransferPartner(Candidates(C), x) :
                     S[x].group = "transfer" /\ S[x].partner = y
<1> DEFINE C == Crossing(rows)
           T == WithTransfers(C)
           S == AllSynchronized(T)
           Same == {"flow", "src", "partner", "group", "status", "reasons", "needs"}
<1>1. /\ Crossed(C) /\ DOMAIN C = DOMAIN rows
      /\ \A x \in DOMAIN rows : Answered(rows[x]) => Answered(C[x])
  BY CrossingIs
<1>2. S = Reconciled(rows)
  BY DEF Reconciled, Crossing
<1> HIDE DEF C
<1>3. /\ Function(T) /\ DOMAIN T = DOMAIN C
      /\ \A x \in DOMAIN C :
            /\ Kept(C[x], T[x], Same)
            /\ Sound(x, T[x])
            /\ Explicit(T[x]) <=> Explicit(C[x])
            /\ Explicit(C[x]) => T[x].flow = C[x].flow /\ T[x].src = C[x].src
            /\ C[x].group # None => T[x] = C[x]
            /\ C[x].group = None => T[x].group \in {None, "transfer"}
            /\ T[x].group = None => T[x].partner = None /\ T[x].status # "paired"
            /\ Answered(C[x]) => Answered(T[x])
            /\ T[x].group = "transfer" =>
                  /\ x \in Eligible(C) /\ T[x].partner \in TransferPartner(Candidates(C), x)
                  /\ T[x].status = "paired" /\ T[x].flow \in Between(x, T[x].partner)
      /\ \A x \in Eligible(C) : \A y \in TransferPartner(Candidates(C), x) :
            T[x].group = "transfer" /\ T[x].partner = y
  BY <1>1, TransfersAre
<1> HIDE DEF T
<1>4. /\ Function(S) /\ DOMAIN S = DOMAIN T
      /\ \A x \in DOMAIN T :
            /\ Treated(S[x]) /\ Kept(T[x], S[x], {"reasons", "needs"}) /\ Asks(S[x])
            /\ "flow" \in S[x].reasons => S[x].flow = "unresolved"
            /\ Answered(T[x]) => Answered(S[x])
  BY <1>3, AllSynchronizedIs DEF Sound
<1> HIDE DEF S
<1>5. ASSUME NEW x \in DOMAIN rows
      PROVE  /\ S[x].flow = T[x].flow /\ S[x].src = T[x].src /\ S[x].group = T[x].group
             /\ S[x].partner = T[x].partner /\ S[x].status = T[x].status
  BY <1>1, <1>3, <1>4 DEF Kept, Fields
<1>6. ASSUME NEW x \in DOMAIN rows
      PROVE  /\ Kept(C[x], S[x], Same)
             /\ C[x].group # None => Kept(C[x], S[x], {"reasons", "needs"})
             /\ Explicit(S[x]) <=> Explicit(C[x])
  <2>1. Kept(C[x], S[x], Same)
    BY <1>1, <1>3, <1>4 DEF Kept
  <2>2. C[x].group # None => Kept(C[x], S[x], {"reasons", "needs"})
    BY <1>1, <1>3, <1>4
  <2>3. Explicit(S[x]) <=> Explicit(C[x])
    BY <1>1, <1>3, <1>5 DEF Explicit
  <2> QED BY <2>1, <2>2, <2>3
<1>7. ASSUME NEW x \in DOMAIN rows
      PROVE  /\ Asks(S[x]) /\ Treated(S[x])
             /\ Explicit(C[x]) => S[x].flow = C[x].flow /\ S[x].src = C[x].src
             /\ C[x].group = None => S[x].group \in {None, "transfer"}
             /\ S[x].group = None => S[x].partner = None /\ S[x].status # "paired"
             /\ Answered(rows[x]) => Answered(S[x])
             /\ "flow" \in S[x].reasons => S[x].flow = "unresolved"
             /\ S[x].group = "transfer" =>
                   /\ x \in Eligible(C) /\ S[x].partner \in TransferPartner(Candidates(C), x)
                   /\ S[x].status = "paired" /\ S[x].flow \in Between(x, S[x].partner)
  BY <1>1, <1>3, <1>4, <1>5
<1>8. \A x \in Eligible(C) : \A y \in TransferPartner(Candidates(C), x) :
            S[x].group = "transfer" /\ S[x].partner = y
  BY <1>1, <1>3, <1>5, CandidatesAre DEF Crossed
<1> QED BY <1>1, <1>2, <1>3, <1>4, <1>6, <1>7, <1>8 DEF C

-----------------------------------------------------------------------------
(* What holds of the published rows because they were reconciled.           *)
LEMMA PairsSoundHolds ==
    ASSUME NEW rows, Plain(rows), shown = Reconciled(rows)
    PROVE  PairsSound
<1> DEFINE C == Crossing(rows)
           S == Reconciled(rows)
<1>1. /\ Crossed(C) /\ DOMAIN C = DOMAIN rows
  BY CrossingIs
<1>2. /\ Function(S) /\ DOMAIN S = DOMAIN rows
      /\ \A x \in DOMAIN rows :
            /\ Kept(C[x], S[x], {"flow", "src", "partner", "group", "status", "reasons", "needs"})
            /\ C[x].group # None => Kept(C[x], S[x], {"reasons", "needs"})
            /\ C[x].group = None => S[x].group \in {None, "transfer"}
            /\ S[x].group = None => S[x].partner = None /\ S[x].status # "paired"
            /\ S[x].group = "transfer" =>
                  /\ x \in Eligible(C) /\ S[x].partner \in TransferPartner(Candidates(C), x)
                  /\ S[x].status = "paired" /\ S[x].flow \in Between(x, S[x].partner)
      /\ \A x \in Eligible(C) : \A y \in TransferPartner(Candidates(C), x) :
            S[x].group = "transfer" /\ S[x].partner = y
  BY ReconciledIs
<1> HIDE DEF C, S
<1>3. DOMAIN C \subseteq Rows
  BY <1>1 DEF Crossed
<1>4. None \notin DOMAIN S
  BY <1>1, <1>2, <1>3, FactsAssumption DEF FactsAssumption
<1>5. ASSUME NEW x \in DOMAIN S, C[x].group # None
      PROVE  /\ S[x].flow = C[x].flow /\ S[x].group = C[x].group /\ S[x].partner = C[x].partner
             /\ S[x].status = C[x].status /\ S[x].value = C[x].value
  BY <1>2, <1>5 DEF Kept, Fields
<1>6. ASSUME NEW x \in DOMAIN S
      PROVE  C[x].group # None =>
                \/ C[x].group = "manual" /\ PairedBy(C, x)
                \/ C[x].group = "exchange" /\ Leg(C, x)
  <2>1. /\ Open(x, C[x]) => C[x].group = None
        /\ LeftOpen(C, x) => C[x].group = None
        /\ PairedBy(C, x) => C[x].group = "manual"
    BY DEF Open, LeftOpen, PairedBy
  <2> QED BY <1>1, <1>2, <2>1 DEF Crossed
<1> DEFINE Bound(x, y) ==
             /\ y \in DOMAIN S \ {x}
             /\ S[x].status = "paired" /\ S[x].partner = y /\ S[y].partner = x
             /\ S[y].group = S[x].group /\ S[y].flow = S[x].flow /\ S[x].flow \in Transfers
             /\ IF S[x].group = "manual" THEN Fact[x].ccy = Fact[y].ccy /\ Fact[x].amt = -Fact[y].amt
                ELSE S[x].value = {-v : v \in S[y].value}
<1>7. ASSUME NEW x \in DOMAIN S, C[x].group = "manual", PairedBy(C, x)
      PROVE  \E y : Bound(x, y)
  <2> DEFINE y == C[x].partner
  <2>1. /\ y \in DOMAIN S \ {x} /\ C[y].group = "manual" /\ C[y].partner = x
        /\ C[x].status = "paired" /\ C[x].flow = "internal_transfer"
        /\ Fact[x].ccy = Fact[y].ccy /\ Fact[x].amt = -Fact[y].amt
    BY <1>1, <1>2, <1>7 DEF PairedBy
  <2>2. "manual" # None
    BY NoneAssumption DEF NoneAssumption
  <2>3. PairedBy(C, y) /\ C[y].flow = "internal_transfer"
    BY <1>6, <2>1, <2>2 DEF PairedBy
  <2>4. /\ S[x].flow = "internal_transfer" /\ S[x].group = "manual" /\ S[x].partner = y /\ S[x].status = "paired"
        /\ S[y].flow = "internal_transfer" /\ S[y].group = "manual" /\ S[y].partner = x
    BY <1>5, <1>7, <2>1, <2>2, <2>3
  <2>5. Bound(x, y)
    BY <2>1, <2>4 DEF Transfers
  <2> QED BY <2>5
<1>8. ASSUME NEW x \in DOMAIN S, C[x].group = "exchange", Leg(C, x)
      PROVE  \E y : Bound(x, y)
  <2> DEFINE y == C[x].partner
  <2>1. /\ y \in DOMAIN S \ {x} /\ C[y].group = "exchange" /\ C[y].partner = x
        /\ C[x].status = "paired" /\ C[x].flow = "internal_transfer"
        /\ C[x].value = {-v : v \in C[y].value}
    BY <1>1, <1>2, <1>8 DEF Leg
  <2>2. "exchange" # None
    BY NoneAssumption DEF NoneAssumption
  <2>3. C[y].flow = "internal_transfer"
    BY <1>6, <2>1, <2>2 DEF Leg
  <2>4. /\ S[x].flow = "internal_transfer" /\ S[x].group = "exchange" /\ S[x].partner = y /\ S[x].status = "paired"
        /\ S[y].flow = "internal_transfer" /\ S[y].group = "exchange" /\ S[y].partner = x
        /\ S[x].value = C[x].value /\ S[y].value = C[y].value
    BY <1>5, <1>8, <2>1, <2>2, <2>3
  <2>5. Bound(x, y)
    BY <2>1, <2>4 DEF Transfers
  <2> QED BY <2>5
<1>9. ASSUME NEW x \in DOMAIN S, S[x].group = "transfer", C[x].group = None
      PROVE  \E y : Bound(x, y)
  <2> DEFINE y == S[x].partner
  <2>1. /\ x \in Eligible(C) /\ y \in TransferPartner(Candidates(C), x)
        /\ S[x].status = "paired" /\ S[x].flow \in Between(x, y)
    BY <1>2, <1>9
  <2> HIDE DEF y
  <2>2. /\ y \in Eligible(C) /\ y # x /\ Opposite(x, y)
        /\ TransferPartner(Candidates(C), y) = {x}
        /\ Between(x, y) = Between(y, x)
        /\ \E f \in Transfers : Between(x, y) = {f}
    BY <1>3, <2>1, TransferPartnerIs
  <2>3. S[y].group = "transfer" /\ S[y].partner = x
    BY <1>2, <2>2
  <2>4. y \in DOMAIN S
    BY <1>1, <1>2, <2>2 DEF Eligible
  <2>5. S[y].flow \in Between(y, x)
    BY <1>2, <2>3, <2>4
  <2>6. S[x].value = Value(x) /\ S[y].value = Value(y)
    <3>1. C[x].value = Value(x) /\ C[y].value = Value(y)
      BY <1>1, <2>1, <2>2, EligibleIs DEF Open
    <3> QED BY <1>2, <2>4, <3>1 DEF Kept, Fields
  <2>7. S[x].partner = y
    BY DEF y
  <2>8. S[x].group # "manual"
    BY <1>9
  <2>9. Bound(x, y)
    BY <1>9, <2>1, <2>2, <2>3, <2>4, <2>5, <2>6, <2>7, <2>8 DEF Opposite
  <2> QED BY <2>9
<1>10. ASSUME NEW x \in DOMAIN S
       PROVE  (S[x].group = None /\ S[x].partner = None /\ S[x].status # "paired") \/ \E y : Bound(x, y)
  <2>1. CASE C[x].group # None
    BY <1>6, <1>7, <1>8, <2>1
  <2>2. CASE C[x].group = None
    <3>1. S[x].group \in {None, "transfer"}
      BY <1>2, <2>2
    <3> QED BY <1>2, <1>9, <2>2, <3>1
  <2> QED BY <2>1, <2>2
<1>11. shown = S
  BY DEF S
<1>12. ASSUME NEW x \in DOMAIN S
       PROVE  /\ (S[x].status = "paired") <=> (S[x].partner # None)
              /\ S[x].partner # None => Bound(x, S[x].partner)
  BY <1>4, <1>10
<1> QED BY <1>11, <1>12 DEF PairsSound, Cancel

LEMMA NoRivalHolds ==
    ASSUME NEW rows, Plain(rows), shown = Reconciled(rows)
    PROVE  NoRival
<1> DEFINE C == Crossing(rows)
<1>1. /\ Crossed(C) /\ DOMAIN C = DOMAIN rows
  BY CrossingIs
<1>2. /\ DOMAIN shown = DOMAIN rows
      /\ \A x \in DOMAIN rows :
            /\ Kept(C[x], shown[x], {"flow", "src", "partner", "group", "status", "reasons", "needs"})
            /\ Explicit(shown[x]) <=> Explicit(C[x])
            /\ Explicit(C[x]) => shown[x].flow = C[x].flow /\ shown[x].src = C[x].src
            /\ C[x].group # None => Kept(C[x], shown[x], {"reasons", "needs"})
            /\ C[x].group = None => shown[x].group \in {None, "transfer"}
            /\ shown[x].group = "transfer" =>
                  x \in Eligible(C) /\ shown[x].partner \in TransferPartner(Candidates(C), x)
      /\ \A x \in Eligible(C) : \A y \in TransferPartner(Candidates(C), x) :
            shown[x].group = "transfer" /\ shown[x].partner = y
  BY ReconciledIs
<1> HIDE DEF C
<1>3. DOMAIN C \subseteq Rows
  BY <1>1 DEF Crossed
<1>4. ASSUME NEW x \in DOMAIN rows
      PROVE  /\ shown[x].pair = C[x].pair /\ shown[x].cat = C[x].cat /\ shown[x].flags = C[x].flags
             /\ C[x].group = "exchange" => shown[x].group = "exchange"
  <2>1. C[x].group = "exchange" => C[x].group # None
    BY NoneAssumption DEF NoneAssumption
  <2> QED BY <1>2, <2>1 DEF Kept, Fields
\* A row looks external exactly if its deterministic flow was.
<1>5. ASSUME NEW x \in DOMAIN rows, Open(x, C[x])
      PROVE  LooksExternal(x) <=> C[x].src = "deterministic" /\ C[x].flow \in External
  <2>1. FlowFor(x, shown[x]) = FlowFor(x, C[x])
    BY <1>4 DEF FlowFor
  <2>2. /\ C[x].src \in {"deterministic", "rule", "structural", "correction"}
        /\ C[x].src = "structural" => "structural" \in C[x].flags
        /\ C[x].src = "deterministic" => "structural" \notin C[x].flags /\ C[x].flow = FlowFor(x, C[x])
    BY <1>5 DEF Open, Origin
  <2>3. Explicit(shown[x]) <=> C[x].src \in {"rule", "correction"}
    BY <1>2 DEF Explicit
  <2> QED BY <1>4, <2>1, <2>2, <2>3 DEF LooksExternal
<1>6. ASSUME NEW x \in DOMAIN rows, NEW z \in DOMAIN rows,
             x \in Eligible(C), z \in Eligible(C), MayTransfer(C, x, z)
      PROVE  CouldPair(x, z)
  <2>1. Open(x, C[x]) /\ Open(z, C[z]) /\ C[z].pair = None /\ C[z].group = None
    BY <1>1, <1>6, EligibleIs
  <2>2. Value(x) # {} /\ Value(x) # {0}
    BY <1>6 DEF Eligible
  <2>3. FactsAllow(x, z)
    BY <1>6, <2>2 DEF FactsAllow, MayTransfer
  <2>4. shown[z].group # "exchange" /\ shown[z].pair = None
    BY <1>2, <1>4, <2>1, NoneAssumption DEF NoneAssumption
  <2>5. \E flow \in Between(x, z) : \A w \in {x, z} : Explicit(shown[w]) => shown[w].flow = flow
    <3>1. PICK flow \in Between(x, z) : \A w \in {x, z} : Explicit(C[w]) => C[w].flow = flow
      BY <1>6 DEF MayTransfer
    <3> QED BY <1>2, <3>1
  <2>6. ~(LooksExternal(x) /\ LooksExternal(z))
    BY <1>5, <1>6, <2>1 DEF MayTransfer
  <2> QED BY <2>3, <2>4, <2>5, <2>6 DEF CouldPair
<1>7. ASSUME NEW x \in DOMAIN rows, NEW z \in DOMAIN rows \ {x}, x \in Eligible(C), CouldPair(x, z)
      PROVE  z \in Eligible(C) /\ MayTransfer(C, x, z)
  <2>1. /\ FactsAllow(x, z) /\ shown[z].group # "exchange" /\ shown[z].pair = None
        /\ ~(LooksExternal(x) /\ LooksExternal(z))
    BY <1>7 DEF CouldPair
  <2>2. PICK flow \in Between(x, z) : \A w \in {x, z} : Explicit(shown[w]) => shown[w].flow = flow
    BY <1>7 DEF CouldPair
  <2>3. C[z].group # "exchange" /\ C[z].pair = None
    BY <1>4, <2>1
  <2>4. Open(z, C[z]) /\ Open(x, C[x])
    BY <1>1, <1>7, <2>3, EligibleIs DEF Crossed
  <2>5. x \in Rows /\ z \in Rows
    BY <1>1, <1>3
  <2>6. Opposite(x, z) /\ Value(x) # {} /\ Value(x) # {0}
    BY <2>1 DEF FactsAllow, Opposite
  <2>7. Value(z) # {} /\ Value(z) # {0} /\ (Fact[x].amt < 0 <=> ~(Fact[z].amt < 0))
    BY <2>5, <2>6, OppositeIs
  <2>8. flow \in Transfers /\ {Fact[x].type, Fact[z].type} \subseteq {"bank", "credit_card", "investment"}
    BY <1>7, <2>2, <2>5, <2>7, BetweenIs
  <2>9. \A w \in {x, z} : Explicit(C[w]) => C[w].flow = flow
    BY <1>2, <1>7, <2>2
  <2>10. z \in Eligible(C)
    BY <1>1, <2>3, <2>4, <2>7, <2>8, <2>9 DEF Eligible, Open
  <2>11. ~ \A w \in {x, z} : C[w].src = "deterministic" /\ C[w].flow \in External
    BY <1>5, <1>7, <2>1, <2>4
  <2>12. MayTransfer(C, x, z)
    BY <2>1, <2>2, <2>9, <2>11 DEF MayTransfer, FactsAllow
  <2> QED BY <2>10, <2>12
<1>8. ASSUME NEW x \in DOMAIN shown, shown[x].group = "transfer"
      PROVE  /\ CouldPair(x, shown[x].partner)
             /\ \A z \in DOMAIN shown \ {x} :
                   CouldPair(x, z) /\ Distance(x, z) <= Distance(x, shown[x].partner) => z = shown[x].partner
  <2> DEFINE y == shown[x].partner
  <2>1. x \in Eligible(C) /\ y \in TransferPartner(Candidates(C), x)
    BY <1>2, <1>8
  <2> HIDE DEF y
  <2>2. /\ y \in Eligible(C) /\ MayTransfer(C, x, y)
        /\ \A z \in Eligible(C) : MayTransfer(C, x, z) /\ Distance(x, z) <= Distance(x, y) => z = y
    BY <1>3, <2>1, TransferPartnerIs
  <2>3. x \in DOMAIN rows /\ y \in DOMAIN rows
    BY <1>1, <2>1, <2>2 DEF Eligible
  <2>4. CouldPair(x, y)
    BY <1>6, <2>1, <2>2, <2>3
  <2>5. ASSUME NEW z \in DOMAIN shown \ {x}, CouldPair(x, z), Distance(x, z) <= Distance(x, y)
        PROVE  z = y
    BY <1>2, <1>7, <2>1, <2>2, <2>3, <2>5
  <2> QED BY <2>4, <2>5 DEF y
<1> QED BY <1>8 DEF NoRival

LEMMA ExchangeForcedHolds ==
    ASSUME NEW rows, Plain(rows), shown = Reconciled(rows)
    PROVE  ExchangeForced
<1> DEFINE C == Crossing(rows)
           P == Legs(rows)
           found == {<<x, shown[x].partner>> : x \in {y \in DOMAIN shown : shown[y].group = "exchange" /\ IsDebit(y)}}
<1>1. /\ Crossed(C) /\ DOMAIN C = DOMAIN rows
      /\ \A x \in DOMAIN rows :
            /\ C[x].pair = rows[x].pair
            /\ C[x].group = "exchange" <=> \E p \in P : x = p[1] \/ x = p[2]
      /\ \A x \in DOMAIN rows : \A p \in P : x = p[1] => C[x].partner = p[2]
      /\ P \subseteq {x \in DOMAIN rows : IsDebit(x)} \X {x \in DOMAIN rows : IsDeposit(x)}
      /\ P = UNION {PairsBy(t, OnlyMatching(t.edges)) : t \in Trials(Events(rows))}
  BY CrossingIs
<1>2. /\ DOMAIN shown = DOMAIN rows
      /\ \A x \in DOMAIN rows :
            /\ Kept(C[x], shown[x], {"flow", "src", "partner", "group", "status", "reasons", "needs"})
            /\ C[x].group # None => Kept(C[x], shown[x], {"reasons", "needs"})
            /\ C[x].group = None => shown[x].group \in {None, "transfer"}
  BY ReconciledIs
<1> HIDE DEF C, P
<1>3. ASSUME NEW x \in DOMAIN rows
      PROVE  /\ shown[x].group = "exchange" <=> C[x].group = "exchange"
             /\ C[x].group = "exchange" => shown[x].partner = C[x].partner
             /\ shown[x].pair = rows[x].pair
  <2>1. "exchange" # None
    BY NoneAssumption DEF NoneAssumption
  <2> QED BY <1>1, <1>2, <2>1 DEF Kept, Fields
<1>4. Events(shown) = Events(rows)
  BY <1>2, <1>3, EventsDependOnPairs
<1>5. \A p \in P : /\ p = <<p[1], p[2]>> /\ p[1] \in DOMAIN rows /\ p[2] \in DOMAIN rows
                   /\ IsDebit(p[1]) /\ IsDeposit(p[2])
  BY <1>1
<1>6. ASSUME NEW p \in P
      PROVE  p \in found
  BY <1>1, <1>2, <1>3, <1>5
<1>7. ASSUME NEW x \in DOMAIN shown, shown[x].group = "exchange", IsDebit(x)
      PROVE  <<x, shown[x].partner>> \in P
  <2>1. PICK p \in P : x = p[1] \/ x = p[2]
    BY <1>1, <1>2, <1>3, <1>7
  <2>2. x = p[1]
    BY <1>5, <1>7, <2>1 DEF IsDebit, IsDeposit
  <2>3. shown[x].partner = p[2]
    BY <1>1, <1>2, <1>3, <1>7, <2>2
  <2> QED BY <1>5, <2>2, <2>3
<1>8. found = P
  BY <1>6, <1>7
<1> QED BY <1>1, <1>4, <1>8 DEF ExchangeForced

-----------------------------------------------------------------------------
(* The rows of the whole workspace, derived and reconciled.                 *)
Raw(stock, marked, rules, m) == [x \in stock |-> DerivedRow(stock, marked, rules, m, x)]

LEMMA DerivedIs ==
    ASSUME NEW stock, stock \subseteq Rows, NEW marked, NEW rules, NEW m
    PROVE  LET raw == Raw(stock, marked, rules, m) IN
           /\ Derived(stock, marked, rules, m) = Reconciled(raw)
           /\ Plain(raw) /\ DOMAIN raw = stock
           /\ \A x \in stock :
                 /\ raw[x].pair = Says(m, x, "pair", None)
                 /\ raw[x].owner = Says(m, x, "owner", Fact[x].owner)
                 /\ Saves(m, x, "flow") => raw[x].src = "correction" /\ raw[x].flow = m[x]["flow"]
                 /\ LeavesAt(m, x) => Answered(raw[x])
<1> DEFINE raw == Raw(stock, marked, rules, m)
<1>1. Derived(stock, marked, rules, m) = Reconciled(raw)
  BY TabulatedIs DEF Derived, Raw
<1>2. DOMAIN raw = stock /\ Function(raw) /\ \A x \in stock : raw[x] = DerivedRow(stock, marked, rules, m, x)
  BY DEF Raw, Function
<1> HIDE DEF raw
<1>3. ASSUME NEW x \in stock
      PROVE  /\ Bare(x, raw[x]) /\ Origin(raw[x])
             /\ raw[x].pair = Says(m, x, "pair", None)
             /\ raw[x].owner = Says(m, x, "owner", Fact[x].owner)
             /\ Saves(m, x, "flow") => raw[x].src = "correction" /\ raw[x].flow = m[x]["flow"]
             /\ LeavesAt(m, x) => Answered(raw[x])
  BY <1>2, DerivedRowIs
<1>4. Plain(raw)
  BY <1>2, <1>3 DEF Plain
<1> QED BY <1>1, <1>2, <1>3, <1>4 DEF raw

\* A saved flow comes through the whole reconciliation.
LEMMA DecisionHoldsHolds ==
    ASSUME NEW m, present \subseteq Rows, shown = Derived(present, flagged, Rules, m),
           \A x \in DOMAIN saved :
              "flow" \in DOMAIN saved[x] => Saves(m, x, "flow") /\ m[x]["flow"] = saved[x]["flow"]
    PROVE  DecisionHolds
<1> DEFINE raw == Raw(present, flagged, Rules, m)
           C == Crossing(raw)
<1>1. /\ shown = Reconciled(raw) /\ Plain(raw) /\ DOMAIN raw = present
      /\ \A x \in present :
            Saves(m, x, "flow") => raw[x].src = "correction" /\ raw[x].flow = m[x]["flow"]
  BY DerivedIs
<1> HIDE DEF raw
<1>2. /\ Crossed(C) /\ DOMAIN C = DOMAIN raw
      /\ \A x \in DOMAIN raw :
            /\ C[x].pair = raw[x].pair
            /\ C[x].group # "exchange" /\ C[x].pair = None => C[x] = WithFlow(x, raw[x])
  BY <1>1, CrossingIs
<1> HIDE DEF C
<1>3. /\ DOMAIN shown = DOMAIN raw
      /\ \A x \in DOMAIN raw :
            /\ Kept(C[x], shown[x], {"flow", "src", "partner", "group", "status", "reasons", "needs"})
            /\ Explicit(C[x]) => shown[x].flow = C[x].flow /\ shown[x].src = C[x].src
            /\ C[x].group # None => Kept(C[x], shown[x], {"reasons", "needs"})
            /\ "flow" \in shown[x].reasons => shown[x].flow = "unresolved"
  BY <1>1, ReconciledIs DEF C
<1>4. ASSUME NEW x \in DOMAIN shown \cap DOMAIN saved,
             shown[x].group # "exchange", shown[x].pair = None, NEW flow \in DecidedFlow(x)
      PROVE  /\ shown[x].flow = flow /\ shown[x].src = "correction"
             /\ flow # "unresolved" => "flow" \notin shown[x].reasons
  <2>1. "flow" \in DOMAIN saved[x] /\ flow = saved[x]["flow"]
    BY <1>4 DEF DecidedFlow, Field
  <2>2. raw[x].src = "correction" /\ raw[x].flow = flow
    BY <1>1, <1>3, <2>1
  <2>3. C[x].group # "exchange"
    <3>1. "exchange" # None
      BY NoneAssumption DEF NoneAssumption
    <3> QED BY <1>3, <1>4, <3>1 DEF Kept, Fields
  <2>4. C[x].pair = None
    BY <1>3, <1>4 DEF Kept, Fields
  <2>5. C[x] = raw[x]
    BY <1>2, <1>3, <2>2, <2>3, <2>4 DEF WithFlow
  <2>6. shown[x].flow = flow /\ shown[x].src = "correction"
    BY <1>3, <2>2, <2>5 DEF Explicit
  <2> QED BY <1>3, <2>6
<1> QED BY <1>4 DEF DecisionHolds

LEMMA DerivedAnswers ==
    ASSUME NEW stock, stock \subseteq Rows, NEW marked, NEW rules, NEW m
    PROVE  LET S == Derived(stock, marked, rules, m) IN
           /\ DOMAIN S = stock
           /\ \A x \in stock : LeavesAt(m, x) /\ Undecided(S[x]) => S[x].needs
<1> DEFINE raw == Raw(stock, marked, rules, m)
           S == Derived(stock, marked, rules, m)
<1>1. /\ S = Reconciled(raw) /\ Plain(raw) /\ DOMAIN raw = stock
      /\ \A x \in stock : LeavesAt(m, x) => Answered(raw[x])
  BY DerivedIs
<1> HIDE DEF raw, S
<1>2. DOMAIN S = stock /\ \A x \in stock : Asks(S[x]) /\ (Answered(raw[x]) => Answered(S[x]))
  BY <1>1, ReconciledIs
<1>3. ASSUME NEW x \in stock, LeavesAt(m, x), Undecided(S[x])
      PROVE  S[x].needs
  <2>1. S[x].reasons # {}
    BY <1>1, <1>2, <1>3 DEF Answered, Undecided
  <2> QED BY <1>2, <2>1, Zenon DEF Asks
<1> QED BY <1>2, <1>3 DEF S

LEMMA BalanceHolds ==
    ASSUME DOMAIN shown \subseteq Rows
    PROVE  BalanceOfWholeStatement
<1>1. ASSUME NEW x \in DOMAIN shown, NEW all, NEW S, S = {y \in all : BalanceKey(y) = BalanceKey(x)}
      PROVE  StatementResult(all, BalanceKey(x)) = "matched" <=>
                \E opening, closing \in Balance[Fact[x].stmt].opening \cup Balance[Fact[x].stmt].closing :
                    /\ Balance[Fact[x].stmt] = [opening |-> {opening}, closing |-> {closing}]
                    /\ Explains(S, opening, closing)
  <2> DEFINE found == Balance[Fact[x].stmt]
  <2>1. BalanceKey(x).stmt = Fact[x].stmt
    BY DEF BalanceKey
  <2>2. found \in [opening : SUBSET Int, closing : SUBSET Int]
        /\ IsFiniteSet(found.opening) /\ IsFiniteSet(found.closing)
    BY BalancesAssumption DEF BalancesAssumption
  <2>3. StatementResult(all, BalanceKey(x)) = "matched" <=>
           /\ ~(Cardinality(found.opening) > 1 \/ Cardinality(found.closing) > 1)
           /\ found.opening # {} /\ found.closing # {}
           /\ \A opening \in found.opening, closing \in found.closing :
                    CalculatedClosing(S, opening, closing) = closing
    BY <1>1, <2>1 DEF StatementResult
  <2> HIDE DEF found
  <2>4. ASSUME NEW V \in SUBSET Int, IsFiniteSet(V)
        PROVE  (~(Cardinality(V) > 1) /\ V # {}) <=> (\E v : V = {v})
    <3>1. Cardinality(V) \in Nat /\ (Cardinality(V) = 0 <=> V = {})
      BY <2>4, FS_CardinalityType, FS_EmptySet
    <3>2. (Cardinality(V) = 1) <=> (\E v : V = {v})
      BY <2>4, FS_Singleton
    <3>3. (~(Cardinality(V) > 1) /\ V # {}) <=> (Cardinality(V) = 1)
      <4>1. ASSUME NEW c \in Nat PROVE (~(c > 1) /\ c # 0) <=> (c = 1)
        OBVIOUS
      <4> QED BY <3>1, <4>1
    <3> QED BY <3>2, <3>3
  <2>5. ASSUME NEW opening \in Int, NEW closing \in Int
        PROVE  CalculatedClosing(S, opening, closing) = closing <=> Explains(S, opening, closing)
    BY DEF CalculatedClosing, Explains
  <2>6. ASSUME NEW o, NEW c, found.opening = {o}, found.closing = {c}
        PROVE  o \in Int /\ c \in Int /\ found = [opening |-> {o}, closing |-> {c}]
    BY <2>2, <2>6
  <2>7. CASE \E o, c : found.opening = {o} /\ found.closing = {c}
    <3>1. PICK o, c : found.opening = {o} /\ found.closing = {c}
      BY <2>7
    <3>2. o \in Int /\ c \in Int /\ found = [opening |-> {o}, closing |-> {c}]
      BY <2>6, <3>1
    <3>3. ~(Cardinality(found.opening) > 1 \/ Cardinality(found.closing) > 1)
      BY <2>2, <2>4, <3>1
    <3>4. (\A opening \in found.opening, closing \in found.closing :
                    CalculatedClosing(S, opening, closing) = closing) <=> Explains(S, o, c)
      BY <2>5, <3>1, <3>2
    <3>5. (\E opening, closing \in found.opening \cup found.closing :
              found = [opening |-> {opening}, closing |-> {closing}] /\ Explains(S, opening, closing))
          <=> Explains(S, o, c)
      <4>1. ASSUME NEW opening, NEW closing, found = [opening |-> {opening}, closing |-> {closing}]
            PROVE  opening = o /\ closing = c
        BY <3>1, <4>1
      <4> QED BY <3>1, <3>2, <4>1
    <3> QED BY <2>3, <3>1, <3>3, <3>4, <3>5 DEF found
  <2>8. CASE ~ \E o, c : found.opening = {o} /\ found.closing = {c}
    <3>1. StatementResult(all, BalanceKey(x)) # "matched"
      BY <2>2, <2>3, <2>4, <2>8
    <3>2. ASSUME NEW o, NEW c
          PROVE  found # [opening |-> {o}, closing |-> {c}]
      <4>1. SUFFICES ASSUME found = [opening |-> {o}, closing |-> {c}] PROVE FALSE
        OBVIOUS
      <4>2. found.opening = {o} /\ found.closing = {c}
        BY <4>1
      <4> QED BY <2>8, <4>2
    <3> QED BY <3>1, <3>2 DEF found
  <2> QED BY <2>7, <2>8
<1>2. ASSUME NEW x \in DOMAIN shown
      PROVE  Explained(x) <=> StatementResult(DOMAIN shown, BalanceKey(x)) = "matched"
  BY <1>1 DEF Explained
<1>3. ASSUME NEW x \in DOMAIN shown
      PROVE  Explained(x) <=> StatementResult(Complete(DOMAIN shown, {x}), BalanceKey(x)) = "matched"
  <2>1. {y \in Complete(DOMAIN shown, {x}) : BalanceKey(y) = BalanceKey(x)}
           = {y \in DOMAIN shown : BalanceKey(y) = BalanceKey(x)}
    BY DEF Complete
  <2> QED BY <1>1, <2>1 DEF Explained
<1>4. ASSUME NEW x \in DOMAIN shown, AccountResult(DOMAIN shown, Fact[x].acct) = "matched",
             NEW y \in DOMAIN shown, Fact[y].acct = Fact[x].acct
      PROVE  Explained(y)
  <2>1. StatementResult(DOMAIN shown, BalanceKey(y)) \in StatementResults(DOMAIN shown, Fact[x].acct)
    BY <1>4 DEF StatementResults
  <2>2. StatementResults(DOMAIN shown, Fact[x].acct) = {"matched"}
    BY <1>4 DEF AccountResult
  <2> QED BY <1>2, <2>1, <2>2
<1> QED BY <1>3, <1>4 DEF BalanceOfWholeStatement

-----------------------------------------------------------------------------
(* What is saved, and what a command holds when it derives the views.       *)
Mapping(f) == f = [x \in DOMAIN f |-> f[x]]

\* A correction as it is read back: reasons that are there set "needs".
Read(c) ==
    Mapping(c) /\ ("reasons" \in DOMAIN c => c["reasons"] # {} /\ "needs" \in DOMAIN c /\ c["needs"] = TRUE)

(* A correction as a command holds it: cleared reasons finish it.  If it is *)
(* strict, open reasons keep it unfinished.                                 *)
Right(c, strict) ==
    /\ Mapping(c)
    /\ "reasons" \in DOMAIN c =>
          /\ "needs" \in DOMAIN c
          /\ c["reasons"] = {} => c["needs"] = FALSE
          /\ strict /\ c["reasons"] # {} => c["needs"] = TRUE

(* The views come of the files, and of the corrections as the last command  *)
(* held them; a choice that is fresh would be worked out the same now.      *)
Origins(m) ==
    /\ \A x \in DOMAIN m : Right(m[x], x \notin contradicted)
    /\ saved = [x \in DOMAIN m |-> Loaded(m[x])]
    /\ shown = Derived(present, flagged, Rules, m)
LedgerInv ==
    /\ drawer \in Drawers /\ present \subseteq Rows
    /\ Mapping(saved) /\ \A x \in DOMAIN saved : Read(saved[x])
    /\ \E m : Origins(m)
    /\ prepared = [choices |-> prepared.choices, fresh |-> prepared.fresh]
    /\ prepared.fresh \in BOOLEAN
    /\ prepared.fresh => WorkedOutNow(prepared.choices)

LEMMA OverIs ==
    ASSUME NEW new, NEW old
    PROVE  LET f == Over(new, old) IN
           /\ Mapping(f) /\ DOMAIN f = DOMAIN new \cup DOMAIN old
           /\ \A g \in DOMAIN new : f[g] = new[g]
           /\ \A g \in DOMAIN old : g \notin DOMAIN new => f[g] = old[g]
  BY DEF Over, Mapping

LEMMA LoadedIs ==
    ASSUME NEW c, Mapping(c)
    PROVE  LET d == Loaded(c) IN
           /\ Read(d)
           /\ Read(c) => d = c
           /\ DOMAIN d \ {"reasons", "needs"} = DOMAIN c \ {"reasons", "needs"}
           /\ \A g \in DOMAIN c : g \notin {"reasons", "needs"} => d[g] = c[g]
           /\ "reasons" \in DOMAIN d <=> "reasons" \in DOMAIN c /\ c["reasons"] # {}
           /\ "reasons" \in DOMAIN d => d["reasons"] = c["reasons"]
           /\ "needs" \in DOMAIN c => "needs" \in DOMAIN d
           /\ ~("reasons" \in DOMAIN c /\ c["reasons"] # {}) /\ "needs" \in DOMAIN c => d["needs"] = c["needs"]
           /\ "needs" \in DOMAIN d => "needs" \in DOMAIN c \/ "reasons" \in DOMAIN c
<1> DEFINE d == Loaded(c)
<1>1. CASE "reasons" \notin DOMAIN c
  <2>1. d = c
    BY <1>1 DEF Loaded
  <2> HIDE DEF d
  <2> QED BY <1>1, <2>1 DEF Read, d
<1>2. CASE "reasons" \in DOMAIN c /\ c["reasons"] = {}
  <2>1. d = [field \in DOMAIN c \ {"reasons"} |-> c[field]]
    BY <1>2 DEF Loaded
  <2>2. Mapping(d) /\ DOMAIN d = DOMAIN c \ {"reasons"} /\ \A g \in DOMAIN d : d[g] = c[g]
    BY <2>1 DEF Mapping
  <2> HIDE DEF d
  <2> QED BY <1>2, <2>2 DEF Read, d
<1>3. CASE "reasons" \in DOMAIN c /\ c["reasons"] # {}
  <2> DEFINE new == [needs |-> TRUE]
  <2>1. d = Over(new, c) /\ DOMAIN new = {"needs"} /\ new["needs"] = TRUE
    BY <1>3 DEF Loaded
  <2> HIDE DEF new, d
  <2>2. /\ Mapping(d) /\ DOMAIN d = DOMAIN c \cup {"needs"} /\ d["needs"] = TRUE
        /\ \A g \in DOMAIN c : g # "needs" => d[g] = c[g]
    BY <2>1, OverIs
  <2>3. d["reasons"] = c["reasons"]
    BY <1>3, <2>2
  <2>4. Read(d)
    BY <1>3, <2>2, <2>3 DEF Read
  <2>5. ASSUME Read(c) PROVE d = c
    <3>1. DOMAIN d = DOMAIN c /\ \A g \in DOMAIN c : d[g] = c[g]
      BY <1>3, <2>2, <2>5 DEF Read
    <3> QED BY <2>2, <3>1 DEF Mapping
  <2> QED BY <1>3, <2>2, <2>3, <2>4, <2>5 DEF d
<1> QED BY <1>1, <1>2, <1>3

LEMMA ReadIsRight ==
    ASSUME NEW c, Read(c), NEW strict
    PROVE  Right(c, strict)
  BY DEF Read, Right

(* One choice over what is saved.                                           *)
LEMMA MergedIsRight ==
    ASSUME NEW new, Right(new, TRUE), NEW old, Read(old), NEW strict,
           strict /\ "reasons" \notin DOMAIN new /\ "reasons" \in DOMAIN old /\ "needs" \in DOMAIN new
              => new["needs"] = TRUE
    PROVE  Right(Over(new, old), strict)
<1> DEFINE c == Over(new, old)
<1>1. /\ Mapping(c) /\ DOMAIN c = DOMAIN new \cup DOMAIN old
      /\ \A g \in DOMAIN new : c[g] = new[g]
      /\ \A g \in DOMAIN old : g \notin DOMAIN new => c[g] = old[g]
  BY OverIs
<1> HIDE DEF c
<1>2. CASE "reasons" \in DOMAIN new
  <2>1. "needs" \in DOMAIN new /\ c["reasons"] = new["reasons"] /\ c["needs"] = new["needs"]
    BY <1>1, <1>2 DEF Right
  <2> QED BY <1>1, <1>2, <2>1, Zenon DEF Right, c
<1>3. CASE "reasons" \notin DOMAIN new /\ "reasons" \in DOMAIN old
  <2>1. "needs" \in DOMAIN old /\ c["reasons"] = old["reasons"] /\ old["reasons"] # {} /\ old["needs"] = TRUE
    BY <1>1, <1>3 DEF Read
  <2>2. strict => c["needs"] = TRUE
    BY <1>1, <1>3, <2>1, Zenon
  <2> QED BY <1>1, <2>1, <2>2 DEF Right, c
<1>4. CASE "reasons" \notin DOMAIN new /\ "reasons" \notin DOMAIN old
  BY <1>1, <1>4 DEF Right, c
<1> QED BY <1>2, <1>3, <1>4

LEMMA EmptyIs == Mapping(<<>>) /\ DOMAIN <<>> = {}
  BY DEF Mapping

\* A choice that was worked out finishes the row or leaves a reason open.
Chosen(c) ==
    Mapping(c) /\ {"reasons", "needs"} \subseteq DOMAIN c /\ c["needs"] = (c["reasons"] # {})

LEMMA ChosenIsRight ==
    ASSUME NEW c, Chosen(c)
    PROVE  Right(c, TRUE)
  BY Zenon DEF Chosen, Right

LEMMA DecisionPatchIs ==
    ASSUME NEW d, NEW decision
    PROVE  Chosen(DecisionPatch(d, decision))
<1> DEFINE fields == DecisionFields(decision)
           settled == {"flow"} \cup (IF "cat" \in DOMAIN fields THEN {"category", "suggestion"} ELSE {})
           remaining == (d.reasons \ settled) \cup (IF decision = "unresolved" THEN {"flow"} ELSE {})
           new == [reasons |-> remaining, needs |-> remaining # {}]
           c == DecisionPatch(d, decision)
<1>1. c = Over(new, fields)
  BY DEF DecisionPatch
<1> HIDE DEF remaining
<1>2. DOMAIN new = {"reasons", "needs"} /\ new["reasons"] = remaining /\ new["needs"] = (remaining # {})
  OBVIOUS
<1> HIDE DEF new, fields, c
<1>3. Mapping(c) /\ DOMAIN c = DOMAIN new \cup DOMAIN fields /\ \A g \in DOMAIN new : c[g] = new[g]
  <2>1. LET f == Over(new, fields) IN
        Mapping(f) /\ DOMAIN f = DOMAIN new \cup DOMAIN fields /\ \A g \in DOMAIN new : f[g] = new[g]
    BY OverIs
  <2> QED BY <1>1, <2>1
<1>4. {"reasons", "needs"} \subseteq DOMAIN c /\ c["reasons"] = remaining /\ c["needs"] = new["needs"]
  BY <1>2, <1>3
<1> QED BY <1>2, <1>3, <1>4, Zenon DEF Chosen, c

LEMMA WorkedOutIs ==
    ASSUME NEW choices, WorkedOutNow(choices)
    PROVE  \A x \in DOMAIN choices : Chosen(choices[x])
<1> DEFINE rows == Current
<1>1. PICK x \in present, y \in present :
        \/ \E decision \in Decisions[x] : choices = For(x, DecisionPatch(rows[x], decision))
        \/ ManualFacts(x, y, rows) /\ choices \in PairPatches(rows, {x, y})
        \/ StaleSource(rows, x) /\ choices = For(x, ClearedSource(x))
  BY DEF WorkedOutNow
<1> HIDE DEF rows
<1>2. CASE \E decision \in Decisions[x] : choices = For(x, DecisionPatch(rows[x], decision))
  <2>1. PICK decision : choices = For(x, DecisionPatch(rows[x], decision))
    BY <1>2
  <2>2. Chosen(DecisionPatch(rows[x], decision))
    BY DecisionPatchIs
  <2> QED BY <2>1, <2>2 DEF For
<1>3. CASE choices \in PairPatches(rows, {x, y})
  <2>1. PICK pair : choices = [z \in {x, y} |-> Over([pair |-> pair], DecisionPatch(rows[z], "internal-transfer"))]
    BY <1>3 DEF PairPatches
  <2>2. ASSUME NEW z \in {x, y}
        PROVE  Chosen(choices[z])
    <3> DEFINE c == DecisionPatch(rows[z], "internal-transfer")
               new == [pair |-> pair]
    <3>1. choices[z] = Over(new, c) /\ DOMAIN new = {"pair"}
      BY <2>1
    <3>2. Chosen(c)
      BY DecisionPatchIs
    <3> HIDE DEF c, new
    <3>3. /\ Mapping(choices[z]) /\ DOMAIN choices[z] = {"pair"} \cup DOMAIN c
          /\ \A g \in DOMAIN c : g # "pair" => choices[z][g] = c[g]
      <4>1. LET f == Over(new, c) IN
            /\ Mapping(f) /\ DOMAIN f = DOMAIN new \cup DOMAIN c
            /\ \A g \in DOMAIN c : g \notin DOMAIN new => f[g] = c[g]
        BY OverIs
      <4> QED BY <3>1, <4>1
    <3>4. choices[z]["reasons"] = c["reasons"] /\ choices[z]["needs"] = c["needs"]
      BY <3>2, <3>3 DEF Chosen
    <3> QED BY <3>2, <3>3, <3>4, Zenon DEF Chosen
  <2> QED BY <2>1, <2>2
<1>4. CASE choices = For(x, ClearedSource(x))
  <2> DEFINE remaining == saved[x]["reasons"] \ {"source"}
             c == [reasons |-> remaining, needs |-> remaining # {}]
  <2>1. choices = [z \in {x} |-> c]
    BY <1>4 DEF For, ClearedSource
  <2> HIDE DEF remaining
  <2>2. Mapping(c) /\ DOMAIN c = {"reasons", "needs"} /\ c["reasons"] = remaining /\ c["needs"] = (remaining # {})
    BY DEF Mapping
  <2> HIDE DEF c
  <2>3. Chosen(c)
    BY <2>2, Zenon DEF Chosen
  <2> QED BY <2>1, <2>3
<1> QED BY <1>1, <1>2, <1>3, <1>4

\* What may be saved over what is there.
MaySave(choices) ==
    \A x \in DOMAIN choices :
        /\ Right(choices[x], TRUE)
        /\ "reasons" \notin DOMAIN choices[x] /\ "needs" \in DOMAIN choices[x] =>
              choices[x]["needs"] \in BOOLEAN

LEMMA SaveKeeps ==
    ASSUME NEW choices, MaySave(choices),
           Mapping(saved), \A x \in DOMAIN saved : Read(saved[x]), Save(choices)
    PROVE  /\ Mapping(saved') /\ \A x \in DOMAIN saved' : Read(saved'[x])
           /\ \E m : Origins(m)'
<1> SUFFICES ASSUME NEW m, m = Merged(choices)
             PROVE  /\ Mapping(saved') /\ \A x \in DOMAIN saved' : Read(saved'[x])
                    /\ Origins(m)'
  OBVIOUS
<1> DEFINE new(x) == IF x \in DOMAIN choices THEN choices[x] ELSE <<>>
           old(x) == IF x \in DOMAIN saved THEN saved[x] ELSE <<>>
<1>1. DOMAIN m = DOMAIN saved \cup DOMAIN choices /\ \A x \in DOMAIN m : m[x] = Over(new(x), old(x))
  BY DEF Merged
<1>2. /\ saved' = [x \in DOMAIN m |-> Loaded(m[x])]
      /\ shown' = Derived(present, flagged, Rules, m)
      /\ contradicted' = Contradicted(m)
      /\ UNCHANGED <<present, flagged, managed>>
  BY DEF Save
<1>3. ASSUME NEW x \in DOMAIN m
      PROVE  Right(m[x], FALSE) /\ Right(m[x], x \notin contradicted')
  <2>1. Read(<<>>) /\ Right(<<>>, TRUE)
    BY EmptyIs DEF Read, Right
  <2>2. Right(new(x), TRUE) /\ Read(old(x))
    BY <2>1 DEF MaySave
  <2>3. "reasons" \notin DOMAIN new(x) /\ "needs" \in DOMAIN new(x) => new(x)["needs"] \in BOOLEAN
    <3>1. x \in DOMAIN choices => new(x) = choices[x]
      OBVIOUS
    <3>2. x \notin DOMAIN choices => DOMAIN new(x) = {}
      BY EmptyIs
    <3> HIDE DEF new
    <3> QED BY <3>1, <3>2 DEF MaySave
  <2> HIDE DEF new, old
  <2>4. ASSUME x \notin contradicted', "reasons" \notin DOMAIN new(x), "reasons" \in DOMAIN old(x),
               "needs" \in DOMAIN new(x)
        PROVE  new(x)["needs"] = TRUE
    <3>1. LET f == Over(new(x), old(x)) IN
          /\ DOMAIN f = DOMAIN new(x) \cup DOMAIN old(x)
          /\ \A g \in DOMAIN new(x) : f[g] = new(x)[g]
          /\ \A g \in DOMAIN old(x) : g \notin DOMAIN new(x) => f[g] = old(x)[g]
      BY OverIs
    <3>2. /\ {"needs", "reasons"} \subseteq DOMAIN m[x]
          /\ m[x]["needs"] = new(x)["needs"] /\ m[x]["reasons"] = old(x)["reasons"]
      BY <1>1, <2>4, <3>1
    <3>3. Field(m[x], "reasons", {}) # {}
      BY <2>2, <2>4, <3>2 DEF Read, Field
    <3>4. Field(m[x], "needs", TRUE) # FALSE
      BY <1>2, <2>4, <3>3 DEF Contradicted, Finished
    <3>5. new(x)["needs"] # FALSE
      BY <3>2, <3>4 DEF Field
    <3> QED BY <2>3, <2>4, <3>5
  <2>5. Right(Over(new(x), old(x)), FALSE)
    BY <2>2, MergedIsRight
  <2>6. Right(Over(new(x), old(x)), x \notin contradicted')
    BY <2>2, <2>4, MergedIsRight
  <2> QED BY <1>1, <2>5, <2>6
<1>4. Mapping(saved') /\ \A x \in DOMAIN saved' : Read(saved'[x])
  <2>1. DOMAIN saved' = DOMAIN m /\ \A x \in DOMAIN m : saved'[x] = Loaded(m[x])
    BY <1>2
  <2>2. \A x \in DOMAIN m : Read(Loaded(m[x]))
    BY <1>3, LoadedIs DEF Right
  <2>3. Mapping(saved')
    BY <1>2 DEF Mapping
  <2> QED BY <2>1, <2>2, <2>3
<1>5. shown' = Derived(present', flagged', Rules', m)
  BY <1>2 DEF Rules
<1>6. Origins(m)'
  BY <1>2, <1>3, <1>5 DEF Origins
<1> QED BY <1>4, <1>6

LEMMA LedgerInit ==
    ASSUME Init
    PROVE  LedgerInv
<1>1. /\ drawer \in Drawers /\ present = {} /\ saved = <<>> /\ shown = <<>>
      /\ prepared = [choices |-> <<>>, fresh |-> FALSE]
  BY DEF Init, Nothing
<1>2. Mapping(saved) /\ DOMAIN saved = {}
  BY <1>1, EmptyIs
<1>3. saved = [x \in DOMAIN saved |-> Loaded(saved[x])]
  BY <1>2 DEF Mapping
<1>4. shown = Derived(present, flagged, Rules, saved)
  <2> DEFINE raw == Raw(present, flagged, Rules, saved)
             S == Reconciled(raw)
  <2>0. present \subseteq Rows
    BY <1>1
  <2>1. Derived(present, flagged, Rules, saved) = S /\ Plain(raw) /\ DOMAIN raw = present
    BY <2>0, DerivedIs
  <2> HIDE DEF raw
  <2>2. DOMAIN S = {}
    BY <1>1, <2>1, ReconciledIs
  <2>3. Mapping(S)
    BY TabulatedIs DEF Reconciled, AllSynchronized, Mapping
  <2> HIDE DEF S
  <2>4. S = <<>>
    BY <2>2, <2>3, EmptyIs DEF Mapping
  <2> QED BY <1>1, <2>1, <2>4
<1>5. Origins(saved)
  BY <1>2, <1>3, <1>4 DEF Origins
<1> QED BY <1>1, <1>2, <1>5 DEF LedgerInv

\* What is saved may be what the last command held.
LEMMA ReadCorrections ==
    ASSUME NEW c, Mapping(c), \A x \in DOMAIN c : Read(c[x])
    PROVE  /\ \A strict : \A x \in DOMAIN c : Right(c[x], strict)
           /\ c = [x \in DOMAIN c |-> Loaded(c[x])]
<1>1. \A strict : \A x \in DOMAIN c : Right(c[x], strict) /\ Loaded(c[x]) = c[x]
  BY LoadedIs, ReadIsRight DEF Read
<1> QED BY <1>1 DEF Mapping

\* Nothing that a command worked from has changed.
LEMMA StillWorkedOut ==
    ASSUME NEW choices, WorkedOutNow(choices), UNCHANGED <<present, flagged, saved, managed>>
    PROVE  WorkedOutNow(choices)'
<1>1. Current' = Current
  BY DEF Current, Rules
<1>2. \A rows, x : StaleSource(rows, x)' = StaleSource(rows, x) /\ ClearedSource(x)' = ClearedSource(x)
  BY DEF StaleSource, ClearedSource
<1>3. \A rows, S : PairPatches(rows, S)' = PairPatches(rows, S)
  BY DEF PairPatches, StoredPairs, StoredMembers
<1> QED BY <1>1, <1>2, <1>3 DEF WorkedOutNow

\* A published view ends what was prepared.
LEMMA PublishedIs ==
    ASSUME NEW view, Published(view),
           prepared = [choices |-> prepared.choices, fresh |-> prepared.fresh]
    PROVE  /\ shown' = view
           /\ prepared' = [choices |-> prepared'.choices, fresh |-> prepared'.fresh]
           /\ prepared'.choices = prepared.choices /\ prepared'.fresh = FALSE
<1>1. shown' = view /\ prepared' = [prepared EXCEPT !.fresh = FALSE]
  BY DEF Published
<1>2. prepared' = [choices |-> prepared.choices, fresh |-> FALSE]
  BY <1>1
<1> QED BY <1>1, <1>2

LEMMA LedgerStep ==
    ASSUME LedgerInv, [Next]_vars
    PROVE  LedgerInv'
<1>1. /\ drawer \in Drawers /\ present \subseteq Rows
      /\ Mapping(saved) /\ \A x \in DOMAIN saved : Read(saved[x])
      /\ prepared = [choices |-> prepared.choices, fresh |-> prepared.fresh]
      /\ prepared.fresh \in BOOLEAN
      /\ prepared.fresh => WorkedOutNow(prepared.choices)
  BY DEF LedgerInv
<1>2. PICK m : Origins(m)
  BY DEF LedgerInv
<1>3. ASSUME UNCHANGED <<present, flagged, saved, managed, shown, contradicted>>
      PROVE  Origins(m)'
  BY <1>2, <1>3 DEF Origins, Rules
<1>4. ASSUME NEW s \in drawer, Import(s)
      PROVE  LedgerInv'
  <2>1. PICK T \in Versions[s] :
           /\ present' = {x \in present : Fact[x].stmt # s} \cup T
           /\ Published(Derived(present', flagged', Rules, saved))
           /\ UNCHANGED <<drawer, saved, managed>>
    BY <1>4 DEF Import
  <2>2. T \subseteq Rows
    BY <1>1, <2>1, VersionsAssumption DEF VersionsAssumption
  <2>3. drawer' \in Drawers /\ present' \subseteq Rows /\ Mapping(saved') /\ \A x \in DOMAIN saved' : Read(saved'[x])
    BY <1>1, <2>1, <2>2
  <2>4. /\ shown' = Derived(present', flagged', Rules', saved')
        /\ prepared' = [choices |-> prepared'.choices, fresh |-> prepared'.fresh]
        /\ prepared'.fresh = FALSE
    BY <1>1, <2>1, PublishedIs DEF Rules
  <2>5. PICK c : c = saved'
    OBVIOUS
  <2>6. Origins(c)'
    BY <2>3, <2>4, <2>5, ReadCorrections DEF Origins
  <2> QED BY <2>3, <2>4, <2>6 DEF LedgerInv
<1>5. ASSUME Learn
      PROVE  LedgerInv'
  <2>1. /\ Published(Derived(present, flagged, ManualRules \cup managed', saved))
        /\ UNCHANGED <<drawer, present, flagged, saved>>
    BY <1>5 DEF Learn
  <2>2. drawer' \in Drawers /\ present' \subseteq Rows /\ Mapping(saved') /\ \A x \in DOMAIN saved' : Read(saved'[x])
    BY <1>1, <2>1
  <2>3. /\ shown' = Derived(present', flagged', Rules', saved')
        /\ prepared' = [choices |-> prepared'.choices, fresh |-> prepared'.fresh]
        /\ prepared'.fresh = FALSE
    BY <1>1, <2>1, PublishedIs DEF Rules
  <2>4. PICK c : c = saved'
    OBVIOUS
  <2>5. Origins(c)'
    BY <2>2, <2>3, <2>4, ReadCorrections DEF Origins
  <2> QED BY <2>2, <2>3, <2>5 DEF LedgerInv
<1>6. ASSUME NEW choices, Prepare(choices), WorkedOutNow(choices)
      PROVE  LedgerInv'
  <2>1. /\ prepared' = [choices |-> choices, fresh |-> TRUE]
        /\ UNCHANGED <<drawer, present, flagged, saved, managed, shown, contradicted>>
    BY <1>6 DEF Prepare
  <2>2. WorkedOutNow(choices)'
    BY <1>6, <2>1, StillWorkedOut
  <2>3. prepared'.choices = choices /\ prepared'.fresh = TRUE
    BY <2>1
  <2>4. WorkedOutNow(prepared.choices)'
    BY <2>2, <2>3 DEF WorkedOutNow
  <2>5. Origins(m)'
    BY <1>3, <2>1
  <2> QED BY <1>1, <2>1, <2>3, <2>4, <2>5 DEF LedgerInv
<1>7. ASSUME prepared = Nothing,
             \E rows \in {Current} :
                \/ \E x \in present : \E decision \in Decisions[x] : Review(rows, x, decision)
                \/ \E x, y \in present : ReviewPair(rows, x, y)
                \/ \E x \in present : ResolveSource(rows, x)
      PROVE  LedgerInv'
  <2>1. ASSUME NEW x \in present, NEW decision \in Decisions[x], Review(Current, x, decision)
        PROVE  LedgerInv'
    <3>1. Prepare(For(x, DecisionPatch(Current[x], decision)))
      BY <2>1 DEF Review
    <3>2. WorkedOutNow(For(x, DecisionPatch(Current[x], decision)))
      BY <2>1 DEF WorkedOutNow
    <3> QED BY <1>6, <3>1, <3>2
  <2>2. ASSUME NEW x \in present, NEW y \in present, ReviewPair(Current, x, y)
        PROVE  LedgerInv'
    <3>1. PICK choices \in PairPatches(Current, {x, y}) : Prepare(choices)
      BY <2>2 DEF ReviewPair
    <3>2. WorkedOutNow(choices)
      BY <2>2, <3>1 DEF WorkedOutNow, ReviewPair
    <3> QED BY <1>6, <3>1, <3>2
  <2>3. ASSUME NEW x \in present, ResolveSource(Current, x)
        PROVE  LedgerInv'
    <3>1. Prepare(For(x, ClearedSource(x)))
      BY <2>3 DEF ResolveSource
    <3>2. WorkedOutNow(For(x, ClearedSource(x)))
      BY <2>3 DEF WorkedOutNow, ResolveSource
    <3> QED BY <1>6, <3>1, <3>2
  <2> QED BY <1>7, <2>1, <2>2, <2>3
<1>8. ASSUME Apply
      PROVE  LedgerInv'
  <2>1. WorkedOutNow(prepared.choices) /\ Save(prepared.choices) /\ prepared' = Nothing
    BY <1>1, <1>8 DEF Apply
  <2>2. \A x \in DOMAIN prepared.choices : Chosen(prepared.choices[x])
    BY <2>1, WorkedOutIs
  <2>3. MaySave(prepared.choices)
    <3>1. \A x \in DOMAIN prepared.choices :
             Right(prepared.choices[x], TRUE) /\ "reasons" \in DOMAIN prepared.choices[x]
      BY <2>2, ChosenIsRight DEF Chosen
    <3> QED BY <3>1 DEF MaySave
  <2>4. /\ Mapping(saved') /\ \A x \in DOMAIN saved' : Read(saved'[x])
        /\ \E o : Origins(o)'
    BY <1>1, <2>1, <2>3, SaveKeeps
  <2>5. drawer' \in Drawers /\ present' \subseteq Rows
    BY <1>1, <2>1 DEF Save
  <2>6. /\ prepared' = [choices |-> prepared'.choices, fresh |-> prepared'.fresh]
        /\ prepared'.fresh = FALSE
    BY <2>1 DEF Nothing
  <2> QED BY <2>4, <2>5, <2>6 DEF LedgerInv
<1>9. ASSUME NEW x \in present, NEW patch \in FilePatches[x], Correct(x, patch)
      PROVE  LedgerInv'
  <2> DEFINE choices == For(x, patch)
  <2>1. Save(choices) /\ Published(shown')
    BY <1>9 DEF Correct
  <2>2. DOMAIN choices = {x} /\ choices[x] = patch
    BY DEF For
  <2>3. /\ "needs" \in DOMAIN patch => patch["needs"] \in BOOLEAN
        /\ "reasons" \in DOMAIN patch => patch["reasons"] # {} /\ "needs" \in DOMAIN patch /\ patch["needs"]
        /\ Mapping(patch)
    BY <1>1, FilesAssumption DEF FilesAssumption, Mapping
  <2>4. Right(patch, TRUE)
    BY <2>3 DEF Right
  <2> HIDE DEF choices
  <2>6. MaySave(choices)
    BY <2>2, <2>3, <2>4 DEF MaySave
  <2>7. /\ Mapping(saved') /\ \A y \in DOMAIN saved' : Read(saved'[y])
        /\ \E o : Origins(o)'
    BY <1>1, <2>1, <2>6, SaveKeeps
  <2>8. drawer' \in Drawers /\ present' \subseteq Rows
    BY <1>1, <2>1 DEF Save
  <2>9. /\ prepared' = [choices |-> prepared'.choices, fresh |-> prepared'.fresh]
        /\ prepared'.fresh = FALSE
    BY <1>1, <2>1, PublishedIs
  <2> QED BY <2>7, <2>8, <2>9 DEF LedgerInv
<1>10. ASSUME GiveUp
       PROVE  LedgerInv'
  <2>1. /\ prepared' = [choices |-> <<>>, fresh |-> FALSE]
        /\ UNCHANGED <<drawer, present, flagged, saved, managed, shown, contradicted>>
    BY <1>10 DEF GiveUp, Nothing
  <2>2. Origins(m)'
    BY <1>3, <2>1
  <2> QED BY <1>1, <2>1, <2>2 DEF LedgerInv
<1>11. ASSUME UNCHANGED vars
       PROVE  LedgerInv'
  <2>1. UNCHANGED <<drawer, present, flagged, saved, managed, shown, prepared, contradicted>>
    BY <1>11 DEF vars
  <2>2. Origins(m)'
    BY <1>3, <2>1
  <2>3. prepared.fresh => WorkedOutNow(prepared.choices)'
    <3>1. ASSUME prepared.fresh PROVE WorkedOutNow(prepared.choices)'
      <4> DEFINE choices == prepared.choices
      <4>1. WorkedOutNow(choices)
        BY <1>1, <3>1
      <4> SUFFICES ASSUME NEW c, c = choices PROVE WorkedOutNow(c)'
        BY <2>1
      <4>2. WorkedOutNow(c)
        BY <4>1
      <4> QED BY <2>1, <4>2, StillWorkedOut
    <3> QED BY <3>1
  <2> QED BY <1>1, <2>1, <2>2, <2>3 DEF LedgerInv
<1> QED BY <1>4, <1>5, <1>7, <1>8, <1>9, <1>10, <1>11 DEF Next

LEMMA LedgerInvariant == Spec => []LedgerInv
<1>1. Init => LedgerInv
  BY LedgerInit
<1>2. LedgerInv /\ [Next]_vars => LedgerInv'
  BY LedgerStep
<1> QED BY <1>1, <1>2, PTL DEF Spec

\* The views of any reachable state are a reconciliation of plain rows.
LEMMA ViewsAre ==
    ASSUME LedgerInv
    PROVE  \E rows : Plain(rows) /\ shown = Reconciled(rows) /\ DOMAIN shown = present /\ present \subseteq Rows
<1>1. PICK m : shown = Derived(present, flagged, Rules, m)
  BY DEF LedgerInv, Origins
<1>2. present \subseteq Rows
  BY DEF LedgerInv
<1> DEFINE raw == Raw(present, flagged, Rules, m)
<1>3. shown = Reconciled(raw) /\ Plain(raw) /\ DOMAIN raw = present
  BY <1>1, <1>2, DerivedIs
<1> HIDE DEF raw
<1>4. DOMAIN shown = present
  BY <1>3, ReconciledIs
<1> QED BY <1>2, <1>3, <1>4

(* A pair is always sound, a transfer has no rival, and an exchange is      *)
(* paired exactly if one assignment of its deposits, and only one, exists.  *)
THEOREM PairsAlwaysForced == Spec => []PairsForced
<1>1. ASSUME LedgerInv PROVE PairsForced
  <2>1. PICK rows : Plain(rows) /\ shown = Reconciled(rows)
    BY <1>1, ViewsAre
  <2> QED BY <2>1, PairsSoundHolds, NoRivalHolds, ExchangeForcedHolds DEF PairsForced
<1> QED BY <1>1, LedgerInvariant, PTL

(* A statement is checked on all its rows, whatever a view shows.           *)
THEOREM BalancesAlwaysWhole == Spec => []BalanceOfWholeStatement
<1>1. ASSUME LedgerInv PROVE BalanceOfWholeStatement
  <2>1. DOMAIN shown \subseteq Rows
    BY <1>1, ViewsAre
  <2> QED BY <2>1, BalanceHolds
<1> QED BY <1>1, LedgerInvariant, PTL

(* What was decided is shown, and what was not keeps asking.                *)
THEOREM ChoicesAlwaysShown == Spec => []ChoicesShown
<1>1. ASSUME LedgerInv PROVE ChoicesShown
  <2>1. /\ present \subseteq Rows /\ Mapping(saved) /\ \A x \in DOMAIN saved : Read(saved[x])
    BY <1>1 DEF LedgerInv
  <2>2. PICK m : Origins(m)
    BY <1>1 DEF LedgerInv
  <2>3. /\ DOMAIN saved = DOMAIN m /\ \A x \in DOMAIN m : saved[x] = Loaded(m[x]) /\ Right(m[x], FALSE)
        /\ shown = Derived(present, flagged, Rules, m)
    BY <2>2 DEF Origins, Right
  <2>4. ASSUME NEW x \in present, Undecided(Current[x])
        PROVE  Current[x].needs
    <3>1. LeavesAt(saved, x)
      BY <2>1 DEF LeavesAt, Leaves, Read
    <3> QED BY <2>1, <2>4, <3>1, DerivedAnswers DEF Current
  <2>5. ASSUME NEW x \in DOMAIN shown, Undecided(shown[x])
        PROVE  shown[x].needs \/ (x \in DOMAIN saved /\ Finished(saved[x]))
    <3>1. DOMAIN shown = present /\ (LeavesAt(m, x) => shown[x].needs)
      BY <2>1, <2>3, <2>5, DerivedAnswers
    <3>2. CASE ~LeavesAt(m, x)
      <4>1. x \in DOMAIN m /\ "reasons" \in DOMAIN m[x] /\ m[x]["reasons"] = {}
        BY <3>2 DEF LeavesAt, Leaves
      <4>2. "needs" \in DOMAIN m[x] /\ m[x]["needs"] = FALSE /\ Mapping(m[x])
        BY <2>3, <4>1 DEF Right
      <4>3. "needs" \in DOMAIN saved[x] /\ saved[x]["needs"] = FALSE
        BY <2>3, <4>1, <4>2, LoadedIs
      <4> QED BY <2>3, <4>1, <4>3 DEF Finished, Field
    <3> QED BY <3>1, <3>2
  <2>6. DecisionHolds
    <3>1. ASSUME NEW x \in DOMAIN saved, "flow" \in DOMAIN saved[x]
          PROVE  Saves(m, x, "flow") /\ m[x]["flow"] = saved[x]["flow"]
      <4>1. x \in DOMAIN m /\ Mapping(m[x]) /\ saved[x] = Loaded(m[x])
        BY <2>3, <3>1 DEF Right
      <4>2. LET d == Loaded(m[x]) IN
            /\ DOMAIN d \ {"reasons", "needs"} = DOMAIN m[x] \ {"reasons", "needs"}
            /\ \A g \in DOMAIN m[x] : g \notin {"reasons", "needs"} => d[g] = m[x][g]
        BY <4>1, LoadedIs
      <4> QED BY <3>1, <4>1, <4>2 DEF Saves
    <3> QED BY <2>1, <2>3, <3>1, DecisionHoldsHolds
  <2> QED BY <2>4, <2>5, <2>6 DEF ChoicesShown, UndecidedIsPending
<1> QED BY <1>1, LedgerInvariant, PTL

(* A choice is saved only if it would be worked out the same now.           *)
THEOREM AlwaysAppliedAsSeen == Spec => AppliedAsSeen
<1>1. ASSUME LedgerInv, [Next]_vars, prepared # Nothing, saved' # saved, prepared' = Nothing
      PROVE  WorkedOutNow(prepared.choices)
  <2>1. /\ prepared = [choices |-> prepared.choices, fresh |-> prepared.fresh]
        /\ prepared.fresh \in BOOLEAN
        /\ prepared.fresh => WorkedOutNow(prepared.choices)
    BY <1>1 DEF LedgerInv
  <2>2. CASE Apply
    BY <2>1, <2>2 DEF Apply
  <2>3. ASSUME NEW x, NEW patch, Correct(x, patch)
        PROVE  prepared.fresh
    <3>1. prepared'.choices = prepared.choices
      BY <2>1, <2>3, PublishedIs DEF Correct
    <3>2. prepared.choices = <<>>
      BY <1>1, <3>1 DEF Nothing
    <3> QED BY <1>1, <2>1, <3>2 DEF Nothing
  <2>4. Apply \/ \E x \in present : \E patch \in FilePatches[x] : Correct(x, patch)
    <3>1. ASSUME NEW s, Import(s) PROVE FALSE
      BY <1>1, <3>1 DEF Import
    <3>2. ASSUME NEW choices, Prepare(choices) PROVE FALSE
      BY <1>1, <3>2 DEF Prepare
    <3>3. ASSUME NEW rows, NEW x, NEW y, NEW decision,
                 Review(rows, x, decision) \/ ReviewPair(rows, x, y) \/ ResolveSource(rows, x)
          PROVE  FALSE
      BY <3>2, <3>3 DEF Review, ReviewPair, ResolveSource
    <3>4. ~GiveUp /\ ~Learn /\ ~UNCHANGED vars
      BY <1>1 DEF GiveUp, Learn, vars
    <3> QED BY <1>1, <3>1, <3>3, <3>4 DEF Next
  <2> QED BY <2>1, <2>2, <2>3, <2>4
<1>2. ASSUME LedgerInv, [Next]_vars
      PROVE  [prepared # Nothing /\ saved' # saved /\ prepared' = Nothing => WorkedOutNow(prepared.choices)]_vars
  BY <1>1, <1>2
<1> QED BY <1>2, LedgerInvariant, PTL DEF Spec, AppliedAsSeen

-----------------------------------------------------------------------------
(* A published row and the row that the next command derives: they differ   *)
(* at most in the questions of a correction whose reasons were cleared.     *)
Cleared(d, e) ==
    /\ Treated(d) /\ Treated(e) /\ Asks(d) /\ Asks(e)
    /\ Kept(e, d, {"reasons", "needs"})
    /\ e.reasons \ {"owner", "category", "flow"} \subseteq d.reasons
    /\ d.reasons \subseteq e.reasons \ {"owner"}
    /\ "manual_correction" \in e.flags

LEMMA ClearedKept ==
    ASSUME NEW d, NEW e, Cleared(d, e), NEW f, NEW g, NEW F, Kept(d, f, F), Kept(e, g, F),
           \A h \in F \ {"reasons", "needs"} : f[h] = g[h]
    PROVE  Kept(g, f, {"reasons", "needs"})
<1>1. ASSUME NEW h \in Fields \ {"reasons", "needs"}
      PROVE  f[h] = g[h]
  <2>1. d[h] = e[h]
    BY <1>1 DEF Cleared, Kept
  <2>2. CASE h \in F
    BY <1>1, <2>2
  <2>3. CASE h \notin F
    BY <1>1, <2>1, <2>3 DEF Kept
  <2> QED BY <2>2, <2>3
<1> QED BY <1>1 DEF Kept

LEMMA ClearedFlow ==
    ASSUME NEW x, NEW d, NEW e, Cleared(d, e)
    PROVE  Cleared(WithFlow(x, d), WithFlow(x, e))
<1> DEFINE f == WithFlow(x, d)
           g == WithFlow(x, e)
<1>1. d.cat = e.cat /\ d.src = e.src /\ d.flow = e.flow
  BY DEF Cleared, Kept, Fields
<1>2. FlowFor(x, d) = FlowFor(x, e)
  BY <1>1 DEF FlowFor
<1>3. /\ Treated(f) /\ Kept(d, f, {"flow", "src"}) /\ Treated(g) /\ Kept(e, g, {"flow", "src"})
      /\ f.flow = g.flow /\ f.src = g.src
  <2>1. Treated(d) /\ Treated(e)
    BY DEF Cleared
  <2> QED BY <1>1, <1>2, <2>1, WithFlowIs
<1> HIDE DEF f, g
<1>4. f.reasons = d.reasons /\ f.needs = d.needs /\ g.reasons = e.reasons /\ g.needs = e.needs /\ g.flags = e.flags
  BY <1>3 DEF Kept, Fields
<1>5. Asks(f) /\ Asks(g)
  BY <1>4, Zenon DEF Asks, Cleared
<1>6. Kept(g, f, {"reasons", "needs"})
  BY <1>3 DEF Kept, Fields, Cleared
<1> QED BY <1>3, <1>4, <1>5, <1>6 DEF Cleared, f, g

LEMMA ClearedInvalid ==
    ASSUME NEW d, NEW e, Cleared(d, e)
    PROVE  Cleared(InvalidPair(d), InvalidPair(e))
<1> DEFINE f == InvalidPair(d)
           g == InvalidPair(e)
           F == {"flow", "src", "status", "flags", "reasons", "needs"}
<1>1. /\ Treated(f) /\ Kept(d, f, F)
      /\ f.flow = "unresolved" /\ f.src = "reconciliation" /\ f.status = "unmatched"
      /\ f.flags = d.flags \cup {"pair_invalid"} /\ f.reasons = d.reasons \cup {"flow"} /\ Asks(f)
  BY InvalidPairIs DEF Cleared
<1>2. /\ Treated(g) /\ Kept(e, g, F)
      /\ g.flow = "unresolved" /\ g.src = "reconciliation" /\ g.status = "unmatched"
      /\ g.flags = e.flags \cup {"pair_invalid"} /\ g.reasons = e.reasons \cup {"flow"} /\ Asks(g)
  BY InvalidPairIs DEF Cleared
<1> HIDE DEF f, g
<1>3. Kept(g, f, {"reasons", "needs"})
  BY <1>1, <1>2 DEF Kept, Fields, Cleared
<1> QED BY <1>1, <1>2, <1>3 DEF Cleared, f, g

LEMMA ClearedManually ==
    ASSUME NEW d, NEW e, Cleared(d, e), NEW p
    PROVE  Cleared(PairedManually(d, p), PairedManually(e, p))
<1> DEFINE f == PairedManually(d, p)
           g == PairedManually(e, p)
           F == {"cat", "flow", "src", "flags", "reasons", "needs", "partner", "group", "status"}
           R == {"category", "suggestion", "flow"}
<1>0. Treated(d) /\ Treated(e)
  BY DEF Cleared
<1>1. /\ Treated(f) /\ Kept(d, f, F) /\ f.flags = d.flags \ {"pair_invalid"}
      /\ f.cat = "Internal Transfer" /\ f.flow = "internal_transfer" /\ f.src = "correction"
      /\ f.partner = p /\ f.group = "manual" /\ f.status = "paired" /\ f.reasons = d.reasons \ R /\ Asks(f)
  <2>1. LET h == PairedManually(d, p) IN
        /\ Treated(h)
        /\ Kept(d, h, {"cat", "flow", "src", "flags", "reasons", "needs", "partner", "group", "status"})
        /\ h.cat = "Internal Transfer" /\ h.flow = "internal_transfer" /\ h.src = "correction"
        /\ h.flags = d.flags \ {"pair_invalid"}
        /\ h.partner = p /\ h.group = "manual" /\ h.status = "paired"
        /\ h.reasons = d.reasons \ {"category", "suggestion", "flow"} /\ Asks(h)
    BY <1>0, PairedManuallyIs
  <2> QED BY <2>1
<1>2. /\ Treated(g) /\ Kept(e, g, F) /\ g.flags = e.flags \ {"pair_invalid"}
      /\ g.cat = "Internal Transfer" /\ g.flow = "internal_transfer" /\ g.src = "correction"
      /\ g.partner = p /\ g.group = "manual" /\ g.status = "paired" /\ g.reasons = e.reasons \ R /\ Asks(g)
  <2>1. LET h == PairedManually(e, p) IN
        /\ Treated(h)
        /\ Kept(e, h, {"cat", "flow", "src", "flags", "reasons", "needs", "partner", "group", "status"})
        /\ h.cat = "Internal Transfer" /\ h.flow = "internal_transfer" /\ h.src = "correction"
        /\ h.flags = e.flags \ {"pair_invalid"}
        /\ h.partner = p /\ h.group = "manual" /\ h.status = "paired"
        /\ h.reasons = e.reasons \ {"category", "suggestion", "flow"} /\ Asks(h)
    BY <1>0, PairedManuallyIs
  <2> QED BY <2>1
<1> HIDE DEF f, g
<1>3. Kept(g, f, {"reasons", "needs"}) /\ f.flags = g.flags
  <2>1. f.flags = g.flags
    BY <1>1, <1>2 DEF Cleared, Kept, Fields
  <2>2. \A h \in F \ {"reasons", "needs"} : f[h] = g[h]
    BY <1>1, <1>2, <2>1
  <2> HIDE DEF F
  <2> QED BY <1>1, <1>2, <2>1, <2>2, ClearedKept
<1> QED BY <1>1, <1>2, <1>3 DEF Cleared, f, g

LEMMA ClearedAcross ==
    ASSUME NEW d, NEW e, Cleared(d, e), NEW p, NEW v
    PROVE  Cleared(PairedAcrossCurrencies(d, p, v), PairedAcrossCurrencies(e, p, v))
<1> DEFINE f == PairedAcrossCurrencies(d, p, v)
           g == PairedAcrossCurrencies(e, p, v)
           F == {"cat", "flow", "src", "value", "reasons", "needs", "partner", "group", "status"}
           R == {"category", "suggestion", "flow"}
<1>0. Treated(d) /\ Treated(e)
  BY DEF Cleared
<1>1. /\ Treated(f) /\ Kept(d, f, F) /\ f.value = v
      /\ f.cat = "Internal Transfer" /\ f.flow = "internal_transfer" /\ f.src = "reconciliation"
      /\ f.partner = p /\ f.group = "exchange" /\ f.status = "paired" /\ f.reasons = d.reasons \ R /\ Asks(f)
  <2>1. LET h == PairedAcrossCurrencies(d, p, v) IN
        /\ Treated(h)
        /\ Kept(d, h, {"cat", "flow", "src", "value", "reasons", "needs", "partner", "group", "status"})
        /\ h.cat = "Internal Transfer" /\ h.flow = "internal_transfer" /\ h.src = "reconciliation"
        /\ h.value = v /\ h.partner = p /\ h.group = "exchange" /\ h.status = "paired"
        /\ h.reasons = d.reasons \ {"category", "suggestion", "flow"} /\ Asks(h)
    BY <1>0, PairedAcrossCurrenciesIs
  <2> QED BY <2>1
<1>2. /\ Treated(g) /\ Kept(e, g, F) /\ g.value = v
      /\ g.cat = "Internal Transfer" /\ g.flow = "internal_transfer" /\ g.src = "reconciliation"
      /\ g.partner = p /\ g.group = "exchange" /\ g.status = "paired" /\ g.reasons = e.reasons \ R /\ Asks(g)
  <2>1. LET h == PairedAcrossCurrencies(e, p, v) IN
        /\ Treated(h)
        /\ Kept(e, h, {"cat", "flow", "src", "value", "reasons", "needs", "partner", "group", "status"})
        /\ h.cat = "Internal Transfer" /\ h.flow = "internal_transfer" /\ h.src = "reconciliation"
        /\ h.value = v /\ h.partner = p /\ h.group = "exchange" /\ h.status = "paired"
        /\ h.reasons = e.reasons \ {"category", "suggestion", "flow"} /\ Asks(h)
    BY <1>0, PairedAcrossCurrenciesIs
  <2> QED BY <2>1
<1> HIDE DEF f, g
<1>3. Kept(g, f, {"reasons", "needs"}) /\ g.flags = e.flags
  <2>1. \A h \in F \ {"reasons", "needs"} : f[h] = g[h]
    BY <1>1, <1>2
  <2>2. Kept(g, f, {"reasons", "needs"})
    <3> HIDE DEF F
    <3> QED BY <1>1, <1>2, <2>1, ClearedKept
  <2>3. g.flags = e.flags
    BY <1>2 DEF Kept, Fields
  <2> QED BY <2>2, <2>3
<1> QED BY <1>1, <1>2, <1>3 DEF Cleared, f, g

LEMMA ClearedTransfer ==
    ASSUME NEW x, NEW y, NEW d, NEW e, Cleared(d, e)
    PROVE  Cleared(PairedAsTransfer(x, y, d), PairedAsTransfer(x, y, e))
<1> DEFINE f == PairedAsTransfer(x, y, d)
           g == PairedAsTransfer(x, y, e)
           F == {"flow", "src", "partner", "group", "status"}
<1>1. d.src = e.src /\ d.flow = e.flow /\ (Explicit(d) <=> Explicit(e))
  BY DEF Cleared, Kept, Fields, Explicit
<1>2. /\ Treated(f) /\ Kept(d, f, F) /\ f.partner = y /\ f.group = "transfer" /\ f.status = "paired"
      /\ Treated(g) /\ Kept(e, g, F) /\ g.partner = y /\ g.group = "transfer" /\ g.status = "paired"
      /\ f.flow = g.flow /\ f.src = g.src
  <2>1. Treated(d) /\ Treated(e)
    BY DEF Cleared
  <2>2. /\ Treated(f) /\ Kept(d, f, F) /\ f.partner = y /\ f.group = "transfer" /\ f.status = "paired"
        /\ Explicit(d) => f.flow = d.flow /\ f.src = d.src
        /\ ~Explicit(d) => f.flow = (CHOOSE flow \in Between(x, y) : TRUE) /\ f.src = "reconciliation"
    BY <2>1, PairedAsTransferIs
  <2>3. /\ Treated(g) /\ Kept(e, g, F) /\ g.partner = y /\ g.group = "transfer" /\ g.status = "paired"
        /\ Explicit(e) => g.flow = e.flow /\ g.src = e.src
        /\ ~Explicit(e) => g.flow = (CHOOSE flow \in Between(x, y) : TRUE) /\ g.src = "reconciliation"
    BY <2>1, PairedAsTransferIs
  <2> HIDE DEF f, g
  <2> QED BY <1>1, <2>2, <2>3
<1> HIDE DEF f, g
<1>3. f.reasons = d.reasons /\ f.needs = d.needs /\ g.reasons = e.reasons /\ g.needs = e.needs /\ g.flags = e.flags
  BY <1>2 DEF Kept, Fields
<1>4. Asks(f) /\ Asks(g)
  BY <1>3, Zenon DEF Asks, Cleared
<1>5. Kept(g, f, {"reasons", "needs"})
  BY <1>2 DEF Kept, Fields, Cleared
<1> QED BY <1>2, <1>3, <1>4, <1>5 DEF Cleared, f, g

LEMMA ClearedAmbiguous ==
    ASSUME NEW d, NEW e, Cleared(d, e)
    PROVE  Cleared(AmbiguousRow(d), AmbiguousRow(e))
<1> DEFINE f == AmbiguousRow(d)
           g == AmbiguousRow(e)
           F == {"flow", "src", "status", "reasons", "needs"}
<1>1. d.src = e.src /\ d.flow = e.flow /\ (Explicit(d) <=> Explicit(e))
  BY DEF Cleared, Kept, Fields, Explicit
<1>2. /\ Treated(f) /\ Kept(d, f, F) /\ f.status = "ambiguous" /\ f.reasons = d.reasons \cup {"flow"} /\ Asks(f)
      /\ Treated(g) /\ Kept(e, g, F) /\ g.status = "ambiguous" /\ g.reasons = e.reasons \cup {"flow"} /\ Asks(g)
      /\ f.flow = g.flow /\ f.src = g.src
  <2>1. Treated(d) /\ Treated(e)
    BY DEF Cleared
  <2> QED BY <1>1, <2>1, AmbiguousRowIs
<1> HIDE DEF f, g
<1>3. Kept(g, f, {"reasons", "needs"}) /\ g.flags = e.flags
  BY <1>2 DEF Kept, Fields, Cleared
<1> QED BY <1>2, <1>3 DEF Cleared, f, g

LEMMA ClearedUnmatched ==
    ASSUME NEW d, NEW e, Cleared(d, e)
    PROVE  Cleared(Unmatched(d), Unmatched(e))
<1> DEFINE f == Unmatched(d)
           g == Unmatched(e)
<1>1. d.status = e.status /\ d.flow = e.flow
  BY DEF Cleared, Kept, Fields
<1>2. Treated(d) /\ Treated(e)
  BY DEF Cleared
<1>3. Treated(f) /\ Kept(d, f, {"status"}) /\ Treated(g) /\ Kept(e, g, {"status"})
  BY <1>2, UnmatchedIs
<1>4. f.status = g.status
  BY <1>1, <1>2 DEF Unmatched, Treated, Fields
<1> HIDE DEF f, g
<1>5. f.reasons = d.reasons /\ f.needs = d.needs /\ g.reasons = e.reasons /\ g.needs = e.needs /\ g.flags = e.flags
  BY <1>3 DEF Kept, Fields
<1>6. Asks(f) /\ Asks(g)
  BY <1>5, Zenon DEF Asks, Cleared
<1>7. Kept(g, f, {"reasons", "needs"})
  BY <1>3, <1>4 DEF Kept, Fields, Cleared
<1> QED BY <1>3, <1>5, <1>6, <1>7 DEF Cleared, f, g

(* In the end they differ in questions that the correction has finished.    *)
LEMMA ClearedSynchronized ==
    ASSUME NEW d, NEW e, Cleared(d, e)
    PROVE  \E asked \in {{"owner"}, {"owner", "category", "flow"}} :
              Synchronized(d) = SetReasons(Synchronized(e), {}, asked)
<1> DEFINE f == Synchronized(d)
           g == Synchronized(e)
<1>1. Treated(d) /\ Treated(e)
  BY DEF Cleared
<1>2. d.cat = e.cat /\ d.flow = e.flow /\ d.flags = e.flags /\ d.owner = e.owner
  BY DEF Cleared, Kept, Fields
<1>3. /\ Treated(f) /\ Kept(d, f, {"reasons", "needs"}) /\ Asks(f)
      /\ f.reasons \subseteq Questions
      /\ "category" \in f.reasons <=> Pending(d) /\ d.cat = "Unknown"
      /\ "suggestion" \in f.reasons <=>
            "suggestion" \in d.reasons /\ "manual_correction" \notin d.flags /\ d.cat # "Unknown"
      /\ "flow" \in f.reasons <=> Pending(d) /\ d.flow = "unresolved"
      /\ "identity" \in f.reasons <=> "overlap_count_ambiguous" \in d.flags
      /\ "source" \in f.reasons <=> "source_data" \in d.flags
      /\ "owner" \in f.reasons <=> "owner" \in d.reasons /\ d.owner = "Unknown"
  BY <1>1, SynchronizedIs
<1>4. /\ Treated(g) /\ Kept(e, g, {"reasons", "needs"}) /\ Asks(g)
      /\ g.reasons \subseteq Questions
      /\ "category" \in g.reasons <=> Pending(e) /\ e.cat = "Unknown"
      /\ "suggestion" \in g.reasons <=>
            "suggestion" \in e.reasons /\ "manual_correction" \notin e.flags /\ e.cat # "Unknown"
      /\ "flow" \in g.reasons <=> Pending(e) /\ e.flow = "unresolved"
      /\ "identity" \in g.reasons <=> "overlap_count_ambiguous" \in e.flags
      /\ "source" \in g.reasons <=> "source_data" \in e.flags
      /\ "owner" \in g.reasons <=> "owner" \in e.reasons /\ e.owner = "Unknown"
  BY <1>1, SynchronizedIs
<1> HIDE DEF f, g
<1>5. (Pending(d) <=> d.reasons # {}) /\ (Pending(e) <=> e.reasons # {})
  BY Zenon DEF Cleared, Pending, Asks
<1>6. /\ e.reasons \ {"owner", "category", "flow"} \subseteq d.reasons
      /\ d.reasons \subseteq e.reasons \ {"owner"} /\ "manual_correction" \in e.flags
  BY DEF Cleared
<1>7. Kept(g, f, {"reasons", "needs"})
  BY <1>3, <1>4 DEF Cleared, Kept, Fields
<1>8. ASSUME NEW asked, f.reasons = g.reasons \ asked
      PROVE  f = SetReasons(g, {}, asked)
  <2> DEFINE h == SetReasons(g, {}, asked)
  <2>1. Treated(h) /\ Kept(g, h, {"reasons", "needs"}) /\ Asks(h) /\ h.reasons = (g.reasons \ asked) \cup {}
    BY <1>4, SetReasonsIs
  <2> HIDE DEF h
  <2>2. h.reasons = f.reasons
    BY <1>8, <2>1
  <2>3. h.needs = f.needs
    BY <1>3, <2>1, <2>2, Zenon DEF Asks
  <2>4. \A field \in Fields : f[field] = h[field]
    BY <1>7, <2>1, <2>2, <2>3 DEF Kept, Fields
  <2> QED BY <1>3, <2>1, <2>4, SameTreatment DEF h
<1>9. CASE d.reasons # {}
  <2>1. f.reasons = g.reasons \ {"owner"}
    BY <1>2, <1>3, <1>4, <1>5, <1>6, <1>9 DEF Questions
  <2> QED BY <1>8, <2>1 DEF f, g
<1>10. CASE d.reasons = {}
  <2>1. f.reasons = g.reasons \ {"owner", "category", "flow"}
    BY <1>2, <1>3, <1>4, <1>5, <1>6, <1>10 DEF Questions
  <2> QED BY <1>8, <2>1 DEF f, g
<1> QED BY <1>9, <1>10

-----------------------------------------------------------------------------
(* Two ledgers that differ in cleared questions only, in the rows of C: the *)
(* whole reconciliation treats them alike.                                  *)
Twins(A, B, C) ==
    /\ Function(A) /\ Function(B) /\ DOMAIN A = DOMAIN B
    /\ \A x \in DOMAIN A : A[x] = B[x] \/ (x \in C /\ Cleared(A[x], B[x]))

LEMMA TwinFields ==
    ASSUME NEW A, NEW B, NEW C, Twins(A, B, C), NEW x \in DOMAIN A
    PROVE  /\ A[x].pair = B[x].pair /\ A[x].owner = B[x].owner /\ A[x].value = B[x].value
           /\ A[x].status = B[x].status /\ A[x].src = B[x].src /\ A[x].flow = B[x].flow
           /\ Explicit(A[x]) <=> Explicit(B[x])
<1>1. CASE A[x] = B[x]
  BY <1>1
<1>2. CASE Cleared(A[x], B[x])
  <2>1. A[x].src = B[x].src
    BY <1>2 DEF Cleared, Kept, Fields
  <2> QED BY <1>2, <2>1 DEF Cleared, Kept, Fields, Explicit
<1> QED BY <1>1, <1>2 DEF Twins

LEMMA TwinsFlow ==
    ASSUME NEW A, NEW B, NEW C, Twins(A, B, C)
    PROVE  Twins(WithFlows(A), WithFlows(B), C)
<1> DEFINE F == WithFlows(A)
           G == WithFlows(B)
<1>1. F = [x \in DOMAIN A |-> WithFlow(x, A[x])] /\ G = [x \in DOMAIN B |-> WithFlow(x, B[x])]
  BY TabulatedIs DEF WithFlows
<1> HIDE DEF F, G
<1>2. Function(F) /\ Function(G) /\ DOMAIN F = DOMAIN A /\ DOMAIN G = DOMAIN A
  BY <1>1 DEF Function, Twins
<1>3. ASSUME NEW x \in DOMAIN A
      PROVE  F[x] = G[x] \/ (x \in C /\ Cleared(F[x], G[x]))
  <2>1. F[x] = WithFlow(x, A[x]) /\ G[x] = WithFlow(x, B[x])
    BY <1>1 DEF Twins
  <2>2. A[x] = B[x] \/ (x \in C /\ Cleared(A[x], B[x]))
    BY DEF Twins
  <2> QED BY <2>1, <2>2, ClearedFlow
<1> QED BY <1>2, <1>3 DEF Twins, F, G

LEMMA TwinsManually ==
    ASSUME NEW A, NEW B, NEW C, Twins(A, B, C)
    PROVE  Twins(WithManualPairs(A), WithManualPairs(B), C)
<1> DEFINE F == WithManualPairs(A)
           G == WithManualPairs(B)
           named(rows, x) == CHOOSE y \in ManualPartner(rows, x) : TRUE
<1>1. /\ F = [x \in DOMAIN A |->
                IF x \notin Marked(A) THEN A[x]
                ELSE IF ManualPartner(A, x) = {} THEN InvalidPair(A[x])
                ELSE PairedManually(A[x], named(A, x))]
      /\ G = [x \in DOMAIN B |->
                IF x \notin Marked(B) THEN B[x]
                ELSE IF ManualPartner(B, x) = {} THEN InvalidPair(B[x])
                ELSE PairedManually(B[x], named(B, x))]
  BY TabulatedIs DEF WithManualPairs
<1>2. DOMAIN A = DOMAIN B /\ \A x \in DOMAIN A : A[x].pair = B[x].pair /\ A[x].owner = B[x].owner
  BY TwinFields DEF Twins
<1>3. Marked(A) = Marked(B) /\ Marked(A) \subseteq DOMAIN A
  BY <1>2 DEF Marked
<1>4. ASSUME NEW x \in Marked(A)
      PROVE  ManualPartner(A, x) = ManualPartner(B, x)
  <2>1. Sharing(A, x) = Sharing(B, x) /\ Sharing(A, x) \subseteq Marked(A)
    BY <1>2, <1>3 DEF Sharing
  <2>2. \A y \in Sharing(A, x) : ManualFacts(x, y, A) <=> ManualFacts(x, y, B)
    BY <1>2, <1>3, <2>1 DEF ManualFacts
  <2> QED BY <2>1, <2>2 DEF ManualPartner
<1>5. \A x \in Marked(A) : named(A, x) = named(B, x)
  BY <1>4
<1> HIDE DEF named, F, G
<1>6. Function(F) /\ Function(G) /\ DOMAIN F = DOMAIN A /\ DOMAIN G = DOMAIN A
  BY <1>1, <1>2 DEF Function
<1>7. ASSUME NEW x \in DOMAIN A
      PROVE  F[x] = G[x] \/ (x \in C /\ Cleared(F[x], G[x]))
  <2>1. A[x] = B[x] \/ (x \in C /\ Cleared(A[x], B[x]))
    BY DEF Twins
  <2>2. CASE x \notin Marked(A)
    <3>1. F[x] = A[x] /\ G[x] = B[x]
      BY <1>1, <1>2, <1>3, <2>2
    <3> QED BY <2>1, <3>1
  <2>3. CASE x \in Marked(A) /\ ManualPartner(A, x) = {}
    <3>1. F[x] = InvalidPair(A[x]) /\ G[x] = InvalidPair(B[x])
      BY <1>1, <1>2, <1>3, <1>4, <2>3
    <3> QED BY <2>1, <3>1, ClearedInvalid
  <2>4. CASE x \in Marked(A) /\ ManualPartner(A, x) # {}
    <3>1. F[x] = PairedManually(A[x], named(A, x)) /\ G[x] = PairedManually(B[x], named(A, x))
      BY <1>1, <1>2, <1>3, <1>4, <1>5, <2>4
    <3> QED BY <2>1, <3>1, ClearedManually
  <2> QED BY <2>2, <2>3, <2>4
<1> QED BY <1>6, <1>7 DEF Twins, F, G

LEMMA TwinsAcross ==
    ASSUME NEW A, NEW B, NEW C, Twins(A, B, C)
    PROVE  Twins(WithExchanges(A), WithExchanges(B), C)
<1> DEFINE F == WithExchanges(A)
           G == WithExchanges(B)
           P == PairsAmong(Events(A))
           deposit(x) == (CHOOSE p \in P : x = p[1])[2]
           debit(x) == (CHOOSE p \in P : x = p[2])[1]
<1>1. DOMAIN A = DOMAIN B /\ \A x \in DOMAIN A : A[x].pair = B[x].pair /\ A[x].value = B[x].value
  BY TwinFields DEF Twins
<1>2. Events(A) = Events(B)
  BY <1>1, EventsDependOnPairs
<1>3. /\ F = [x \in DOMAIN A |->
                IF \E p \in P : x = p[1] THEN PairedAcrossCurrencies(A[x], deposit(x), A[x].value)
                ELSE IF \E p \in P : x = p[2]
                THEN PairedAcrossCurrencies(A[x], debit(x), {Abs(Fact[debit(x)].amt)})
                ELSE A[x]]
      /\ G = [x \in DOMAIN B |->
                IF \E p \in P : x = p[1] THEN PairedAcrossCurrencies(B[x], deposit(x), B[x].value)
                ELSE IF \E p \in P : x = p[2]
                THEN PairedAcrossCurrencies(B[x], debit(x), {Abs(Fact[debit(x)].amt)})
                ELSE B[x]]
  <2>1. F = Exchanged(A, P) /\ G = Exchanged(B, P)
    BY <1>2, TabulatedIs DEF WithExchanges
  <2> HIDE DEF P
  <2> QED BY <2>1 DEF Exchanged
<1> HIDE DEF F, G, P, deposit, debit
<1>4. Function(F) /\ Function(G) /\ DOMAIN F = DOMAIN A /\ DOMAIN G = DOMAIN A
  BY <1>1, <1>3 DEF Function
<1>5. ASSUME NEW x \in DOMAIN A
      PROVE  F[x] = G[x] \/ (x \in C /\ Cleared(F[x], G[x]))
  <2>1. A[x] = B[x] \/ (x \in C /\ Cleared(A[x], B[x]))
    BY DEF Twins
  <2>2. CASE \E p \in P : x = p[1]
    <3>1. /\ F[x] = PairedAcrossCurrencies(A[x], deposit(x), A[x].value)
          /\ G[x] = PairedAcrossCurrencies(B[x], deposit(x), A[x].value)
      BY <1>1, <1>3, <2>2
    <3> QED BY <2>1, <3>1, ClearedAcross
  <2>3. CASE ~(\E p \in P : x = p[1]) /\ \E p \in P : x = p[2]
    <3>1. /\ F[x] = PairedAcrossCurrencies(A[x], debit(x), {Abs(Fact[debit(x)].amt)})
          /\ G[x] = PairedAcrossCurrencies(B[x], debit(x), {Abs(Fact[debit(x)].amt)})
      BY <1>1, <1>3, <2>3
    <3> QED BY <2>1, <3>1, ClearedAcross
  <2>4. CASE ~(\E p \in P : x = p[1]) /\ ~(\E p \in P : x = p[2])
    <3>1. F[x] = A[x] /\ G[x] = B[x]
      BY <1>1, <1>3, <2>4
    <3> QED BY <2>1, <3>1
  <2> QED BY <2>2, <2>3, <2>4
<1> QED BY <1>4, <1>5 DEF Twins, F, G

LEMMA TwinsTransferred ==
    ASSUME NEW A, NEW B, NEW C, Twins(A, B, C)
    PROVE  Twins(WithTransfers(A), WithTransfers(B), C)
<1> DEFINE F == WithTransfers(A)
           G == WithTransfers(B)
           E == Eligible(A)
           D == CandidatesAmong(A, E)
           partner(x) == CHOOSE y \in TransferPartner(D, x) : TRUE
<1>1. /\ DOMAIN A = DOMAIN B
      /\ \A x \in DOMAIN A :
            /\ A[x].pair = B[x].pair /\ A[x].status = B[x].status
            /\ A[x].src = B[x].src /\ A[x].flow = B[x].flow
            /\ Explicit(A[x]) <=> Explicit(B[x])
  BY TwinFields DEF Twins
<1>2. Eligible(B) = E /\ E \subseteq DOMAIN A
  BY <1>1 DEF Eligible
<1> HIDE DEF E
<1>3. \A x, y \in E : MayTransfer(A, x, y) <=> MayTransfer(B, x, y)
  <2>1. ASSUME NEW x \in E, NEW y \in E
        PROVE  MayTransfer(A, x, y) <=> MayTransfer(B, x, y)
    <3>1. \A z \in {x, y} : A[z].src = B[z].src /\ A[z].flow = B[z].flow /\ (Explicit(A[z]) <=> Explicit(B[z]))
      BY <1>1, <1>2
    <3> QED BY <3>1 DEF MayTransfer
  <2> QED BY <2>1
<1>4. CandidatesAmong(B, E) = D
  <2>1. /\ D = [x \in E |-> {y \in E : MayTransfer(A, x, y)}]
        /\ CandidatesAmong(B, E) = [x \in E |-> {y \in E : MayTransfer(B, x, y)}]
    BY TabulatedIs DEF CandidatesAmong
  <2>2. \A x \in E : {y \in E : MayTransfer(A, x, y)} = {y \in E : MayTransfer(B, x, y)}
    BY <1>3
  <2> QED BY <2>1, <2>2
<1>5. Candidates(A) = D /\ Candidates(B) = D
  BY <1>2, <1>4 DEF Candidates, E
<1>6. /\ F = [x \in DOMAIN A |->
                IF x \notin DOMAIN D THEN Unmatched(A[x])
                ELSE IF TransferPartner(D, x) # {} THEN PairedAsTransfer(x, partner(x), A[x])
                ELSE IF D[x] # {} THEN AmbiguousRow(A[x])
                ELSE Unmatched(A[x])]
      /\ G = [x \in DOMAIN B |->
                IF x \notin DOMAIN D THEN Unmatched(B[x])
                ELSE IF TransferPartner(D, x) # {} THEN PairedAsTransfer(x, partner(x), B[x])
                ELSE IF D[x] # {} THEN AmbiguousRow(B[x])
                ELSE Unmatched(B[x])]
  <2>1. F = Transferred(A, D) /\ G = Transferred(B, D)
    BY <1>5, TabulatedIs DEF WithTransfers
  <2> HIDE DEF D
  <2> QED BY <2>1 DEF Transferred
<1> HIDE DEF F, G, D, partner
<1>7. Function(F) /\ Function(G) /\ DOMAIN F = DOMAIN A /\ DOMAIN G = DOMAIN A
  BY <1>1, <1>6 DEF Function
<1>8. ASSUME NEW x \in DOMAIN A
      PROVE  F[x] = G[x] \/ (x \in C /\ Cleared(F[x], G[x]))
  <2>1. A[x] = B[x] \/ (x \in C /\ Cleared(A[x], B[x]))
    BY DEF Twins
  <2>2. CASE x \in DOMAIN D /\ TransferPartner(D, x) # {}
    <3>1. F[x] = PairedAsTransfer(x, partner(x), A[x]) /\ G[x] = PairedAsTransfer(x, partner(x), B[x])
      BY <1>1, <1>6, <2>2
    <3> QED BY <2>1, <3>1, ClearedTransfer
  <2>3. CASE x \in DOMAIN D /\ TransferPartner(D, x) = {} /\ D[x] # {}
    <3>1. F[x] = AmbiguousRow(A[x]) /\ G[x] = AmbiguousRow(B[x])
      BY <1>1, <1>6, <2>3
    <3> QED BY <2>1, <3>1, ClearedAmbiguous
  <2>4. CASE x \notin DOMAIN D \/ (TransferPartner(D, x) = {} /\ D[x] = {})
    <3>1. F[x] = Unmatched(A[x]) /\ G[x] = Unmatched(B[x])
      BY <1>1, <1>6, <2>4
    <3> QED BY <2>1, <3>1, ClearedUnmatched
  <2> QED BY <2>2, <2>3, <2>4
<1> QED BY <1>7, <1>8 DEF Twins, F, G

LEMMA TwinsReconciled ==
    ASSUME NEW A, NEW B, NEW C, Twins(A, B, C)
    PROVE  LET S == Reconciled(A)
               T == Reconciled(B)
           IN  /\ DOMAIN S = DOMAIN A /\ DOMAIN T = DOMAIN A
               /\ \A x \in DOMAIN A :
                     \/ S[x] = T[x]
                     \/ x \in C /\ \E asked \in {{"owner"}, {"owner", "category", "flow"}} :
                                      S[x] = SetReasons(T[x], {}, asked)
<1> DEFINE F == WithTransfers(WithExchanges(WithManualPairs(WithFlows(A))))
           G == WithTransfers(WithExchanges(WithManualPairs(WithFlows(B))))
           S == Reconciled(A)
           T == Reconciled(B)
<1>1. Twins(F, G, C)
  BY TwinsFlow, TwinsManually, TwinsAcross, TwinsTransferred
<1>2. DOMAIN F = DOMAIN A
  <2>1. \A rows : /\ DOMAIN WithFlows(rows) = DOMAIN rows /\ DOMAIN WithManualPairs(rows) = DOMAIN rows
                  /\ DOMAIN WithExchanges(rows) = DOMAIN rows /\ DOMAIN WithTransfers(rows) = DOMAIN rows
    BY TabulatedIs DEF WithFlows, WithManualPairs, WithExchanges, WithTransfers, Exchanged, Transferred
  <2> QED BY <2>1
<1>3. S = AllSynchronized(F) /\ T = AllSynchronized(G)
  BY DEF Reconciled
<1> HIDE DEF F, G, S, T
<1>4. S = [x \in DOMAIN F |-> Synchronized(F[x])] /\ T = [x \in DOMAIN G |-> Synchronized(G[x])]
  BY <1>3, TabulatedIs DEF AllSynchronized
<1>5. DOMAIN S = DOMAIN A /\ DOMAIN T = DOMAIN A /\ \A x \in DOMAIN A : S[x] = Synchronized(F[x]) /\ T[x] = Synchronized(G[x])
  BY <1>1, <1>2, <1>4 DEF Twins
<1>6. \A x \in DOMAIN A : F[x] = G[x] \/ (x \in C /\ Cleared(F[x], G[x]))
  BY <1>1, <1>2 DEF Twins
<1> QED BY <1>5, <1>6, ClearedSynchronized DEF S, T

(* What is held and what is read back give the same memory, and rows that   *)
(* differ only in the questions of a correction whose reasons were cleared. *)
Cut(m) == {x \in DOMAIN m : "reasons" \in DOMAIN m[x] /\ m[x]["reasons"] = {}}
ReadBack(m) == [x \in DOMAIN m |-> Loaded(m[x])]

Held(m) == \A x \in DOMAIN m : Right(m[x], TRUE)
ReadAs(s, m, x) ==
    /\ x \notin Cut(m) => s[x] = m[x]
    /\ x \in Cut(m) => /\ "reasons" \notin DOMAIN s[x] /\ "needs" \in DOMAIN s[x]
                       /\ "needs" \in DOMAIN m[x]
    /\ Finished(s[x]) <=> Finished(m[x])
    /\ \A g \in {"cat", "flow", "owner", "pair"} :
          /\ g \in DOMAIN s[x] <=> g \in DOMAIN m[x]
          /\ \A default : Field(s[x], g, default) = Field(m[x], g, default)

LEMMA ReadBackIs ==
    ASSUME NEW m, Held(m), NEW x \in DOMAIN m
    PROVE  DOMAIN ReadBack(m) = DOMAIN m /\ ReadAs(ReadBack(m), m, x)
<1> SUFFICES ASSUME NEW s, s = ReadBack(m) PROVE DOMAIN s = DOMAIN m /\ ReadAs(s, m, x)
  OBVIOUS
<1>0. Right(m[x], TRUE)
  BY DEF Held
<1> DEFINE c == m[x]
           d == Loaded(m[x])
<1>1. DOMAIN s = DOMAIN m /\ s[x] = d
  BY DEF ReadBack
<1>2. Mapping(c)
  BY <1>0 DEF Right
<1>3. /\ Read(c) => d = c
      /\ DOMAIN d \ {"reasons", "needs"} = DOMAIN c \ {"reasons", "needs"}
      /\ \A g \in DOMAIN c : g \notin {"reasons", "needs"} => d[g] = c[g]
      /\ "reasons" \in DOMAIN d <=> "reasons" \in DOMAIN c /\ c["reasons"] # {}
      /\ "needs" \in DOMAIN c => "needs" \in DOMAIN d
      /\ ~("reasons" \in DOMAIN c /\ c["reasons"] # {}) /\ "needs" \in DOMAIN c => d["needs"] = c["needs"]
  BY <1>2, LoadedIs
<1>4. ASSUME x \notin Cut(m)
      PROVE  d = c
  <2>1. "reasons" \in DOMAIN c => c["reasons"] # {} /\ "needs" \in DOMAIN c /\ c["needs"] = TRUE
    BY <1>0, <1>4 DEF Right, Cut
  <2>2. Read(c)
    BY <1>2, <2>1 DEF Read
  <2> QED BY <1>3, <2>2
<1>5. ASSUME x \in Cut(m)
      PROVE  /\ "reasons" \notin DOMAIN d /\ "needs" \in DOMAIN d /\ "needs" \in DOMAIN c
             /\ c["needs"] = FALSE /\ d["needs"] = FALSE
  <2>1. "reasons" \in DOMAIN c /\ c["reasons"] = {}
    BY <1>5 DEF Cut
  <2>2. "needs" \in DOMAIN c /\ c["needs"] = FALSE
    BY <1>0, <2>1 DEF Right
  <2> HIDE DEF c, d
  <2>3. d["needs"] = c["needs"]
    BY <1>3, <2>1, <2>2
  <2> QED BY <1>3, <2>1, <2>2, <2>3
<1> HIDE DEF c, d
<1>6. Finished(d) <=> Finished(c)
  <2>1. CASE x \in Cut(m)
    <3>1. Finished(d) /\ Finished(c)
      BY <1>5, <2>1 DEF Finished, Field
    <3> QED BY <3>1
  <2>2. CASE x \notin Cut(m)
    BY <1>4, <2>2
  <2> QED BY <2>1, <2>2
<1>7. ASSUME NEW g \in {"cat", "flow", "owner", "pair"}
      PROVE  /\ g \in DOMAIN d <=> g \in DOMAIN c
             /\ \A default : Field(d, g, default) = Field(c, g, default)
  <2>1. g \in DOMAIN d <=> g \in DOMAIN c
    BY <1>3
  <2>2. g \in DOMAIN c => d[g] = c[g]
    BY <1>3
  <2> QED BY <2>1, <2>2 DEF Field
<1> QED BY <1>1, <1>4, <1>5, <1>6, <1>7 DEF ReadAs, c

LEMMA SameMemory ==
    ASSUME NEW stock, NEW m, Held(m), NEW x
    PROVE  Remembered(stock, ReadBack(m), x) = Remembered(stock, m, x)
<1> DEFINE agree(saves) ==
               {y \in stock \cap DOMAIN saves :
                    /\ MemoryKey(y) = MemoryKey(x)
                    /\ Finished(saves[y])
                    /\ Field(saves[y], "cat", None) \in Spending}
           cats(saves) == {saves[y]["cat"] : y \in agree(saves)}
<1> SUFFICES ASSUME NEW s, s = ReadBack(m) PROVE Remembered(stock, s, x) = Remembered(stock, m, x)
  OBVIOUS
<1>0. s = ReadBack(m)
  OBVIOUS
<1>1. DOMAIN s = DOMAIN m
  BY DEF ReadBack
<1>2. ASSUME NEW y \in DOMAIN m
      PROVE  /\ Finished(s[y]) <=> Finished(m[y])
             /\ Field(s[y], "cat", None) = Field(m[y], "cat", None)
             /\ s[y]["cat"] = m[y]["cat"] \/ "cat" \notin DOMAIN m[y]
  <2>1. /\ Finished(s[y]) <=> Finished(m[y])
        /\ \A g \in {"cat", "flow", "owner", "pair"} :
              /\ g \in DOMAIN s[y] <=> g \in DOMAIN m[y]
              /\ \A default : Field(s[y], g, default) = Field(m[y], g, default)
    <3>2. ReadAs(s, m, y)
      BY <1>0, ReadBackIs
    <3> QED BY <3>2 DEF ReadAs
  <2>2. /\ "cat" \in DOMAIN s[y] <=> "cat" \in DOMAIN m[y]
        /\ Field(s[y], "cat", None) = Field(m[y], "cat", None)
    BY <2>1
  <2> QED BY <2>1, <2>2 DEF Field
<1>3. agree(s) = agree(m)
  BY <1>1, <1>2
<1>4. \A y \in agree(m) : y \in DOMAIN m /\ "cat" \in DOMAIN m[y]
  BY SpendingAssumption DEF Field, SpendingAssumption
<1>5. cats(s) = cats(m)
  <2>1. \A y \in agree(m) : s[y]["cat"] = m[y]["cat"]
    BY <1>2, <1>4
  <2> QED BY <1>3, <2>1
<1> HIDE DEF agree, cats
<1> QED BY <1>3, <1>5 DEF Remembered, agree, cats

LEMMA SameBefore ==
    ASSUME NEW stock, NEW rules, NEW m, Held(m), NEW x
    PROVE  BeforeCorrection(stock, rules, ReadBack(m), x) = BeforeCorrection(stock, rules, m, x)
<1>1. Remembered(stock, ReadBack(m), x) = Remembered(stock, m, x)
  BY SameMemory
<1>2. \A d : FromMemory(stock, ReadBack(m), x, d) = FromMemory(stock, m, x, d)
  BY <1>1 DEF FromMemory
<1> QED BY <1>2 DEF BeforeCorrection

\* Cleared reasons come back as none, and then the row asks what it can.
LEMMA ClearedCorrection ==
    ASSUME NEW marked, NEW x, NEW k, Known(x, k), NEW c, NEW l,
           "reasons" \in DOMAIN c, c["reasons"] = {}, "reasons" \notin DOMAIN l,
           \A g \in {"cat", "flow", "owner", "pair"} :
              /\ g \in DOMAIN l <=> g \in DOMAIN c
              /\ \A default : Field(l, g, default) = Field(c, g, default)
    PROVE  Cleared(Reviewed(marked, x, Corrected(c, k)), Reviewed(marked, x, Corrected(l, k)))
<1> DEFINE f == Corrected(c, k)
           g == Corrected(l, k)
           d == Reviewed(marked, x, f)
           e == Reviewed(marked, x, g)
<1>1. ~Leaves(c) /\ Leaves(l) /\ "owner" \notin Field(c, "reasons", k.reasons)
  BY DEF Leaves, Field
<1>2. /\ Bare(x, f)
      /\ f.cat = Field(c, "cat", k.cat) /\ f.flow = Field(c, "flow", k.flow)
      /\ f.src = IF "flow" \in DOMAIN c THEN "correction" ELSE k.src
      /\ f.owner = Field(c, "owner", k.owner) /\ f.pair = Field(c, "pair", k.pair)
      /\ f.flags = k.flags \cup {"manual_correction"}
      /\ "category" \notin f.reasons /\ "suggestion" \notin f.reasons
      /\ "flow" \notin f.reasons /\ "owner" \notin f.reasons
      /\ "identity" \in f.reasons <=> "overlap_count_ambiguous" \in f.flags
  BY <1>1, CorrectedIs
<1>3. /\ Bare(x, g)
      /\ g.cat = Field(l, "cat", k.cat) /\ g.flow = Field(l, "flow", k.flow)
      /\ g.src = IF "flow" \in DOMAIN l THEN "correction" ELSE k.src
      /\ g.owner = Field(l, "owner", k.owner) /\ g.pair = Field(l, "pair", k.pair)
      /\ g.flags = k.flags \cup {"manual_correction"}
      /\ "suggestion" \notin g.reasons
      /\ "identity" \in g.reasons <=> "overlap_count_ambiguous" \in g.flags
  BY <1>1, CorrectedIs
<1> HIDE DEF f, g
<1>4. /\ g.cat = f.cat /\ g.flow = f.flow /\ g.src = f.src /\ g.owner = f.owner /\ g.pair = f.pair
      /\ g.flags = f.flags
  BY <1>2, <1>3
<1>5. \A h \in Fields \ {"reasons", "needs"} : g[h] = f[h]
  BY <1>2, <1>3, <1>4 DEF Bare, Fields
<1>6. /\ Bare(x, d) /\ Kept(f, d, {"flags", "reasons", "needs"})
      /\ d.flags \ {"source_data"} = f.flags \ {"source_data"}
      /\ "category" \in d.reasons <=> (f.reasons \ {"source"} # {} \/ Fact[x].amb \/ x \in marked) /\ f.cat = "Unknown"
      /\ "suggestion" \in d.reasons <=>
            "suggestion" \in f.reasons /\ "manual_correction" \notin f.flags /\ f.cat # "Unknown"
      /\ "flow" \in d.reasons <=> (f.reasons \ {"source"} # {} \/ Fact[x].amb \/ x \in marked) /\ f.flow = "unresolved"
      /\ "identity" \in d.reasons <=> Fact[x].amb
      /\ "source" \in d.reasons <=> Fact[x].amb \/ x \in marked
      /\ "owner" \in d.reasons <=> "owner" \in f.reasons /\ f.owner = "Unknown"
      /\ "source_data" \in d.flags <=> Fact[x].amb \/ x \in marked
  BY <1>2, ReviewedIs
<1>7. /\ Bare(x, e) /\ Kept(g, e, {"flags", "reasons", "needs"})
      /\ e.flags \ {"source_data"} = g.flags \ {"source_data"}
      /\ "category" \in e.reasons <=> (g.reasons \ {"source"} # {} \/ Fact[x].amb \/ x \in marked) /\ g.cat = "Unknown"
      /\ "suggestion" \in e.reasons <=>
            "suggestion" \in g.reasons /\ "manual_correction" \notin g.flags /\ g.cat # "Unknown"
      /\ "flow" \in e.reasons <=> (g.reasons \ {"source"} # {} \/ Fact[x].amb \/ x \in marked) /\ g.flow = "unresolved"
      /\ "identity" \in e.reasons <=> Fact[x].amb
      /\ "source" \in e.reasons <=> Fact[x].amb \/ x \in marked
      /\ "owner" \in e.reasons <=> "owner" \in g.reasons /\ g.owner = "Unknown"
      /\ "source_data" \in e.flags <=> Fact[x].amb \/ x \in marked
  BY <1>3, ReviewedIs
<1> HIDE DEF d, e
<1>8. d.flags = e.flags /\ "manual_correction" \in e.flags
  <2>1. ASSUME NEW v
        PROVE  v \in d.flags <=> v \in e.flags
    <3>1. CASE v = "source_data"
      BY <1>6, <1>7, <3>1
    <3>2. CASE v # "source_data"
      <4>1. v \in d.flags <=> v \in d.flags \ {"source_data"}
        BY <3>2
      <4>2. v \in e.flags <=> v \in e.flags \ {"source_data"}
        BY <3>2
      <4>3. d.flags \ {"source_data"} = e.flags \ {"source_data"}
        BY <1>4, <1>6, <1>7
      <4> QED BY <4>1, <4>2, <4>3
    <3> QED BY <3>1, <3>2
  <2>2. "manual_correction" \in g.flags \ {"source_data"}
    BY <1>3
  <2>3. "manual_correction" \in e.flags
    <3>1. "manual_correction" \in e.flags \ {"source_data"}
      BY <1>7, <2>2
    <3> QED BY <3>1
  <2>4. d.flags = e.flags
    <3>1. /\ d.flags = (d.flags \ {"source_data"}) \cup (d.flags \cap {"source_data"})
          /\ e.flags = (e.flags \ {"source_data"}) \cup (e.flags \cap {"source_data"})
      OBVIOUS
    <3>2. d.flags \ {"source_data"} = e.flags \ {"source_data"}
      BY <2>1
    <3>3. d.flags \cap {"source_data"} = e.flags \cap {"source_data"}
      BY <2>1
    <3> QED BY <3>1, <3>2, <3>3
  <2> QED BY <2>3, <2>4
<1>9. Kept(e, d, {"reasons", "needs"})
  BY <1>5, <1>6, <1>7, <1>8 DEF Kept, Fields
<1>10. f.reasons \ {"source"} # {} => Fact[x].amb
  BY <1>2 DEF Bare, Questions
<1>11. d.reasons \subseteq e.reasons \ {"owner"}
  <2>1. ASSUME NEW r \in d.reasons
        PROVE  r \in e.reasons \ {"owner"}
    <3>1. r \in Questions
      BY <1>6 DEF Bare
    <3> QED BY <1>2, <1>4, <1>6, <1>7, <1>10, <2>1, <3>1 DEF Questions
  <2> QED BY <2>1
<1>12. e.reasons \ {"owner", "category", "flow"} \subseteq d.reasons
  <2>1. ASSUME NEW r \in e.reasons \ {"owner", "category", "flow"}
        PROVE  r \in d.reasons
    <3>1. r \in Questions
      BY <1>7 DEF Bare
    <3> QED BY <1>3, <1>4, <1>6, <1>7, <2>1, <3>1 DEF Questions
  <2> QED BY <2>1
<1>13. Treated(d) /\ Treated(e) /\ Asks(d) /\ Asks(e)
  BY <1>6, <1>7 DEF Bare
<1> QED BY <1>8, <1>9, <1>11, <1>12, <1>13 DEF Cleared, d, e, f, g

LEMMA ClearedRow ==
    ASSUME NEW stock, NEW marked, NEW rules, NEW m, Held(m), NEW x
    PROVE  LET d == DerivedRow(stock, marked, rules, m, x)
               e == DerivedRow(stock, marked, rules, ReadBack(m), x)
           IN  d = e \/ (x \in Cut(m) /\ Cleared(d, e))
<1> SUFFICES ASSUME NEW s, s = ReadBack(m)
             PROVE  LET d == DerivedRow(stock, marked, rules, m, x)
                        e == DerivedRow(stock, marked, rules, s, x)
                    IN  d = e \/ (x \in Cut(m) /\ Cleared(d, e))
  OBVIOUS
<1> DEFINE k == BeforeCorrection(stock, rules, m, x)
           c == IF x \in DOMAIN m /\ DOMAIN m[x] # {} THEN Corrected(m[x], k) ELSE k
           l == IF x \in DOMAIN s /\ DOMAIN s[x] # {} THEN Corrected(s[x], k) ELSE k
           d == DerivedRow(stock, marked, rules, m, x)
           e == DerivedRow(stock, marked, rules, s, x)
<1>1. BeforeCorrection(stock, rules, s, x) = k /\ Known(x, k)
  BY SameBefore, BeforeCorrectionIs
<1>2. d = Reviewed(marked, x, c)
  BY DEF DerivedRow, BeforeCorrection, Reviewed
<1>3. e = Reviewed(marked, x, l)
  <2> DEFINE b == BeforeCorrection(stock, rules, s, x)
  <2>1. e = Reviewed(marked, x, IF x \in DOMAIN s /\ DOMAIN s[x] # {} THEN Corrected(s[x], b) ELSE b)
    BY DEF DerivedRow, BeforeCorrection, Reviewed
  <2> HIDE DEF b, k
  <2>2. b = k
    BY <1>1 DEF b
  <2> QED BY <2>1, <2>2
<1> HIDE DEF k, d, e
<1>4. DOMAIN s = DOMAIN m /\ \A y \in DOMAIN m : ReadAs(s, m, y)
  BY ReadBackIs DEF ReadBack
<1>5. CASE x \notin DOMAIN m \/ x \notin Cut(m)
  <2>1. c = l
    <3>1. x \in DOMAIN m => s[x] = m[x]
      BY <1>4, <1>5 DEF ReadAs
    <3> QED BY <1>4, <3>1
  <2> QED BY <1>2, <1>3, <2>1 DEF d, e
<1>6. CASE x \in DOMAIN m /\ x \in Cut(m)
  <2>1. "reasons" \in DOMAIN m[x] /\ m[x]["reasons"] = {}
    BY <1>6 DEF Cut
  <2>2. /\ "reasons" \notin DOMAIN s[x] /\ "needs" \in DOMAIN s[x]
        /\ \A g \in {"cat", "flow", "owner", "pair"} :
              /\ g \in DOMAIN s[x] <=> g \in DOMAIN m[x]
              /\ \A default : Field(s[x], g, default) = Field(m[x], g, default)
    BY <1>4, <1>6 DEF ReadAs
  <2>3. c = Corrected(m[x], k) /\ l = Corrected(s[x], k)
    BY <1>4, <1>6, <2>1, <2>2
  <2>4. Cleared(Reviewed(marked, x, Corrected(m[x], k)), Reviewed(marked, x, Corrected(s[x], k)))
    BY <1>1, <2>1, <2>2, ClearedCorrection
  <2>5. Cleared(d, e)
    BY <1>2, <1>3, <2>3, <2>4
  <2> QED BY <1>6, <2>5 DEF d, e
<1> QED BY <1>5, <1>6

-----------------------------------------------------------------------------
(* What learning changes.  A learned rule matches only rows that someone    *)
(* corrected, or whose overlap is open.                                     *)
LEMMA LearnedAreDecided ==
    ASSUME NEW rows, DOMAIN rows \subseteq Rows, NEW saves, NEW rule \in LearnedRules(rows, saves),
           NEW x \in DOMAIN rows, "overlap_count_ambiguous" \notin rows[x].flags, Matches(rule, x)
    PROVE  x \in DOMAIN saves
<1>1. ASSUME NEW S, Agreed(saves, S), x \in S
      PROVE  x \in DOMAIN saves
  <2>1. Evidence(saves, x) # {}
    BY <1>1 DEF Agreed
  <2> QED BY <2>1 DEF Evidence
<1>2. ASSUME NEW y \in Learnable(rows), NEW amount, NEW evidence, rule = ManagedRule(y, amount, evidence)
      PROVE  /\ x \in Alike(rows, y)
             /\ amount = <<Fact[y].amt, Fact[y].ccy>> => x \in AlikeInAmount(rows, y)
  <2>1. /\ rule.word = Fact[y].word /\ rule.acct = Fact[y].acct /\ rule.dir = Direction(y)
        /\ rule.amount = amount
    BY <1>2 DEF ManagedRule
  <2>2. /\ y \in DOMAIN rows /\ Direction(y) # None /\ Fact[y].word \notin Generic
    BY DEF Learnable
  <2>3. /\ None # Fact[y].word /\ None # Fact[y].acct /\ None # <<Fact[y].amt, Fact[y].ccy>>
    BY <2>2, FactsAssumption DEF FactsAssumption
  <2>4. Fact[x].word = Fact[y].word /\ Fact[x].acct = Fact[y].acct /\ Direction(x) = Direction(y)
    BY <2>1, <2>2, <2>3 DEF Matches
  <2>5. x \in Alike(rows, y)
    BY <2>2, <2>4 DEF Alike, Learnable, Signature
  <2>6. ASSUME amount = <<Fact[y].amt, Fact[y].ccy>>
        PROVE  x \in AlikeInAmount(rows, y)
    <3>1. <<Fact[y].amt, Fact[y].ccy>> = <<Fact[x].amt, Fact[x].ccy>>
      BY <2>1, <2>3, <2>6 DEF Matches
    <3> QED BY <2>5, <3>1 DEF AlikeInAmount
  <2> QED BY <2>5, <2>6
<1>3. CASE rule \in SignatureRules(rows, saves)
  <2>1. PICK y \in Learnable(rows) : Agreed(saves, Alike(rows, y)) /\ \E evidence : rule = ManagedRule(y, None, evidence)
    BY <1>3 DEF SignatureRules
  <2> QED BY <1>1, <1>2, <2>1
<1>4. CASE rule \in AmountRules(rows, saves)
  <2>1. PICK y \in Learnable(rows) :
           /\ Agreed(saves, AlikeInAmount(rows, y))
           /\ \E evidence : rule = ManagedRule(y, <<Fact[y].amt, Fact[y].ccy>>, evidence)
    BY <1>4 DEF AmountRules
  <2> QED BY <1>1, <1>2, <2>1
<1> QED BY <1>3, <1>4 DEF LearnedRules

\* Rules that do not match a row say nothing about it.
LEMMA OtherRules ==
    ASSUME NEW stock, NEW marked, NEW rules, NEW all, NEW m, NEW x,
           rules \subseteq all, \A rule \in all \ rules : ~Matches(rule, x)
    PROVE  DerivedRow(stock, marked, all, m, x) = DerivedRow(stock, marked, rules, m, x)
<1>1. FirstMatch(all, x) = FirstMatch(rules, x)
  BY DEF FirstMatch
<1>2. \A d : Ruled(all, x, d) = Ruled(rules, x, d)
  <2> DEFINE F == FirstMatch(all, x)
             G == FirstMatch(rules, x)
  <2>1. ASSUME NEW d
        PROVE  /\ Ruled(all, x, d) = IF F = {} THEN d ELSE RuledBy(CHOOSE rule \in F : TRUE, d)
               /\ Ruled(rules, x, d) = IF G = {} THEN d ELSE RuledBy(CHOOSE rule \in G : TRUE, d)
    BY Zenon DEF Ruled
  <2>2. F = G
    BY <1>1
  <2> HIDE DEF F, G
  <2> QED BY <2>1, <2>2
<1> QED BY <1>2 DEF DerivedRow

\* The category of a row that no one has corrected depends on no other row.
LEMMA OwnCategory ==
    ASSUME NEW A, Plain(A), NEW B, Plain(B), DOMAIN A = DOMAIN B,
           \A y \in DOMAIN A : A[y].pair = B[y].pair,
           NEW x \in DOMAIN A, A[x] = B[x], A[x].pair = None
    PROVE  Reconciled(A)[x].cat = Reconciled(B)[x].cat
<1>1. Legs(A) = Legs(B)
  BY EventsDependOnPairs DEF Legs
<1> DEFINE F == Crossing(A)
           G == Crossing(B)
<1>2. /\ Crossed(F) /\ DOMAIN F = DOMAIN A
      /\ F[x].pair = None
      /\ F[x].group # "exchange" /\ F[x].pair = None => F[x] = WithFlow(x, A[x])
      /\ F[x].group = "exchange" <=> \E p \in Legs(A) : x = p[1] \/ x = p[2]
  BY CrossingIs
<1>3. /\ Crossed(G) /\ DOMAIN G = DOMAIN B
      /\ G[x].pair = None
      /\ G[x].group # "exchange" /\ G[x].pair = None => G[x] = WithFlow(x, A[x])
      /\ G[x].group = "exchange" <=> \E p \in Legs(A) : x = p[1] \/ x = p[2]
  BY <1>1, CrossingIs
<1>4. Reconciled(A)[x].cat = F[x].cat /\ Reconciled(B)[x].cat = G[x].cat
  <2>1. \A rows : Plain(rows) /\ x \in DOMAIN rows =>
           Kept(Crossing(rows)[x], Reconciled(rows)[x],
                {"flow", "src", "partner", "group", "status", "reasons", "needs"})
    BY ReconciledIs
  <2> QED BY <2>1 DEF Kept, Fields
<1> HIDE DEF F, G
<1>5. F[x].cat = G[x].cat
  <2>1. CASE F[x].group = "exchange"
    <3>1. Leg(F, x) /\ Leg(G, x)
      BY <1>2, <1>3, <2>1 DEF Crossed
    <3> QED BY <3>1 DEF Leg
  <2>2. CASE F[x].group # "exchange"
    BY <1>2, <1>3, <2>2
  <2> QED BY <2>1, <2>2
<1> QED BY <1>4, <1>5

LEMMA LearningDecidesNothing ==
    ASSUME LedgerInv, [Next]_vars, managed' # managed,
           NEW x \in present \ DOMAIN saved, ~Fact[x].amb
    PROVE  shown'[x].cat = Derived(present, flagged, ManualRules, saved)[x].cat
<1>1. present \subseteq Rows
  BY DEF LedgerInv
<1>2. Learn
  <2>1. ASSUME NEW s, Import(s) PROVE FALSE
    BY <2>1 DEF Import
  <2>2. ASSUME NEW choices, Prepare(choices) \/ Save(choices) PROVE FALSE
    BY <2>2 DEF Prepare, Save
  <2>3. ASSUME NEW rows, NEW y, NEW z, NEW decision,
               Review(rows, y, decision) \/ ReviewPair(rows, y, z) \/ ResolveSource(rows, y)
        PROVE  FALSE
    BY <2>2, <2>3 DEF Review, ReviewPair, ResolveSource
  <2>4. ~GiveUp /\ ~Apply /\ ~UNCHANGED vars
    BY <2>2 DEF GiveUp, Apply, vars
  <2>5. ASSUME NEW y, NEW patch, Correct(y, patch) PROVE FALSE
    BY <2>2, <2>5 DEF Correct
  <2> QED BY <2>1, <2>3, <2>4, <2>5 DEF Next
<1> SUFFICES ASSUME NEW learned, learned = LearnedRules(Current, saved)
             PROVE  shown'[x].cat = Derived(present, flagged, ManualRules, saved)[x].cat
  OBVIOUS
<1>3. shown' = Derived(present, flagged, ManualRules \cup learned, saved)
  BY <1>2 DEF Learn, Published
<1> DEFINE A == Raw(present, flagged, ManualRules \cup learned, saved)
           B == Raw(present, flagged, ManualRules, saved)
           rows == Current
<1>4. /\ shown' = Reconciled(A) /\ Plain(A) /\ DOMAIN A = present
      /\ \A y \in present : A[y].pair = Says(saved, y, "pair", None)
  BY <1>1, <1>3, DerivedIs
<1>5. /\ Derived(present, flagged, ManualRules, saved) = Reconciled(B) /\ Plain(B) /\ DOMAIN B = present
      /\ \A y \in present : B[y].pair = Says(saved, y, "pair", None)
  BY <1>1, DerivedIs
<1>6. A[x].pair = None
  BY <1>4 DEF Says, Saves
<1>7. DOMAIN rows = present /\ "overlap_count_ambiguous" \notin rows[x].flags
  <2> DEFINE raw == Raw(present, flagged, Rules, saved)
             C == Crossing(raw)
  <2>1. rows = Reconciled(raw) /\ Plain(raw) /\ DOMAIN raw = present
    BY <1>1, DerivedIs DEF Current
  <2> HIDE DEF raw
  <2>2. Crossed(C) /\ DOMAIN C = present
    BY <2>1, CrossingIs
  <2>3. DOMAIN rows = present /\ Kept(C[x], rows[x], {"flow", "src", "partner", "group", "status", "reasons", "needs"})
    BY <2>1, ReconciledIs
  <2> HIDE DEF C, rows
  <2>4. rows[x].flags = C[x].flags
    BY <2>3 DEF Kept, Fields
  <2>5. Sound(x, C[x])
    BY <2>2 DEF Crossed
  <2> QED BY <2>3, <2>4, <2>5 DEF Sound
<1> HIDE DEF rows
<1>8. \A rule \in learned : ~Matches(rule, x)
  BY <1>1, <1>7, LearnedAreDecided DEF rows
<1>9. A[x] = B[x]
  <2>1. /\ A[x] = DerivedRow(present, flagged, ManualRules \cup learned, saved, x)
        /\ B[x] = DerivedRow(present, flagged, ManualRules, saved, x)
    BY DEF Raw
  <2> HIDE DEF A, B
  <2>2. DerivedRow(present, flagged, ManualRules \cup learned, saved, x)
          = DerivedRow(present, flagged, ManualRules, saved, x)
    <3>1. ASSUME NEW all, all = ManualRules \cup learned
          PROVE  DerivedRow(present, flagged, all, saved, x) = DerivedRow(present, flagged, ManualRules, saved, x)
      <4>1. ManualRules \subseteq all /\ \A rule \in all \ ManualRules : ~Matches(rule, x)
        BY ONLY <1>8, <3>1
      <4> QED BY ONLY <4>1, OtherRules
    <3> QED BY <3>1
  <2> QED BY <2>1, <2>2
<1> HIDE DEF A, B
<1> QED BY <1>4, <1>5, <1>6, <1>9, OwnCategory

-----------------------------------------------------------------------------
(* How far a difference between two ledgers reaches: A and B are the same   *)
(* but for the rows of S.                                                   *)
SameBut(A, B, S) ==
    Function(A) /\ Function(B) /\ DOMAIN A = DOMAIN B /\ \A x \in DOMAIN A \ S : A[x] = B[x]

\* The rows that a row outside S is paired with by hand are not moved.
PairsKept(A, B, S) ==
    \A x \in DOMAIN A \ S : \A y \in DOMAIN A :
        A[x].pair # None /\ A[x].pair \in {A[y].pair, B[y].pair} =>
            A[y].pair = B[y].pair /\ A[y].owner = B[y].owner

\* A row's flow is its own.
LEMMA FlowsReach ==
    ASSUME NEW A, Plain(A), NEW B, Plain(B), NEW S, SameBut(A, B, S), PairsKept(A, B, S)
    PROVE  LET F == WithFlows(A)
               G == WithFlows(B)
           IN  SameBut(F, G, S) /\ PairsKept(F, G, S) /\ DOMAIN F = DOMAIN A
<1> DEFINE F == WithFlows(A)
           G == WithFlows(B)
<1>1. /\ Function(F) /\ DOMAIN F = DOMAIN A
      /\ \A x \in DOMAIN A : F[x] = WithFlow(x, A[x]) /\ Kept(A[x], F[x], {"flow", "src"})
  BY WithFlowsIs DEF Opened
<1>2. /\ Function(G) /\ DOMAIN G = DOMAIN B
      /\ \A x \in DOMAIN B : G[x] = WithFlow(x, B[x]) /\ Kept(B[x], G[x], {"flow", "src"})
  BY WithFlowsIs DEF Opened
<1> HIDE DEF F, G
<1>3. /\ DOMAIN A = DOMAIN B
      /\ \A x \in DOMAIN A : /\ F[x].pair = A[x].pair /\ F[x].owner = A[x].owner
                             /\ G[x].pair = B[x].pair /\ G[x].owner = B[x].owner
  BY <1>1, <1>2 DEF SameBut, Kept, Fields
<1>4. SameBut(F, G, S)
  BY <1>1, <1>2 DEF SameBut
<1>5. PairsKept(F, G, S)
  BY <1>1, <1>3 DEF PairsKept
<1> QED BY <1>1, <1>4, <1>5 DEF F, G

\* Manual pairs reach no further than the rows that share one.
LEMMA ManualPairsReach ==
    ASSUME NEW A, NEW B, NEW S, SameBut(A, B, S), PairsKept(A, B, S)
    PROVE  LET F == WithManualPairs(A)
               G == WithManualPairs(B)
           IN  SameBut(F, G, S) /\ DOMAIN F = DOMAIN A
<1> DEFINE F == WithManualPairs(A)
           G == WithManualPairs(B)
           named(rows, x) == CHOOSE y \in ManualPartner(rows, x) : TRUE
<1>1. /\ F = [x \in DOMAIN A |->
                IF x \notin Marked(A) THEN A[x]
                ELSE IF ManualPartner(A, x) = {} THEN InvalidPair(A[x])
                ELSE PairedManually(A[x], named(A, x))]
      /\ G = [x \in DOMAIN B |->
                IF x \notin Marked(B) THEN B[x]
                ELSE IF ManualPartner(B, x) = {} THEN InvalidPair(B[x])
                ELSE PairedManually(B[x], named(B, x))]
  BY TabulatedIs DEF WithManualPairs
<1>2. DOMAIN A = DOMAIN B /\ \A x \in DOMAIN A \ S : A[x] = B[x]
  BY DEF SameBut
<1>3. ASSUME NEW x \in Marked(A) \ S
      PROVE  ManualPartner(A, x) = ManualPartner(B, x)
  <2>1. x \in DOMAIN A \ S /\ A[x] = B[x] /\ A[x].pair # None
    BY <1>2, <1>3 DEF Marked
  <2>2. \A y \in DOMAIN A : A[x].pair \in {A[y].pair, B[y].pair} =>
           A[y].pair = B[y].pair /\ A[y].owner = B[y].owner
    BY <2>1 DEF PairsKept
  <2>3. Sharing(A, x) = Sharing(B, x) /\ Sharing(A, x) \subseteq DOMAIN A
    <3>1. Sharing(A, x) = {y \in DOMAIN A : A[y].pair = A[x].pair}
      BY <2>1 DEF Sharing, Marked
    <3>2. Sharing(B, x) = {y \in DOMAIN A : B[y].pair = A[x].pair}
      BY <1>2, <2>1 DEF Sharing, Marked
    <3> QED BY <2>2, <3>1, <3>2
  <2>4. \A y \in Sharing(A, x) : A[y].owner = B[y].owner
    BY <2>1, <2>2 DEF Sharing, Marked
  <2>5. \A y \in Sharing(A, x) : ManualFacts(x, y, A) <=> ManualFacts(x, y, B)
    BY <2>1, <2>4 DEF ManualFacts
  <2> QED BY <2>3, <2>5 DEF ManualPartner
<1>4. \A x \in Marked(A) \ S : named(A, x) = named(B, x)
  BY <1>3
<1> HIDE DEF named, F, G
<1>5. Function(F) /\ Function(G) /\ DOMAIN F = DOMAIN A /\ DOMAIN G = DOMAIN A
  BY <1>1, <1>2 DEF Function
<1>6. ASSUME NEW x \in DOMAIN A \ S
      PROVE  F[x] = G[x]
  <2>1. A[x] = B[x] /\ (x \in Marked(A) <=> x \in Marked(B))
    BY <1>2 DEF Marked
  <2>2. CASE x \notin Marked(A)
    BY <1>1, <1>2, <2>1, <2>2
  <2>3. CASE x \in Marked(A)
    <3>1. ManualPartner(A, x) = ManualPartner(B, x) /\ named(A, x) = named(B, x)
      BY <1>3, <1>4, <2>3
    <3> QED BY <1>1, <1>2, <2>1, <2>3, <3>1
  <2> QED BY <2>2, <2>3
<1> QED BY <1>5, <1>6 DEF SameBut, F, G

\* An exchange reaches no further than the debits and deposits of its institution.
Exchanging(x) == Fact[x].word \in {"exchange", "deposit"}

LEMMA EventsReach ==
    ASSUME NEW A, DOMAIN A \subseteq Rows, NEW B, DOMAIN B \subseteq Rows, NEW inst,
           DOMAIN A = DOMAIN B,
           \A x \in DOMAIN A : Fact[x].inst = inst /\ Exchanging(x) => A[x] = B[x],
           NEW e \in Events(A), e.inst = inst
    PROVE  e \in Events(B)
<1> DEFINE p == PlaceOf(e)
<1>1. /\ e.debits = {x \in Debits(A) : Place(x) = p}
      /\ e.deposits = {x \in Deposits(A) : Place(x) = p}
      /\ e = Event(Debits(A), Deposits(A), p)
  BY EventIs
<1>2. PICK y \in Debits(A) : e = Event(Debits(A), Deposits(A), Place(y))
  BY DEF Events, Debits, Deposits
<1>3. p = Place(y) /\ p.inst = inst
  <2>1. e.day = Place(y).day /\ e.inst = Place(y).inst
    BY <1>2 DEF Event
  <2> QED BY <2>1 DEF PlaceOf, Place
<1>4. \A x \in DOMAIN A : Place(x) = p /\ Exchanging(x) => (x \in Free(A) <=> x \in Free(B))
  <2>1. ASSUME NEW x \in DOMAIN A, Place(x) = p, Exchanging(x)
        PROVE  x \in Free(A) <=> x \in Free(B)
    <3>1. Fact[x].inst = inst
      BY <1>3, <2>1 DEF Place
    <3>2. A[x] = B[x]
      BY <2>1, <3>1
    <3> QED BY <3>2 DEF Free
  <2> QED BY <2>1
<1>5. \A x : (x \in Debits(A) /\ Place(x) = p) <=> (x \in Debits(B) /\ Place(x) = p)
  BY <1>4 DEF Debits, Free, IsDebit, Exchanging
<1>6. \A x : (x \in Deposits(A) /\ Place(x) = p) <=> (x \in Deposits(B) /\ Place(x) = p)
  BY <1>4 DEF Deposits, Free, IsDeposit, Exchanging
<1>7. e = Event(Debits(B), Deposits(B), p)
  <2>1. {x \in Debits(A) : Place(x) = p} = {x \in Debits(B) : Place(x) = p}
    BY <1>5
  <2>2. {x \in Deposits(A) : Place(x) = p} = {x \in Deposits(B) : Place(x) = p}
    BY <1>6
  <2> HIDE DEF p
  <2>3. Event(Debits(A), Deposits(A), p) = Event(Debits(B), Deposits(B), p)
    BY <2>1, <2>2 DEF Event
  <2> QED BY <1>1, <2>3
<1>8. y \in Debits(B)
  BY <1>3, <1>5
<1>9. Cardinality(e.debits) = Cardinality(e.deposits) /\ Cardinality(e.ccy) = 1
  BY DEF Events
<1> QED BY <1>3, <1>7, <1>8, <1>9 DEF Events, Debits, Deposits

\* The cohort of an event is of its institution.
LEMMA ReferencesReach ==
    ASSUME NEW E, NEW F, NEW e, \A f : f.inst = e.inst => (f \in E <=> f \in F)
    PROVE  ReferenceRate(E, e) = ReferenceRate(F, e)
<1>1. {f \in E : f.inst = e.inst /\ f.ccy = e.ccy} = {f \in F : f.inst = e.inst /\ f.ccy = e.ccy}
  OBVIOUS
<1>2. CohortRate(E, e) = CohortRate(F, e)
  BY <1>1 DEF CohortRate
<1> QED BY <1>2 DEF ReferenceRate

\* An exchange pair is made of one event.
LEMMA PairOfEvent ==
    ASSUME NEW rows, DOMAIN rows \subseteq Rows, NEW p \in PairsAmong(Events(rows))
    PROVE  \E e \in Events(rows) : \E r \in ReferenceRate(Events(rows), e) :
              /\ p \in PairsBy(Trial(e, r), OnlyMatching(Trial(e, r).edges))
              /\ p[1] \in e.debits /\ p[2] \in e.deposits
<1>1. PICK t \in Trials(Events(rows)) : p \in PairsBy(t, OnlyMatching(t.edges))
  BY ExchangePairsAre
<1>2. PICK e \in Events(rows) : \E r \in ReferenceRate(Events(rows), e) : t = Trial(e, r)
  BY DEF Trials
<1>3. PICK r \in ReferenceRate(Events(rows), e) : t = Trial(e, r)
  BY <1>2
<1> DEFINE n == Cardinality(e.debits)
<1>4. /\ n \in Nat
      /\ t.debit \in [1..n -> e.debits] /\ t.deposit \in [1..n -> e.deposits]
      /\ t.edges \in [1..n -> SUBSET (1..n)]
  BY <1>3, TrialIs
<1> HIDE DEF n
<1>5. PICK m \in OnlyMatching(t.edges) : p \in {<<t.debit[b], t.deposit[m[b]]>> : b \in DOMAIN m}
  BY <1>1 DEF PairsBy
<1>6. m \in [1..n -> 1..n]
  BY <1>4, OnlyMatchingIs
<1>7. PICK b \in 1..n : p = <<t.debit[b], t.deposit[m[b]]>>
  BY <1>5, <1>6
<1>8. p[1] \in e.debits /\ p[2] \in e.deposits
  BY <1>4, <1>6, <1>7
<1> QED BY <1>1, <1>3, <1>8

LEMMA PairsReach ==
    ASSUME NEW A, DOMAIN A \subseteq Rows, NEW B, DOMAIN B \subseteq Rows, NEW inst,
           DOMAIN A = DOMAIN B,
           \A x \in DOMAIN A : Fact[x].inst = inst /\ Exchanging(x) => A[x] = B[x],
           NEW p \in PairsAmong(Events(A)), inst \in {Fact[p[1]].inst, Fact[p[2]].inst}
    PROVE  p \in PairsAmong(Events(B))
<1> DEFINE E == Events(A)
           F == Events(B)
<1>1. PICK e \in E : \E r \in ReferenceRate(E, e) :
              /\ p \in PairsBy(Trial(e, r), OnlyMatching(Trial(e, r).edges))
              /\ p[1] \in e.debits /\ p[2] \in e.deposits
  BY PairOfEvent
<1>2. PICK r \in ReferenceRate(E, e) : p \in PairsBy(Trial(e, r), OnlyMatching(Trial(e, r).edges))
  BY <1>1
<1>3. e.inst = inst
  <2>1. Place(p[1]) = PlaceOf(e) /\ Place(p[2]) = PlaceOf(e)
    BY <1>1, EventIs
  <2> QED BY <2>1 DEF Place, PlaceOf
<1>4. \A f : f.inst = inst => (f \in E <=> f \in F)
  <2>1. \A f \in E : f.inst = inst => f \in F
    BY EventsReach
  <2>2. \A f \in F : f.inst = inst => f \in E
    BY EventsReach
  <2> QED BY <2>1, <2>2
<1> HIDE DEF E, F
<1>5. e \in F /\ r \in ReferenceRate(F, e)
  BY <1>3, <1>4, ReferencesReach
<1>6. Trial(e, r) \in Trials(F)
  BY <1>5 DEF Trials
<1>7. PairsAmong(F) = UNION {PairsBy(t, OnlyMatching(t.edges)) : t \in Trials(F)}
  BY ExchangePairsAre DEF F
<1> QED BY <1>2, <1>6, <1>7 DEF F

LEMMA ExchangesReach ==
    ASSUME NEW A, DOMAIN A = present, present \subseteq Rows, NEW B, NEW S, SameBut(A, B, S)
    PROVE  LET F == WithExchanges(A)
               G == WithExchanges(B)
           IN  SameBut(F, G, ExchangeReach(S)) /\ DOMAIN F = DOMAIN A
<1> DEFINE F == WithExchanges(A)
           G == WithExchanges(B)
           P == PairsAmong(Events(A))
           Q == PairsAmong(Events(B))
           deposit(R, x) == (CHOOSE p \in R : x = p[1])[2]
           debit(R, x) == (CHOOSE p \in R : x = p[2])[1]
<1>1. DOMAIN A = DOMAIN B /\ \A x \in DOMAIN A \ S : A[x] = B[x]
  BY DEF SameBut
<1>2. /\ F = [x \in DOMAIN A |->
                IF \E p \in P : x = p[1] THEN PairedAcrossCurrencies(A[x], deposit(P, x), A[x].value)
                ELSE IF \E p \in P : x = p[2]
                THEN PairedAcrossCurrencies(A[x], debit(P, x), {Abs(Fact[debit(P, x)].amt)})
                ELSE A[x]]
      /\ G = [x \in DOMAIN B |->
                IF \E p \in Q : x = p[1] THEN PairedAcrossCurrencies(B[x], deposit(Q, x), B[x].value)
                ELSE IF \E p \in Q : x = p[2]
                THEN PairedAcrossCurrencies(B[x], debit(Q, x), {Abs(Fact[debit(Q, x)].amt)})
                ELSE B[x]]
  <2>1. F = Exchanged(A, P) /\ G = Exchanged(B, Q)
    BY TabulatedIs DEF WithExchanges
  <2> HIDE DEF P, Q
  <2> QED BY <2>1 DEF Exchanged
<1>3. /\ P \subseteq Debits(A) \X Deposits(A) /\ \A p, q \in P : p[1] = q[1] \/ p[2] = q[2] => p = q
      /\ Q \subseteq Debits(B) \X Deposits(B) /\ \A p, q \in Q : p[1] = q[1] \/ p[2] = q[2] => p = q
  BY <1>1, ExchangePairsAre
<1>4. ASSUME NEW x \in DOMAIN A \ ExchangeReach(S), NEW p, x = p[1] \/ x = p[2], p \in P \/ p \in Q
      PROVE  p \in P /\ p \in Q
  <2>1. Exchanging(x)
    <3>1. (p[1] \in Debits(A) /\ p[2] \in Deposits(A)) \/ (p[1] \in Debits(B) /\ p[2] \in Deposits(B))
      BY <1>3, <1>4
    <3> QED BY <1>4, <3>1 DEF Debits, Deposits, IsDebit, IsDeposit, Exchanging
  <2>2. \A y \in DOMAIN A : Fact[y].inst = Fact[x].inst /\ Exchanging(y) => A[y] = B[y]
    <3>1. \A y \in S : Fact[y].inst = Fact[x].inst => ~Exchanging(y)
      BY <2>1 DEF ExchangeReach, Exchanging
    <3> QED BY <1>1, <3>1
  <2>3. Fact[x].inst \in {Fact[p[1]].inst, Fact[p[2]].inst}
    BY <1>4
  <2>4. p \in P => p \in Q
    BY <1>1, <2>2, <2>3, PairsReach
  <2>5. p \in Q => p \in P
    <3>1. \A y \in DOMAIN B : Fact[y].inst = Fact[x].inst /\ Exchanging(y) => B[y] = A[y]
      BY <1>1, <2>2
    <3> QED BY <1>1, <2>3, <3>1, PairsReach
  <2> QED BY <1>4, <2>4, <2>5
<1> HIDE DEF P, Q
<1>5. ASSUME NEW R, \A p, q \in R : p[1] = q[1] \/ p[2] = q[2] => p = q, NEW p \in R
      PROVE  deposit(R, p[1]) = p[2] /\ debit(R, p[2]) = p[1]
  <2>1. (CHOOSE q \in R : p[1] = q[1]) = p
    BY <1>5
  <2>2. (CHOOSE q \in R : p[2] = q[2]) = p
    BY <1>5
  <2> QED BY <2>1, <2>2
<1> HIDE DEF F, G, deposit, debit
<1>6. Function(F) /\ Function(G) /\ DOMAIN F = DOMAIN A /\ DOMAIN G = DOMAIN A
  BY <1>1, <1>2 DEF Function
<1>7. ASSUME NEW x \in DOMAIN A \ ExchangeReach(S)
      PROVE  F[x] = G[x]
  <2>1. x \in DOMAIN B /\ A[x] = B[x]
    BY <1>1 DEF ExchangeReach
  <2>2. /\ \A p \in P : x = p[1] \/ x = p[2] => p \in Q
        /\ \A p \in Q : x = p[1] \/ x = p[2] => p \in P
    BY <1>4
  <2>3. CASE \E p \in P : x = p[1]
    <3>1. PICK p \in P : x = p[1]
      BY <2>3
    <3>2. deposit(P, x) = p[2] /\ deposit(Q, x) = p[2]
      BY <1>3, <1>5, <2>2, <3>1
    <3>3. /\ F[x] = PairedAcrossCurrencies(A[x], deposit(P, x), A[x].value)
          /\ G[x] = PairedAcrossCurrencies(B[x], deposit(Q, x), B[x].value)
      BY <1>2, <2>1, <2>2, <3>1
    <3> QED BY <2>1, <3>2, <3>3
  <2>4. CASE ~(\E p \in P : x = p[1]) /\ \E p \in P : x = p[2]
    <3>1. PICK p \in P : x = p[2]
      BY <2>4
    <3>2. debit(P, x) = p[1] /\ debit(Q, x) = p[1]
      BY <1>3, <1>5, <2>2, <3>1
    <3>3. /\ F[x] = PairedAcrossCurrencies(A[x], debit(P, x), {Abs(Fact[debit(P, x)].amt)})
          /\ G[x] = PairedAcrossCurrencies(B[x], debit(Q, x), {Abs(Fact[debit(Q, x)].amt)})
      BY <1>2, <2>1, <2>2, <2>4
    <3> QED BY <2>1, <3>2, <3>3
  <2>5. CASE ~(\E p \in P : x = p[1]) /\ ~(\E p \in P : x = p[2])
    <3>1. F[x] = A[x] /\ G[x] = B[x]
      BY <1>2, <2>1, <2>2, <2>5
    <3> QED BY <2>1, <3>1
  <2> QED BY <2>3, <2>4, <2>5
<1> QED BY <1>6, <1>7 DEF SameBut, F, G

\* A transfer reaches no further than two steps along what the facts allow.
LEMMA TransfersReach ==
    ASSUME NEW A, DOMAIN A = present, present \subseteq Rows, NEW B, NEW S, SameBut(A, B, S)
    PROVE  LET F == WithTransfers(A)
               G == WithTransfers(B)
           IN  SameBut(F, G, TransferReach(TransferReach(S))) /\ DOMAIN F = present
<1> DEFINE F == WithTransfers(A)
           G == WithTransfers(B)
           D == Candidates(A)
           E == Candidates(B)
           near == TransferReach(S)
           partner(cands, x) == CHOOSE y \in TransferPartner(cands, x) : TRUE
<1>1. DOMAIN A = DOMAIN B /\ \A x \in DOMAIN A \ S : A[x] = B[x]
  BY DEF SameBut
<1>2. /\ D = [x \in Eligible(A) |-> {y \in Eligible(A) : MayTransfer(A, x, y)}]
      /\ E = [x \in Eligible(B) |-> {y \in Eligible(B) : MayTransfer(B, x, y)}]
  BY TabulatedIs DEF Candidates, CandidatesAmong
<1>3. /\ F = [x \in DOMAIN A |->
                IF x \notin DOMAIN D THEN Unmatched(A[x])
                ELSE IF TransferPartner(D, x) # {} THEN PairedAsTransfer(x, partner(D, x), A[x])
                ELSE IF D[x] # {} THEN AmbiguousRow(A[x])
                ELSE Unmatched(A[x])]
      /\ G = [x \in DOMAIN B |->
                IF x \notin DOMAIN E THEN Unmatched(B[x])
                ELSE IF TransferPartner(E, x) # {} THEN PairedAsTransfer(x, partner(E, x), B[x])
                ELSE IF E[x] # {} THEN AmbiguousRow(B[x])
                ELSE Unmatched(B[x])]
  <2>1. F = Transferred(A, D) /\ G = Transferred(B, E)
    BY TabulatedIs DEF WithTransfers
  <2> HIDE DEF D, E
  <2> QED BY <2>1 DEF Transferred
<1> HIDE DEF F, G, D, E
<1>4. \A x \in DOMAIN A \ S : x \in Eligible(A) <=> x \in Eligible(B)
  <2>1. ASSUME NEW x \in DOMAIN A \ S
        PROVE  x \in Eligible(A) <=> x \in Eligible(B)
    <3>1. A[x] = B[x] /\ x \in DOMAIN B
      BY <1>1
    <3> QED BY <3>1 DEF Eligible
  <2> QED BY <2>1
<1>5. \A x, y \in DOMAIN A \ S : MayTransfer(A, x, y) <=> MayTransfer(B, x, y)
  <2>1. ASSUME NEW x \in DOMAIN A \ S, NEW y \in DOMAIN A \ S
        PROVE  MayTransfer(A, x, y) <=> MayTransfer(B, x, y)
    <3>1. \A z \in {x, y} : A[z] = B[z]
      BY <1>1
    <3> QED BY <3>1 DEF MayTransfer
  <2> QED BY <2>1
\* What the facts do not allow is no candidate.
<1>6. \A x : /\ x \in Eligible(A) => x \in DOMAIN A /\ Value(x) # {} /\ Value(x) # {0}
             /\ x \in Eligible(B) => x \in DOMAIN A /\ Value(x) # {} /\ Value(x) # {0}
  BY <1>1 DEF Eligible
<1>7. ASSUME NEW rows, NEW x, NEW y, MayTransfer(rows, x, y), Value(x) # {}, Value(x) # {0}
      PROVE  FactsAllow(x, y)
  BY <1>7 DEF MayTransfer, FactsAllow
<1>8. ASSUME NEW x \in DOMAIN A \ near
      PROVE  /\ x \in DOMAIN D <=> x \in DOMAIN E
             /\ x \in DOMAIN D => D[x] = E[x] /\ \A y \in D[x] : y \in DOMAIN A /\ FactsAllow(x, y)
  <2>1. x \notin S /\ \A y \in S : ~FactsAllow(x, y)
    BY <1>8 DEF TransferReach
  <2>2. x \in Eligible(A) <=> x \in Eligible(B)
    BY <1>4, <2>1
  <2>3. ASSUME x \in Eligible(A)
        PROVE  /\ {y \in Eligible(A) : MayTransfer(A, x, y)} = {y \in Eligible(B) : MayTransfer(B, x, y)}
               /\ \A y \in Eligible(A) : MayTransfer(A, x, y) => y \in DOMAIN A /\ FactsAllow(x, y)
    <3>1. Value(x) # {} /\ Value(x) # {0}
      BY <1>6, <2>3
    <3>2. ASSUME NEW y, (y \in Eligible(A) /\ MayTransfer(A, x, y)) \/ (y \in Eligible(B) /\ MayTransfer(B, x, y))
          PROVE  /\ y \in Eligible(A) /\ MayTransfer(A, x, y) /\ y \in Eligible(B) /\ MayTransfer(B, x, y)
                 /\ y \in DOMAIN A /\ FactsAllow(x, y)
      <4>1. FactsAllow(x, y) /\ y \in DOMAIN A
        BY <1>6, <1>7, <3>1, <3>2
      <4>2. y \in DOMAIN A \ S
        BY <2>1, <4>1
      <4> QED BY <1>4, <1>5, <2>1, <3>2, <4>1, <4>2
    <3> QED BY <3>2
  <2> QED BY <1>2, <2>2, <2>3
<1>9. S \subseteq near /\ near \subseteq TransferReach(near)
  BY DEF TransferReach
<1>10. ASSUME NEW x \in DOMAIN A \ TransferReach(near), x \in DOMAIN D
       PROVE  TransferPartner(D, x) = TransferPartner(E, x)
  <2>1. D[x] = E[x] /\ \A y \in D[x] : y \in DOMAIN A /\ FactsAllow(x, y)
    BY <1>8, <1>9, <1>10
  <2>2. \A y \in near : ~FactsAllow(x, y)
    BY <1>10 DEF TransferReach
  <2>3. Best(D, x) = Best(E, x) /\ Best(D, x) \subseteq D[x]
    BY <2>1 DEF Best
  <2>4. ASSUME NEW y \in Best(D, x)
        PROVE  Best(D, y) = Best(E, y)
    <3>1. y \in DOMAIN A \ near
      BY <2>1, <2>2, <2>3
    <3>2. y \in Eligible(A)
      BY <1>2, <1>10, <2>3
    <3>3. y \in DOMAIN D
      BY <1>2, <3>2
    <3>4. D[y] = E[y]
      BY <1>8, <3>1, <3>3
    <3> QED BY <3>4 DEF Best
  <2> QED BY <2>3, <2>4 DEF TransferPartner
<1>11. \A x \in DOMAIN A \ TransferReach(near) : x \in DOMAIN D => partner(D, x) = partner(E, x)
  BY <1>10
<1> HIDE DEF partner
<1>12. Function(F) /\ Function(G) /\ DOMAIN F = DOMAIN A /\ DOMAIN G = DOMAIN A
  BY <1>1, <1>3 DEF Function
<1>13. ASSUME NEW x \in DOMAIN A \ TransferReach(near)
       PROVE  F[x] = G[x]
  <2>1. x \in DOMAIN B /\ A[x] = B[x]
    BY <1>1, <1>9
  <2>2. x \in DOMAIN D <=> x \in DOMAIN E
    BY <1>8, <1>9
  <2>3. CASE x \notin DOMAIN D
    BY <1>3, <2>1, <2>2, <2>3
  <2>4. CASE x \in DOMAIN D
    <3>1. D[x] = E[x]
      BY <1>8, <1>9, <2>4
    <3>2. TransferPartner(D, x) = TransferPartner(E, x) /\ partner(D, x) = partner(E, x)
      BY <1>10, <1>11, <2>4
    <3> QED BY <1>3, <2>1, <2>2, <2>4, <3>1, <3>2
  <2> QED BY <2>3, <2>4
<1> QED BY <1>12, <1>13 DEF SameBut, F, G

\* The whole reconciliation.
LEMMA ReconciliationReach ==
    ASSUME NEW A, Plain(A), NEW B, Plain(B), NEW S, SameBut(A, B, S), PairsKept(A, B, S),
           DOMAIN A = present, NEW x \in present, Reconciled(A)[x] # Reconciled(B)[x]
    PROVE  x \in Reach(S)
<1> DEFINE F1 == WithFlows(A)
           G1 == WithFlows(B)
           F2 == WithManualPairs(F1)
           G2 == WithManualPairs(G1)
           F3 == WithExchanges(F2)
           G3 == WithExchanges(G2)
           F4 == WithTransfers(F3)
           G4 == WithTransfers(G3)
           far == Reach(S)
<1>1. present \subseteq Rows
  BY DEF Plain
<1>2. SameBut(F1, G1, S) /\ PairsKept(F1, G1, S) /\ DOMAIN F1 = present
  BY FlowsReach
<1> HIDE DEF F1, G1
<1>3. SameBut(F2, G2, S) /\ DOMAIN F2 = present
  BY <1>2, ManualPairsReach
<1> HIDE DEF F2, G2
<1>4. SameBut(F3, G3, ExchangeReach(S)) /\ DOMAIN F3 = present
  BY <1>1, <1>3, ExchangesReach
<1> HIDE DEF F3, G3
<1>5. SameBut(F4, G4, far) /\ DOMAIN F4 = present
  BY <1>1, <1>4, TransfersReach DEF Reach
<1> HIDE DEF far
<1>6. Reconciled(A) = AllSynchronized(F4) /\ Reconciled(B) = AllSynchronized(G4)
  BY DEF Reconciled, F4, G4, F3, G3, F2, G2, F1, G1
<1> HIDE DEF F4, G4
<1>7. /\ AllSynchronized(F4) = [y \in DOMAIN F4 |-> Synchronized(F4[y])]
      /\ AllSynchronized(G4) = [y \in DOMAIN G4 |-> Synchronized(G4[y])]
  BY TabulatedIs DEF AllSynchronized
<1>8. Reconciled(A)[x] = Synchronized(F4[x]) /\ Reconciled(B)[x] = Synchronized(G4[x])
  BY <1>5, <1>6, <1>7 DEF SameBut
<1>9. x \notin far => F4[x] = G4[x]
  BY <1>5 DEF SameBut
<1> QED BY <1>8, <1>9 DEF far

-----------------------------------------------------------------------------
(* How far a saved choice reaches.  What a command holds is what was saved, *)
(* but for its choices.                                                     *)
LEMMA MergedHolds ==
    ASSUME Mapping(saved), \A x \in DOMAIN saved : Read(saved[x]), NEW choices, NEW m, m = Merged(choices)
    PROVE  /\ DOMAIN m = DOMAIN saved \cup DOMAIN choices
           /\ \A x \in DOMAIN saved \ DOMAIN choices : m[x] = saved[x]
           /\ \A x \in DOMAIN choices : /\ Mapping(m[x]) /\ DOMAIN choices[x] \subseteq DOMAIN m[x]
                                        /\ \A g \in DOMAIN choices[x] : m[x][g] = choices[x][g]
<1> DEFINE new(x) == IF x \in DOMAIN choices THEN choices[x] ELSE <<>>
           old(x) == IF x \in DOMAIN saved THEN saved[x] ELSE <<>>
<1>1. DOMAIN m = DOMAIN saved \cup DOMAIN choices /\ \A x \in DOMAIN m : m[x] = Over(new(x), old(x))
  BY DEF Merged
<1>2. \A x \in DOMAIN choices : new(x) = choices[x]
  OBVIOUS
<1>3. \A x \in DOMAIN saved \ DOMAIN choices : DOMAIN new(x) = {} /\ old(x) = saved[x]
  BY EmptyIs
<1> HIDE DEF new, old
<1>4. ASSUME NEW x \in DOMAIN saved \ DOMAIN choices
      PROVE  m[x] = saved[x]
  <2>1. m[x] = Over(new(x), saved[x]) /\ DOMAIN new(x) = {}
    BY <1>1, <1>3
  <2>2. LET f == Over(new(x), saved[x]) IN
        /\ Mapping(f) /\ DOMAIN f = DOMAIN new(x) \cup DOMAIN saved[x]
        /\ \A g \in DOMAIN saved[x] : g \notin DOMAIN new(x) => f[g] = saved[x][g]
    BY OverIs
  <2>3. Mapping(m[x]) /\ DOMAIN m[x] = DOMAIN saved[x] /\ \A g \in DOMAIN saved[x] : m[x][g] = saved[x][g]
    BY <2>1, <2>2
  <2>4. Mapping(saved[x])
    BY DEF Read
  <2> QED BY <2>3, <2>4 DEF Mapping
<1>5. ASSUME NEW x \in DOMAIN choices
      PROVE  /\ Mapping(m[x]) /\ DOMAIN choices[x] \subseteq DOMAIN m[x]
             /\ \A g \in DOMAIN choices[x] : m[x][g] = choices[x][g]
  <2>1. m[x] = Over(choices[x], old(x))
    BY <1>1, <1>2
  <2>2. LET f == Over(choices[x], old(x)) IN
        /\ Mapping(f) /\ DOMAIN f = DOMAIN choices[x] \cup DOMAIN old(x)
        /\ \A g \in DOMAIN choices[x] : f[g] = choices[x][g]
    BY OverIs
  <2> QED BY <2>1, <2>2
<1> QED BY <1>1, <1>4, <1>5

\* If anything changes, then every row that was chosen for does.
LEMMA ChoicesChange ==
    ASSUME Mapping(saved), \A x \in DOMAIN saved : Read(saved[x]),
           NEW choices, WorkedOutNow(choices) \/ \E x, patch : choices = For(x, patch),
           NEW m, m = Merged(choices), ReadBack(m) # saved, NEW x \in DOMAIN choices
    PROVE  x \in DOMAIN saved => ReadBack(m)[x] # saved[x]
<1>1. /\ DOMAIN m = DOMAIN saved \cup DOMAIN choices
      /\ \A y \in DOMAIN saved \ DOMAIN choices : m[y] = saved[y]
      /\ \A y \in DOMAIN choices : /\ Mapping(m[y]) /\ DOMAIN choices[y] \subseteq DOMAIN m[y]
                                   /\ \A g \in DOMAIN choices[y] : m[y][g] = choices[y][g]
  BY MergedHolds
<1> DEFINE c == ReadBack(m)
<1>2. c = [y \in DOMAIN m |-> Loaded(m[y])]
  BY DEF ReadBack
<1> HIDE DEF c
<1>3. \A y \in DOMAIN saved \ DOMAIN choices : c[y] = saved[y]
  <2>1. ASSUME NEW y \in DOMAIN saved \ DOMAIN choices
        PROVE  c[y] = saved[y]
    <3>1. c[y] = Loaded(saved[y])
      BY <1>1, <1>2
    <3>2. Read(saved[y]) /\ Mapping(saved[y])
      BY DEF Read
    <3> QED BY <3>1, <3>2, LoadedIs
  <2> QED BY <2>1
<1>4. ASSUME NEW y, NEW patch, choices = For(y, patch), x \in DOMAIN saved, c[x] = saved[x]
      PROVE  FALSE
  <2>1. DOMAIN choices = {x}
    BY <1>4 DEF For
  <2>2. DOMAIN c = DOMAIN saved /\ \A z \in DOMAIN saved : c[z] = saved[z]
    BY <1>1, <1>2, <1>3, <1>4, <2>1
  <2>3. Mapping(c)
    BY <1>2 DEF Mapping
  <2>4. c = saved
    BY <2>2, <2>3 DEF Mapping
  <2> QED BY <2>4 DEF c
<1>5. ASSUME NEW rows, NEW S, choices \in PairPatches(rows, S), x \in DOMAIN saved, c[x] = saved[x]
      PROVE  FALSE
  <2>1. PICK pair : /\ StoredMembers(pair) = {}
                    /\ choices = [y \in S |-> Over([pair |-> pair], DecisionPatch(rows[y], "internal-transfer"))]
    BY <1>5 DEF PairPatches
  <2>2. choices[x] = Over([pair |-> pair], DecisionPatch(rows[x], "internal-transfer"))
    BY <2>1
  <2>3. "pair" \in DOMAIN choices[x] /\ choices[x]["pair"] = pair
    <3> DEFINE new == [pair |-> pair]
               old == DecisionPatch(rows[x], "internal-transfer")
    <3>1. DOMAIN new = {"pair"} /\ new["pair"] = pair
      OBVIOUS
    <3>2. LET f == Over(new, old) IN
          DOMAIN f = DOMAIN new \cup DOMAIN old /\ \A g \in DOMAIN new : f[g] = new[g]
      BY OverIs
    <3> HIDE DEF new, old
    <3> QED BY <2>2, <3>1, <3>2 DEF new, old
  <2>4. Mapping(m[x]) /\ "pair" \in DOMAIN m[x] /\ m[x]["pair"] = pair
    BY <1>1, <2>3
  <2>5. c[x] = Loaded(m[x])
    BY <1>1, <1>2
  <2>6. "pair" \in DOMAIN c[x] /\ c[x]["pair"] = pair
    <3>1. DOMAIN c[x] \ {"reasons", "needs"} = DOMAIN m[x] \ {"reasons", "needs"} /\ c[x]["pair"] = m[x]["pair"]
      BY <2>4, <2>5, LoadedIs
    <3> QED BY <2>4, <3>1
  <2>7. x \in StoredMembers(pair)
    BY <1>5, <2>6 DEF StoredMembers, Field
  <2> QED BY <2>1, <2>7
<1>6. \/ \E y, patch : choices = For(y, patch)
      \/ \E rows, S : choices \in PairPatches(rows, S)
  BY DEF WorkedOutNow
<1> QED BY <1>4, <1>5, <1>6 DEF c

\* A row depends on its own correction, and on those that its memory is of.
SavedBut(s, m, D) == DOMAIN m = DOMAIN s \cup D /\ \A y \in DOMAIN s \ D : m[y] = s[y]

LEMMA RowReach ==
    ASSUME NEW stock, NEW marked, NEW rules, NEW s, NEW m, NEW D, SavedBut(s, m, D), NEW x,
           \A y \in D : MemoryKey(x) # MemoryKey(y)
    PROVE  DerivedRow(stock, marked, rules, s, x) = DerivedRow(stock, marked, rules, m, x)
<1>1. x \notin D /\ (x \in DOMAIN m <=> x \in DOMAIN s) /\ (x \in DOMAIN s => m[x] = s[x])
  BY DEF SavedBut
<1> DEFINE agree(c) == {y \in stock \cap DOMAIN c :
                          /\ MemoryKey(y) = MemoryKey(x)
                          /\ Finished(c[y])
                          /\ Field(c[y], "cat", None) \in Spending}
           cats(c) == {c[y]["cat"] : y \in agree(c)}
<1>2. \A y : MemoryKey(y) = MemoryKey(x) =>
         y \notin D /\ (y \in DOMAIN m <=> y \in DOMAIN s) /\ (y \in DOMAIN s => m[y] = s[y])
  BY DEF SavedBut
<1>3. agree(s) = agree(m)
  BY <1>2
<1>4. cats(s) = cats(m)
  BY <1>2, <1>3
<1>5. Remembered(stock, s, x) = Remembered(stock, m, x)
  <2>1. \A c : Remembered(stock, c, x) =
           IF Memory /\ Fact[x].word \notin Generic /\ Cardinality(agree(c)) > 1 /\ Cardinality(cats(c)) = 1
           THEN cats(c) ELSE {}
    BY DEF Remembered
  <2> HIDE DEF agree, cats
  <2> QED BY <1>3, <1>4, <2>1
<1> HIDE DEF agree, cats
<1>6. \A d : FromMemory(stock, s, x, d) = FromMemory(stock, m, x, d)
  <2> DEFINE F == Remembered(stock, s, x)
             G == Remembered(stock, m, x)
  <2>1. ASSUME NEW d
        PROVE  /\ FromMemory(stock, s, x, d) =
                    IF d.cat # "Unknown" \/ F = {} THEN d
                    ELSE SetReasons([d EXCEPT !.cat = CHOOSE c \in F : TRUE, !.flags = @ \cup {"memory"}],
                                    {}, {"category", "suggestion"})
               /\ FromMemory(stock, m, x, d) =
                    IF d.cat # "Unknown" \/ G = {} THEN d
                    ELSE SetReasons([d EXCEPT !.cat = CHOOSE c \in G : TRUE, !.flags = @ \cup {"memory"}],
                                    {}, {"category", "suggestion"})
    BY DEF FromMemory
  <2>2. F = G
    BY <1>5
  <2> HIDE DEF F, G
  <2> QED BY <2>1, <2>2
<1> DEFINE known(c) == BeforeCorrection(stock, rules, c, x)
<1>7. known(s) = known(m)
  BY <1>6 DEF BeforeCorrection
<1>8. \A c : DerivedRow(stock, marked, rules, c, x) =
                Reviewed(marked, x, IF x \in DOMAIN c /\ DOMAIN c[x] # {} THEN Corrected(c[x], known(c)) ELSE known(c))
  BY DEF DerivedRow, Reviewed, BeforeCorrection
<1> HIDE DEF known
<1>9. CASE x \in DOMAIN s
  <2>1. m[x] = s[x] /\ x \in DOMAIN m
    BY <1>1, <1>9
  <2> QED BY <1>7, <1>8, <1>9, <2>1
<1>10. CASE x \notin DOMAIN s
  BY <1>1, <1>7, <1>8, <1>10
<1> QED BY <1>9, <1>10

(* What is held without a contradiction shows what is read back, but for    *)
(* the questions of a correction whose reasons were cleared.                *)
LEMMA HeldIsRederived ==
    ASSUME NEW m, Held(m), saved = ReadBack(m), NEW view, view = Derived(present, flagged, Rules, m)
    PROVE  /\ DOMAIN view = present /\ DOMAIN Current = present
           /\ \A x \in present :
                 \/ view[x] = Current[x]
                 \/ /\ x \in DOMAIN saved /\ Finished(saved[x])
                    /\ \E asked \in {{"owner"}, {"owner", "category", "flow"}} :
                          view[x] = SetReasons(Current[x], {}, asked)
<1> DEFINE A == Raw(present, flagged, Rules, m)
           B == Raw(present, flagged, Rules, saved)
           rows == Current
<1>1. view = Reconciled(A) /\ rows = Reconciled(B)
  BY TabulatedIs DEF Current, Derived, Raw
<1>2. Twins(A, B, Cut(m))
  <2>1. ASSUME NEW x \in present
        PROVE  A[x] = B[x] \/ (x \in Cut(m) /\ Cleared(A[x], B[x]))
    <3>1. A[x] = DerivedRow(present, flagged, Rules, m, x) /\ B[x] = DerivedRow(present, flagged, Rules, saved, x)
      BY DEF Raw
    <3> HIDE DEF A, B
    <3> QED BY <3>1, ClearedRow
  <2>2. DOMAIN A = present /\ DOMAIN B = present /\ Function(A) /\ Function(B)
    BY DEF Raw, Function
  <2> HIDE DEF A, B
  <2> QED BY <2>1, <2>2 DEF Twins
<1>3. DOMAIN A = present
  BY DEF Raw
<1> HIDE DEF A, B, rows
<1>4. /\ DOMAIN view = present /\ DOMAIN rows = present
      /\ \A x \in present :
            \/ view[x] = rows[x]
            \/ x \in Cut(m) /\ \E asked \in {{"owner"}, {"owner", "category", "flow"}} :
                                  view[x] = SetReasons(rows[x], {}, asked)
  BY <1>1, <1>2, <1>3, TwinsReconciled
<1>5. ASSUME NEW x \in Cut(m)
      PROVE  x \in DOMAIN saved /\ Finished(saved[x])
  <2>1. x \in DOMAIN m
    BY DEF Cut
  <2>2. DOMAIN saved = DOMAIN m /\ ReadAs(saved, m, x)
    BY <2>1, ReadBackIs
  <2>3. Right(m[x], TRUE) /\ "reasons" \in DOMAIN m[x] /\ m[x]["reasons"] = {}
    BY <2>1 DEF Held, Cut
  <2>4. Finished(m[x])
    BY <2>3 DEF Right, Finished, Field
  <2> QED BY <2>1, <2>2, <2>4 DEF ReadAs
<1> QED BY <1>4, <1>5 DEF rows

(* What a command held, with its contradictions as they are read back.      *)
Mended(m) == [x \in DOMAIN m |-> IF x \in contradicted THEN Loaded(m[x]) ELSE m[x]]

LEMMA MendedIs ==
    ASSUME NEW m, Origins(m), NEW mid, mid = Mended(m)
    PROVE  /\ Held(mid) /\ saved = ReadBack(mid) /\ DOMAIN mid = DOMAIN m
           /\ \A x \in DOMAIN m \ contradicted : mid[x] = m[x]
           /\ \A x \in present, field \in {"pair", "owner"} : \A default :
                 Says(mid, x, field, default) = Says(m, x, field, default)
<1>1. /\ \A x \in DOMAIN m : Right(m[x], x \notin contradicted) /\ Mapping(m[x])
      /\ saved = [x \in DOMAIN m |-> Loaded(m[x])]
  BY DEF Origins, Right
<1>2. /\ DOMAIN mid = DOMAIN m
      /\ \A x \in DOMAIN m : mid[x] = IF x \in contradicted THEN Loaded(m[x]) ELSE m[x]
  BY DEF Mended
<1>3. \A x \in DOMAIN m : /\ Read(Loaded(m[x])) /\ Mapping(Loaded(m[x]))
                          /\ Loaded(Loaded(m[x])) = Loaded(m[x])
                          /\ Right(Loaded(m[x]), TRUE)
  <2>1. \A x \in DOMAIN m : Read(Loaded(m[x])) /\ Mapping(Loaded(m[x]))
    BY <1>1, LoadedIs DEF Read
  <2> QED BY <2>1, LoadedIs, ReadIsRight
<1>4. Held(mid)
  BY <1>1, <1>2, <1>3 DEF Held
<1>5. saved = ReadBack(mid)
  <2>1. \A x \in DOMAIN m : Loaded(mid[x]) = Loaded(m[x])
    BY <1>2, <1>3
  <2> QED BY <1>1, <1>2, <2>1 DEF ReadBack
<1>6. ASSUME NEW x \in present, NEW field \in {"pair", "owner"}, NEW default
      PROVE  Says(mid, x, field, default) = Says(m, x, field, default)
  <2>1. CASE x \in DOMAIN m /\ x \in contradicted
    <3>1. /\ DOMAIN Loaded(m[x]) \ {"reasons", "needs"} = DOMAIN m[x] \ {"reasons", "needs"}
          /\ \A g \in DOMAIN m[x] : g \notin {"reasons", "needs"} => Loaded(m[x])[g] = m[x][g]
      BY <1>1, <2>1, LoadedIs
    <3>2. mid[x] = Loaded(m[x]) /\ x \in DOMAIN mid
      BY <1>2, <2>1
    <3>3. field \in DOMAIN mid[x] <=> field \in DOMAIN m[x]
      BY <3>1, <3>2
    <3>4. field \in DOMAIN m[x] => mid[x][field] = m[x][field]
      BY <3>1, <3>2
    <3> QED BY <2>1, <3>2, <3>3, <3>4 DEF Says, Saves
  <2>2. CASE ~(x \in DOMAIN m /\ x \in contradicted)
    BY <1>2, <2>2 DEF Says, Saves
  <2> QED BY <2>1, <2>2
<1> QED BY <1>2, <1>4, <1>5, <1>6

(* The published views are what the files give, but for the questions of a  *)
(* correction whose reasons were cleared, and for what the rows of a        *)
(* contradicted correction's memory reach (corrections.py:142-154,          *)
(* categorization_memory.py:62).                                            *)
THEOREM ShownAlwaysRederived == Spec => []ShownIsRederived
<1>1. ASSUME LedgerInv PROVE ShownIsRederived
  <2>1. present \subseteq Rows
    BY <1>1 DEF LedgerInv
  <2>2. PICK m : Origins(m)
    BY <1>1 DEF LedgerInv
  <2> DEFINE mid == Mended(m)
             view == Derived(present, flagged, Rules, mid)
             A == Raw(present, flagged, Rules, m)
             B == Raw(present, flagged, Rules, mid)
             S == ForgottenWith(contradicted)
  <2>3. /\ Held(mid) /\ saved = ReadBack(mid) /\ DOMAIN mid = DOMAIN m
        /\ \A x \in DOMAIN m \ contradicted : mid[x] = m[x]
        /\ \A x \in present, field \in {"pair", "owner"} : \A default :
              Says(mid, x, field, default) = Says(m, x, field, default)
    BY <2>2, MendedIs
  <2> HIDE DEF mid
  <2>4. /\ shown = Reconciled(A) /\ Plain(A) /\ DOMAIN A = present
        /\ \A y \in present : /\ A[y] = DerivedRow(present, flagged, Rules, m, y)
                              /\ A[y].pair = Says(m, y, "pair", None)
                              /\ A[y].owner = Says(m, y, "owner", Fact[y].owner)
    BY <2>1, <2>2, DerivedIs DEF Raw, Origins
  <2>5. /\ view = Reconciled(B) /\ Plain(B) /\ DOMAIN B = present
        /\ \A y \in present : /\ B[y] = DerivedRow(present, flagged, Rules, mid, y)
                              /\ B[y].pair = Says(mid, y, "pair", None)
                              /\ B[y].owner = Says(mid, y, "owner", Fact[y].owner)
    BY <2>1, DerivedIs DEF Raw
  <2>6. /\ DOMAIN view = present /\ DOMAIN Current = present
        /\ \A x \in present :
              \/ view[x] = Current[x]
              \/ /\ x \in DOMAIN saved /\ Finished(saved[x])
                 /\ \E asked \in {{"owner"}, {"owner", "category", "flow"}} :
                       view[x] = SetReasons(Current[x], {}, asked)
    BY <2>3, HeldIsRederived
  <2> HIDE DEF A, B, view
  <2>7. \A y \in present : A[y].pair = B[y].pair /\ A[y].owner = B[y].owner
    BY <2>3, <2>4, <2>5
  <2>8. SameBut(A, B, S)
    <3>1. ASSUME NEW y \in present \ S
          PROVE  A[y] = B[y]
      <4> DEFINE D == contradicted \cap DOMAIN m
      <4>1. \A z \in D : MemoryKey(y) # MemoryKey(z)
        BY DEF ForgottenWith
      <4>2. SavedBut(m, mid, D)
        BY <2>3 DEF SavedBut
      <4> HIDE DEF D, S
      <4>3. DerivedRow(present, flagged, Rules, m, y) = DerivedRow(present, flagged, Rules, mid, y)
        BY <4>1, <4>2, RowReach
      <4> QED BY <2>4, <2>5, <4>3
    <3> QED BY <2>4, <2>5, <3>1 DEF SameBut, Plain
  <2>9. PairsKept(A, B, S)
    BY <2>4, <2>7 DEF PairsKept
  <2> HIDE DEF S
  <2>10. \A x \in present : shown[x] = view[x] \/ x \in Reach(S)
    BY <2>4, <2>5, <2>8, <2>9, ReconciliationReach
  <2>11. DOMAIN shown = present
    BY <2>4, ReconciledIs
  <2> QED BY <2>6, <2>10, <2>11 DEF ShownIsRederived, OnlyAnswered, S
<1> QED BY <1>1, LedgerInvariant, PTL

\* Only a choice that is saved changes what is saved.
LEMMA SavesAreChoices ==
    ASSUME LedgerInv, [Next]_vars, saved' # saved
    PROVE  \E choices : Save(choices) /\ (WorkedOutNow(choices) \/ \E x, patch : choices = For(x, patch))
<1>1. ASSUME NEW s, Import(s) PROVE FALSE
  BY <1>1 DEF Import
<1>2. ASSUME NEW choices, Prepare(choices) PROVE FALSE
  BY <1>2 DEF Prepare
<1>3. ASSUME NEW rows, NEW x, NEW y, NEW decision,
             Review(rows, x, decision) \/ ReviewPair(rows, x, y) \/ ResolveSource(rows, x)
      PROVE  FALSE
  BY <1>2, <1>3 DEF Review, ReviewPair, ResolveSource
<1>4. ~GiveUp /\ ~Learn /\ ~UNCHANGED vars
  BY DEF GiveUp, Learn, vars
<1>5. CASE Apply
  BY <1>5 DEF Apply, LedgerInv
<1>6. ASSUME NEW x, NEW patch, Correct(x, patch)
      PROVE  \E choices : Save(choices) /\ (WorkedOutNow(choices) \/ \E y, p : choices = For(y, p))
  BY <1>6 DEF Correct
<1> QED BY <1>1, <1>3, <1>4, <1>5, <1>6 DEF Next

\* What a choice touches: its row, the rows of its memory, and its pairs.
Moved(x) == x \in DOMAIN saved' /\ (x \notin DOMAIN saved \/ saved'[x] # saved[x])
PairShared(c, x, y) ==
    /\ {x, y} \subseteq DOMAIN c /\ Field(c[x], "pair", None) # None
    /\ Field(c[y], "pair", None) = c[x]["pair"]

LEMMA TouchedIs ==
    ASSUME NEW x, Moved(x), NEW y \in present,
           MemoryKey(y) = MemoryKey(x) \/ PairShared(saved, x, y) \/ PairShared(saved', x, y)
    PROVE  y \in Touched
BY DEF Touched, Moved, PairShared

LEMMA ChoicesReach ==
    ASSUME LedgerInv, [Next]_vars, saved' # saved, NEW x \in present, shown'[x] # Current[x]
    PROVE  x \in Reach(Touched)
<1>1. present \subseteq Rows /\ Mapping(saved) /\ \A y \in DOMAIN saved : Read(saved[y])
  BY DEF LedgerInv
<1>2. PICK choices : Save(choices) /\ (WorkedOutNow(choices) \/ \E y, patch : choices = For(y, patch))
  BY SavesAreChoices
<1> DEFINE m == Merged(choices)
           D == DOMAIN choices
           A == Raw(present, flagged, Rules, saved)
           B == Raw(present, flagged, Rules, m)
<1>3. D \subseteq present /\ saved' = ReadBack(m) /\ shown' = Derived(present, flagged, Rules, m)
  BY <1>2 DEF Save, ReadBack
<1>4. /\ DOMAIN m = DOMAIN saved \cup D
      /\ \A y \in DOMAIN saved \ D : m[y] = saved[y]
      /\ \A y \in D : Mapping(m[y])
  <2>1. ASSUME NEW held, held = Merged(choices)
        PROVE  /\ DOMAIN held = DOMAIN saved \cup DOMAIN choices
               /\ \A y \in DOMAIN saved \ DOMAIN choices : held[y] = saved[y]
               /\ \A y \in DOMAIN choices : Mapping(held[y])
    BY ONLY <1>1, <2>1, MergedHolds
  <2> QED BY ONLY <2>1
<1>5. /\ Current = Reconciled(A) /\ Plain(A) /\ DOMAIN A = present
      /\ \A y \in present : /\ A[y] = DerivedRow(present, flagged, Rules, saved, y)
                            /\ A[y].pair = Says(saved, y, "pair", None)
                            /\ A[y].owner = Says(saved, y, "owner", Fact[y].owner)
  BY <1>1, DerivedIs DEF Current, Raw
<1>6. /\ shown' = Reconciled(B) /\ Plain(B) /\ DOMAIN B = present
      /\ \A y \in present : /\ B[y] = DerivedRow(present, flagged, Rules, m, y)
                            /\ B[y].pair = Says(m, y, "pair", None)
                            /\ B[y].owner = Says(m, y, "owner", Fact[y].owner)
  BY <1>1, <1>3, DerivedIs DEF Raw
<1> HIDE DEF A, B
<1> SUFFICES ASSUME NEW S, S = Touched, NEW c, c = saved'
             PROVE  x \in Reach(S)
  OBVIOUS
<1>7. c = [y \in DOMAIN m |-> Loaded(m[y])]
  BY <1>3 DEF ReadBack
<1>8. \A y \in D : Moved(y)
  <2>1. ReadBack(m) # saved
    BY <1>3
  <2>2. \A y \in D : y \in DOMAIN saved => ReadBack(m)[y] # saved[y]
    BY <1>1, <1>2, <2>1, ChoicesChange
  <2>3. D \subseteq DOMAIN saved'
    BY <1>3, <1>4 DEF ReadBack
  <2> QED BY <1>3, <2>2, <2>3 DEF Moved
<1> HIDE DEF m, D
<1>9. \A y \in D, z \in present :
         MemoryKey(z) = MemoryKey(y) \/ PairShared(saved, y, z) \/ PairShared(c, y, z) => z \in S
  BY <1>8, TouchedIs
<1>10. SameBut(A, B, S)
  <2>1. ASSUME NEW y \in present \ S
        PROVE  A[y] = B[y]
    <3>1. \A z \in D : MemoryKey(y) # MemoryKey(z)
      BY <1>9
    <3>2. DerivedRow(present, flagged, Rules, saved, y) = DerivedRow(present, flagged, Rules, m, y)
      <4>1. SavedBut(saved, m, D)
        BY <1>4 DEF SavedBut
      <4> QED BY <3>1, <4>1, RowReach
    <3> QED BY <1>5, <1>6, <3>2
  <2> QED BY <1>5, <1>6, <2>1 DEF SameBut, Plain
<1>11. PairsKept(A, B, S)
  <2>1. ASSUME NEW y \in present \ S, NEW z \in present, A[y].pair # None, A[y].pair \in {A[z].pair, B[z].pair}
        PROVE  A[z].pair = B[z].pair /\ A[z].owner = B[z].owner
    <3>1. y \notin D
      BY <1>9
    <3>2. y \in DOMAIN saved /\ "pair" \in DOMAIN saved[y] /\ A[y].pair = saved[y]["pair"]
      BY <1>5, <2>1 DEF Says, Saves
    <3>3. y \in DOMAIN c /\ c[y] = saved[y]
      <4>1. Read(saved[y]) /\ Mapping(saved[y])
        BY <1>1, <3>2 DEF Read
      <4>2. Loaded(saved[y]) = saved[y]
        BY <4>1, LoadedIs
      <4> QED BY <1>4, <1>7, <3>1, <3>2, <4>2
    <3>4. CASE z \notin D
      <4>1. /\ z \in DOMAIN m <=> z \in DOMAIN saved
            /\ z \in DOMAIN saved => m[z] = saved[z]
        BY <1>4, <3>4
      <4>2. Says(m, z, "pair", None) = Says(saved, z, "pair", None)
        BY <4>1 DEF Says, Saves
      <4>3. Says(m, z, "owner", Fact[z].owner) = Says(saved, z, "owner", Fact[z].owner)
        BY <4>1 DEF Says, Saves
      <4> QED BY <1>5, <1>6, <4>2, <4>3
    <3>5. CASE z \in D /\ A[y].pair = A[z].pair
      <4>1. z \in DOMAIN saved /\ "pair" \in DOMAIN saved[z] /\ A[z].pair = saved[z]["pair"]
        BY <1>5, <2>1, <3>5 DEF Says, Saves
      <4>2. PairShared(saved, z, y)
        BY <2>1, <3>2, <3>5, <4>1 DEF PairShared, Field
      <4> QED BY <1>9, <2>1, <3>5, <4>2
    <3>6. CASE z \in D /\ A[y].pair = B[z].pair
      <4>1. z \in DOMAIN m /\ "pair" \in DOMAIN m[z] /\ B[z].pair = m[z]["pair"]
        BY <1>6, <2>1, <3>6 DEF Says, Saves
      <4>2. c[z] = Loaded(m[z]) /\ z \in DOMAIN c /\ Mapping(m[z])
        BY <1>4, <1>7, <3>6, <4>1
      <4>3. "pair" \in DOMAIN c[z] /\ c[z]["pair"] = m[z]["pair"]
        <5>1. DOMAIN c[z] \ {"reasons", "needs"} = DOMAIN m[z] \ {"reasons", "needs"} /\ c[z]["pair"] = m[z]["pair"]
          BY <4>1, <4>2, LoadedIs
        <5> QED BY <4>1, <5>1
      <4>4. PairShared(c, z, y)
        BY <2>1, <3>2, <3>3, <3>6, <4>1, <4>2, <4>3 DEF PairShared, Field
      <4> QED BY <1>9, <2>1, <3>6, <4>4
    <3> QED BY <2>1, <3>4, <3>5, <3>6
  <2> QED BY <1>5, <2>1 DEF PairsKept
<1>12. Reconciled(A)[x] # Reconciled(B)[x]
  BY <1>5, <1>6
<1> QED BY <1>5, <1>6, <1>10, <1>11, <1>12, ReconciliationReach

(* Learning decides nothing, a choice is saved as it was seen, and it       *)
(* reaches no further than its row and what it is paired or remembered with *)
(* (workspace_commands.py: each command that saves derives every row anew). *)
THEOREM SavesAlwaysStayLocal == Spec => SavesStayLocal
<1>1. LedgerInv /\ [Next]_vars =>
        [managed' # managed =>
          LET unlearned == Derived(present, flagged, ManualRules, saved) IN
          \A x \in present \ DOMAIN saved :
              ~Fact[x].amb => shown'[x].cat = unlearned[x].cat]_vars
  BY LearningDecidesNothing DEF vars
<1>2. LedgerInv /\ [Next]_vars =>
        [saved' # saved =>
          \A rows \in {Current} : \A x \in present :
              shown'[x] # rows[x] => x \in Reach(Touched)]_vars
  BY ChoicesReach DEF vars
<1>3. Spec => LearnDecidesNothing
  BY <1>1, LedgerInvariant, PTL DEF Spec, LearnDecidesNothing
<1>4. Spec => ChoicesStayLocal
  BY <1>2, LedgerInvariant, PTL DEF Spec, ChoicesStayLocal
<1> QED BY <1>3, <1>4, AlwaysAppliedAsSeen DEF SavesStayLocal
=============================================================================
