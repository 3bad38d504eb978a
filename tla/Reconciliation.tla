--------------------------- MODULE Reconciliation ---------------------------
(***************************************************************************)
(* How the rows of the whole workspace become cash flow: the flow of each   *)
(* row, manual pairs, exchange legs, transfers between owned accounts, the  *)
(* rows left ambiguous or unmatched, and the balance checks of statements   *)
(* (src/honeymoney/reconciliation.py, valuation.py, manual_pairs.py,        *)
(* review_state.py).                                                        *)
(*                                                                          *)
(* A row has facts, which its statement gives and nothing changes, and a    *)
(* treatment, derived anew each time.  Amounts are integers, a rate is a    *)
(* pair of integers <<base, foreign>>, a day is a number; a description is  *)
(* one word.  An operator takes the treated rows as a function "rows" from  *)
(* the rows present to their treatments.                                    *)
(***************************************************************************)
EXTENDS ExchangeMatching, Integers, FiniteSets, FiniteSetsExt, SequencesExt, TLC

CONSTANTS
    Rows,         \* every row some statement may bring
    Fact,         \* Rows -> [stmt, acct, inst, type, ccy, amt, day, owner, word, amb]
    Base,         \* the base currency
    Rate,         \* [ccy, day] -> a set of at most one configured or cached rate
    Window,       \* reconciliation.date_window_days
    Tolerance,    \* exchange_rate_spread_tolerance, in hundredths
    Balance,      \* statement -> [opening, closing], each a set of values found
    None

FactsAssumption ==
    /\ IsFiniteSet(Rows) /\ None \notin Rows
    /\ \A x \in Rows :
          /\ Fact[x].amt \in Int /\ Fact[x].day \in Int
          /\ None \notin {Fact[x].acct, Fact[x].word, <<Fact[x].amt, Fact[x].ccy>>}
ASSUME FactsAssumption

NoneAssumption == None \notin {"inflow", "outflow", "manual", "exchange", "transfer"}
ASSUME NoneAssumption

(* A day has at most one rate, and rates are positive.                      *)
RatesAssumption ==
    \A x \in Rows : Fact[x].ccy # Base =>
        LET rates == Rate[Fact[x].ccy, Fact[x].day]
        IN  /\ rates \subseteq (Nat \ {0}) \X (Nat \ {0})
            /\ \A r, s \in rates : r = s
ASSUME RatesAssumption

BalancesAssumption ==
    \A x \in Rows :
        /\ Balance[Fact[x].stmt] \in [opening : SUBSET Int, closing : SUBSET Int]
        /\ IsFiniteSet(Balance[Fact[x].stmt].opening)
        /\ IsFiniteSet(Balance[Fact[x].stmt].closing)
ASSUME BalancesAssumption

\* The same function: TLC works its values out here, and once.
Tabulated(f) == CHOOSE g \in {f} : g = f

Transfers == {"internal_transfer", "credit_card_payment", "investment_transfer"}
External == {"income", "expense", "refund"}
Protected == {"Income", "Credit Card Payment", "Internal Transfer", "Savings", "Investments"}

Abs(n) == IF n < 0 THEN -n ELSE n
Direction(x) == IF Fact[x].amt > 0 THEN "inflow" ELSE IF Fact[x].amt < 0 THEN "outflow" ELSE None

(* Base-currency value: the amount itself, or by the day's rate; None       *)
(* where no rate is known.                                                  *)
RateOf(ccy, day) == Rate[ccy, day]
Value(x) ==
    IF Fact[x].ccy = Base THEN {Fact[x].amt}
    ELSE {(Fact[x].amt * rate[1]) \div rate[2] : rate \in RateOf(Fact[x].ccy, Fact[x].day)}

-----------------------------------------------------------------------------
(* Review reasons: pending follows the reasons, and the reasons follow the  *)
(* row.                                                                     *)
IdentityFlags == {"overlap_count_ambiguous"}
SourceFlags == {"source_data"}

Asking(d, reasons) == [d EXCEPT !.reasons = reasons, !.needs = (reasons # {})]
SetReason(d, reason, active) ==
    Asking(d, IF active THEN d.reasons \cup {reason} ELSE d.reasons \ {reason})
SetReasons(d, asked, settled) == Asking(d, (d.reasons \ settled) \cup asked)

Synchronized(d) ==
    LET evidence == d.needs \/ d.reasons # {}
        keep(reason) ==
            CASE reason = "category" -> evidence /\ d.cat = "Unknown"
              [] reason = "suggestion" ->
                    /\ reason \in d.reasons /\ evidence
                    /\ "manual_correction" \notin d.flags /\ d.cat # "Unknown"
              [] reason = "flow" -> evidence /\ d.flow = "unresolved"
              [] reason = "identity" -> d.flags \cap IdentityFlags # {}
              [] reason = "source" -> d.flags \cap SourceFlags # {}
              [] reason = "owner" -> reason \in d.reasons /\ evidence /\ d.owner = "Unknown"
    IN  Asking(d, {reason \in {"category", "suggestion", "flow", "identity", "source", "owner"} :
                        keep(reason)})

-----------------------------------------------------------------------------
(* The flow of one row, from its category, sign and account, unless a rule, *)
(* a structural mark or a saved correction set it.  A protected category    *)
(* gives its own flow: only a local model's label would not be trusted to,  *)
(* and the model may give no protected category.                            *)
ProtectedFlow(cat) ==
    CASE cat = "Income" -> "income"
      [] cat = "Credit Card Payment" -> "credit_card_payment"
      [] cat = "Internal Transfer" -> "internal_transfer"
      [] cat \in {"Savings", "Investments"} -> "investment_transfer"

FlowFor(x, d) ==
    LET fact == Fact[x]
    IN  IF d.cat \in Protected
        THEN ProtectedFlow(d.cat)
        ELSE IF fact.amt = 0 \/ d.cat \in {"Unknown", "Other"} THEN "unresolved"
        ELSE IF fact.amt < 0 THEN "expense"
        ELSE IF fact.type = "credit_card" \/ (fact.type = "bank" /\ fact.word \in {"refund", "cashback"})
        THEN "refund" ELSE "unresolved"

WithFlow(x, d) ==
    IF d.src \in {"rule", "correction", "structural"} THEN d
    ELSE [d EXCEPT !.flow = FlowFor(x, d), !.src = "deterministic"]

Explicit(d) == d.src \in {"rule", "correction"}

-----------------------------------------------------------------------------
(* Manual pairs: two rows of one account that a person named as one         *)
(* movement of cash.                                                        *)
OwnersCompatible(a, b) == a = b \/ {a, b} \cap {"Unknown", "Household"} # {}

ManualFacts(x, y, rows) ==
    /\ x # y
    /\ Fact[x].acct = Fact[y].acct
    /\ Fact[x].ccy = Fact[y].ccy
    /\ Fact[x].amt # 0 /\ Fact[x].amt = -Fact[y].amt
    /\ OwnersCompatible(rows[x].owner, rows[y].owner)

Marked(rows) == {x \in DOMAIN rows : rows[x].pair # None}
Sharing(rows, x) == {y \in Marked(rows) : rows[y].pair = rows[x].pair}

ManualPartner(rows, x) ==
    {y \in Sharing(rows, x) : Cardinality(Sharing(rows, x)) = 2 /\ ManualFacts(x, y, rows)}

Paired(d, partner, group) ==
    [d EXCEPT !.partner = partner, !.group = group, !.status = "paired"]

Settled(d) == SetReasons(d, {}, {"category", "suggestion", "flow"})

PairedManually(d, partner) ==
    Paired([Settled(d) EXCEPT !.cat = "Internal Transfer", !.flow = "internal_transfer",
                              !.src = "correction", !.flags = @ \ {"pair_invalid"}],
           partner, "manual")

InvalidPair(d) ==
    SetReason([d EXCEPT !.flow = "unresolved", !.src = "reconciliation",
                        !.status = "unmatched", !.flags = @ \cup {"pair_invalid"}],
              "flow", TRUE)

WithManualPairs(rows) ==
    Tabulated([x \in DOMAIN rows |->
        IF x \notin Marked(rows) THEN rows[x]
        ELSE IF ManualPartner(rows, x) = {} THEN InvalidPair(rows[x])
        ELSE PairedManually(rows[x], CHOOSE y \in ManualPartner(rows, x) : TRUE)])

-----------------------------------------------------------------------------
(* Exchanges: on one day, at one institution, as many debits of the base    *)
(* currency as deposits of one foreign currency.                            *)
Free(rows) == {x \in DOMAIN rows : rows[x].pair = None /\ Fact[x].type = "bank"}
IsDebit(x) == Fact[x].word = "exchange" /\ Fact[x].ccy = Base /\ Fact[x].amt < 0
IsDeposit(x) == Fact[x].word = "deposit" /\ Fact[x].ccy # Base /\ Fact[x].amt > 0
Place(x) == [day |-> Fact[x].day, inst |-> Fact[x].inst]

Total(S) == MapThenSumSet(LAMBDA x : Abs(Fact[x].amt), S)

Event(debits, deposits, place) ==
    LET out == {x \in debits : Place(x) = place}
        in == {x \in deposits : Place(x) = place}
    IN  [debits |-> out, deposits |-> in, day |-> place.day, inst |-> place.inst,
         ccy |-> {Fact[x].ccy : x \in in}, rate |-> <<Total(out), Total(in)>>]

Events(rows) ==
    LET debits == {x \in Free(rows) : IsDebit(x)}
        deposits == {x \in Free(rows) : IsDeposit(x)}
    IN  {e \in {Event(debits, deposits, place) : place \in {Place(x) : x \in debits}} :
            /\ Cardinality(e.debits) = Cardinality(e.deposits)
            /\ Cardinality(e.ccy) = 1}

\* |rate - reference| / reference <= tolerance
WithinTolerance(rate, reference) ==
    100 * Abs(rate[1] * reference[2] - reference[1] * rate[2])
        <= Tolerance * reference[1] * rate[2]

(* The events of one institution and currency vouch for each other when     *)
(* there are two of them at least and each is near their mean.              *)
MeanRate(E) ==
    LET sum == FoldSet(LAMBDA e, acc : <<acc[1] * e.rate[2] + e.rate[1] * acc[2], acc[2] * e.rate[2]>>,
                       <<0, 1>>, E)
    IN  <<sum[1], sum[2] * Cardinality(E)>>
CohortRate(events, e) ==
    LET cohort == {f \in events : f.inst = e.inst /\ f.ccy = e.ccy}
    IN  {rate \in {MeanRate(cohort)} :
            Cardinality(cohort) > 1 /\ \A f \in cohort : WithinTolerance(f.rate, rate)}

ReferenceRate(events, e) ==
    LET configured == UNION {RateOf(ccy, e.day) : ccy \in e.ccy}
    IN  IF configured # {} THEN configured ELSE CohortRate(events, e)

MayExchange(debit, deposit, reference) ==
    /\ Fact[debit].acct # Fact[deposit].acct
    /\ WithinTolerance(<<Abs(Fact[debit].amt), Fact[deposit].amt>>, reference)

(* An event at a reference rate: its debits and deposits, numbered from 1,  *)
(* and the deposits whose rate against a debit is acceptable.               *)
Trial(e, reference) ==
    LET debit == SetToSeq(e.debits)
        deposit == SetToSeq(e.deposits)
    IN  [debit |-> debit, deposit |-> deposit,
         edges |-> Tabulated([b \in DOMAIN debit |->
                     {f \in DOMAIN deposit : MayExchange(debit[b], deposit[f], reference)}])]

Trials(events) ==
    UNION {{Trial(e, rate) : rate \in ReferenceRate(events, e)} : e \in events}

(* The pairs that an assignment of deposits to debits makes.                *)
PairsBy(trial, assignments) ==
    UNION {{<<trial.debit[b], trial.deposit[m[b]]>> : b \in DOMAIN m} : m \in assignments}

(* An event is paired by the only assignment, or not at all.                *)
PairsAmong(events) ==
    UNION {PairsBy(trial, UniqueMatching(trial.edges)) : trial \in Trials(events)}

PairedAcrossCurrencies(d, partner, value) ==
    Paired([Settled(d) EXCEPT !.cat = "Internal Transfer", !.flow = "internal_transfer",
                              !.src = "reconciliation", !.value = value],
           partner, "exchange")

Exchanged(rows, pairs) ==
    [x \in DOMAIN rows |->
        IF \E p \in pairs : x = p[1]
        THEN PairedAcrossCurrencies(rows[x], (CHOOSE p \in pairs : x = p[1])[2], rows[x].value)
        ELSE IF \E p \in pairs : x = p[2]
        THEN LET debit == (CHOOSE p \in pairs : x = p[2])[1]
             IN  PairedAcrossCurrencies(rows[x], debit, {Abs(Fact[debit].amt)})
        ELSE rows[x]]

WithExchanges(rows) == Tabulated(Exchanged(rows, PairsAmong(Events(rows))))

-----------------------------------------------------------------------------
(* Transfers between two owned accounts: opposite values within the window. *)
Eligible(rows) ==
    {x \in DOMAIN rows :
        /\ rows[x].status # "paired" /\ rows[x].pair = None
        /\ Fact[x].type \in {"bank", "credit_card", "investment"}
        /\ Value(x) \notin {{}, {0}}
        /\ Explicit(rows[x]) => rows[x].flow \in Transfers}

\* What money from one type of account to another is.
TransferFlow(from, to) ==
    IF from = "bank" /\ to = "credit_card" THEN {"credit_card_payment"}
    ELSE IF {from, to} = {"bank"} THEN {"internal_transfer"}
    ELSE IF {from, to} = {"bank", "investment"} THEN {"investment_transfer"}
    ELSE {}

Between(x, y) ==
    LET out == IF Fact[x].amt < 0 THEN x ELSE y
        in == IF out = x THEN y ELSE x
    IN  TransferFlow(Fact[out].type, Fact[in].type)

Distance(x, y) == Abs(Fact[x].day - Fact[y].day)

MayTransfer(rows, x, y) ==
    /\ Fact[x].acct # Fact[y].acct
    /\ Distance(x, y) <= Window
    /\ Value(x) = {-v : v \in Value(y)}
    /\ ~ \A z \in {x, y} : rows[z].src = "deterministic" /\ rows[z].flow \in External
    /\ \E flow \in Between(x, y) :
          \A z \in {x, y} : Explicit(rows[z]) => rows[z].flow = flow

CandidatesAmong(rows, eligible) ==
    Tabulated([x \in eligible |-> {y \in eligible : MayTransfer(rows, x, y)}])
Candidates(rows) == CandidatesAmong(rows, Eligible(rows))

\* Mutant of Best: of several as near, the first that comes.
FirstNearest(candidates, x) ==
    LET nearest == {y \in candidates[x] : \A z \in candidates[x] : Distance(x, y) <= Distance(x, z)}
    IN  IF nearest = {} THEN {} ELSE {CHOOSE y \in nearest : TRUE}

\* The only nearest of a row's candidates, if there is one.
Best(candidates, x) ==
    LET nearest == {y \in candidates[x] : \A z \in candidates[x] : Distance(x, y) <= Distance(x, z)}
    IN  IF Cardinality(nearest) = 1 THEN nearest ELSE {}

\* Each is the other's.
TransferPartner(candidates, x) == {y \in Best(candidates, x) : x \in Best(candidates, y)}

PairedAsTransfer(x, y, d) ==
    Paired(IF Explicit(d) THEN d
           ELSE [d EXCEPT !.flow = CHOOSE flow \in Between(x, y) : TRUE,
                          !.src = "reconciliation"],
           y, "transfer")

AmbiguousRow(d) ==
    LET asked == [SetReason(d, "flow", TRUE) EXCEPT !.status = "ambiguous"]
    IN  IF Explicit(d) THEN asked
        ELSE [asked EXCEPT !.flow = "unresolved", !.src = "reconciliation"]

Unmatched(d) ==
    IF d.status # "paired" /\ d.flow \in Transfers THEN [d EXCEPT !.status = "unmatched"] ELSE d

Transferred(rows, candidates) ==
    [x \in DOMAIN rows |->
        IF x \notin DOMAIN candidates THEN Unmatched(rows[x])
        ELSE IF TransferPartner(candidates, x) # {}
        THEN PairedAsTransfer(x, CHOOSE y \in TransferPartner(candidates, x) : TRUE, rows[x])
        ELSE IF candidates[x] # {} THEN AmbiguousRow(rows[x])
        ELSE Unmatched(rows[x])]
WithTransfers(rows) == Tabulated(Transferred(rows, Candidates(rows)))

(* The whole reconciliation, and the review states it leaves.               *)
WithFlows(rows) == Tabulated([x \in DOMAIN rows |-> WithFlow(x, rows[x])])
AllSynchronized(rows) == Tabulated([x \in DOMAIN rows |-> Synchronized(rows[x])])
Reconciled(rows) ==
    AllSynchronized(WithTransfers(WithExchanges(WithManualPairs(WithFlows(rows)))))

-----------------------------------------------------------------------------
(* Balance checks, per account, statement and currency, over all the rows   *)
(* the statement brought.                                                   *)
BalanceKey(x) == [acct |-> Fact[x].acct, stmt |-> Fact[x].stmt, ccy |-> Fact[x].ccy]
\* Mutant of Complete: the rows of the view alone.
InView(all, chosen) == all \cap chosen

Complete(all, chosen) == {x \in all : BalanceKey(x) \in {BalanceKey(y) : y \in chosen}}

CalculatedClosing(S, opening, closing) ==
    LET activity == MapThenSumSet(LAMBDA x : Fact[x].amt, S)
        liability == \A x \in S : Fact[x].type = "credit_card"
    IN  IF /\ liability
           /\ \/ opening - activity = closing
              \/ opening + activity # closing /\ opening >= 0 /\ closing >= 0
        THEN opening - activity ELSE opening + activity

StatementResult(all, key) ==
    LET S == {x \in all : BalanceKey(x) = key}
        found == Balance[key.stmt]
    IN  IF Cardinality(found.opening) > 1 \/ Cardinality(found.closing) > 1
        THEN "conflicting_evidence"
        ELSE IF found.opening = {} /\ found.closing = {} THEN "missing_both"
        ELSE IF found.opening = {} THEN "missing_opening"
        ELSE IF found.closing = {} THEN "missing_closing"
        ELSE IF \A opening \in found.opening, closing \in found.closing :
                    CalculatedClosing(S, opening, closing) = closing
        THEN "matched" ELSE "mismatched"

StatementResults(all, acct) ==
    {StatementResult(all, key) : key \in {BalanceKey(x) : x \in {y \in all : Fact[y].acct = acct}}}
AccountResult(all, acct) ==
    LET results == StatementResults(all, acct)
    IN  IF "mismatched" \in results THEN "mismatched"
        ELSE IF results = {"matched"} THEN "matched" ELSE "unavailable"
=============================================================================
