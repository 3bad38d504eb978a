--------------------------- MODULE ReviewedLedger ---------------------------
(***************************************************************************)
(* The workspace as a person reviews it: statements come and are replaced,  *)
(* choices are saved, pairs are named, rules are learned, and every command *)
(* that changes one of them derives the whole ledger anew and publishes it  *)
(* (src/honeymoney/workspace_commands.py, review_operations.py,             *)
(* corrections.py).                                                         *)
(*                                                                          *)
(* "review", "review pair" and "source-data resolve" work out what to save  *)
(* before they take the lock that publishes it; another command may publish *)
(* between the two.  "correct" and "review --file" save what they are given.*)
(***************************************************************************)
EXTENDS Categorization

CONSTANTS
    Drawers,       \* the sets of statements a user may have
    Versions,      \* statement -> the sets of rows an import of it may bring
    Faulty,        \* the rows an import may flag as a source-data conflict
    Decisions,     \* row -> the accounting decisions taken about it
    FilePatches,   \* what a correction file may hold for a row
    MaxChoices     \* bound: rows with a saved correction

(* A statement brings its own rows.  A correction file is read as           *)
(* corrections.csv is: it has no empty cells, and reasons set "needs".      *)
VersionsAssumption ==
    \A S \in Drawers : \A s \in S : \A T \in Versions[s] :
        T \subseteq {x \in Rows : Fact[x].stmt = s}
ASSUME VersionsAssumption

FilesAssumption ==
    \A x \in Rows : \A patch \in FilePatches[x] :
        /\ patch = [field \in DOMAIN patch |-> patch[field]]
        /\ DOMAIN patch \subseteq {"cat", "flow", "owner", "pair", "needs", "reasons"}
        /\ "needs" \in DOMAIN patch => patch["needs"] \in BOOLEAN
        /\ "reasons" \in DOMAIN patch =>
              patch["reasons"] # {} /\ "needs" \in DOMAIN patch /\ patch["needs"]
ASSUME FilesAssumption

VARIABLES
    drawer,        \* the statements this user has
    present,       \* the rows of the ready import records
    flagged,       \* those their import found a conflict in
    saved,         \* corrections.csv: row -> correction
    managed,       \* the learned rules of rules.json
    shown,         \* the rows of the published views
    prepared,      \* the choices a command has worked out, if any
    contradicted   \* history: rows whose correction was last published as finished
                   \* over reasons that are still saved

vars == <<drawer, present, flagged, saved, managed, shown, prepared, contradicted>>

Rules == ManualRules \cup managed

\* What a command derives from the files as they are.
Current == Derived(present, flagged, Rules, saved)

-----------------------------------------------------------------------------
\* The fields of one over those of the other.
Over(new, old) ==
    [field \in DOMAIN new \cup DOMAIN old |->
        IF field \in DOMAIN new THEN new[field] ELSE old[field]]

(* corrections.csv has no empty cells to read: reasons that were cleared    *)
(* are absent when it is loaded, and reasons that are there set "needs".    *)
Loaded(correction) ==
    IF "reasons" \notin DOMAIN correction THEN correction
    ELSE IF correction["reasons"] = {}
    THEN [field \in DOMAIN correction \ {"reasons"} |-> correction[field]]
    ELSE Over([needs |-> TRUE], correction)

\* The new choices over the old ones, as the publishing command holds them.
Merged(choices) ==
    [x \in DOMAIN saved \cup DOMAIN choices |->
        Over(IF x \in DOMAIN choices THEN choices[x] ELSE <<>>,
             IF x \in DOMAIN saved THEN saved[x] ELSE <<>>)]

(* What counts as finished while it is held, and no more when it is read:   *)
(* needs_review is false, and reasons are open.                             *)
Contradicted(merged) ==
    {x \in DOMAIN merged : Finished(merged[x]) /\ Field(merged[x], "reasons", {}) # {}}

\* No command has choices to save.
Nothing == [choices |-> <<>>, fresh |-> FALSE]

\* Mutant of Published: nothing tells another command that it happened.
PublishedSilently(view) ==
    /\ shown' = view
    /\ UNCHANGED prepared

Published(view) ==
    /\ shown' = view
    /\ prepared' = [prepared EXCEPT !.fresh = FALSE]

-----------------------------------------------------------------------------
(* One accounting decision about one row: what it sets, and the reasons it  *)
(* leaves open.                                                             *)
DecisionFields(decision) ==
    CASE decision = "income" -> [cat |-> "Income", flow |-> "income"]
      [] decision = "refund" -> [flow |-> "refund"]
      [] decision = "internal-transfer" ->
            [cat |-> "Internal Transfer", flow |-> "internal_transfer"]
      [] decision = "credit-card-payment" ->
            [cat |-> "Credit Card Payment", flow |-> "credit_card_payment"]
      [] decision = "investment-transfer" ->
            [cat |-> "Investments", flow |-> "investment_transfer"]
      [] decision = "expense" -> [flow |-> "expense"]
      [] decision = "unresolved" -> [flow |-> "unresolved"]

DecisionPatch(d, decision) ==
    LET fields == DecisionFields(decision)
        settled == {"flow"} \cup (IF "cat" \in DOMAIN fields THEN {"category", "suggestion"} ELSE {})
        remaining == (d.reasons \ settled) \cup (IF decision = "unresolved" THEN {"flow"} ELSE {})
    IN  Over([reasons |-> remaining, needs |-> remaining # {}], fields)

Allowed(x, decision) == decision = "income" => Direction(x) = "inflow"

\* Whom a saved correction, or the row as derived, already ties x to.
StoredPairs(rows, S) ==
    ({rows[x].pair : x \in S}
        \cup {Field(saved[x], "pair", None) : x \in S \cap DOMAIN saved}) \ {None}
StoredMembers(pair) == {x \in DOMAIN saved : Field(saved[x], "pair", None) = pair}

PairPatches(rows, S) ==
    LET stored == StoredPairs(rows, S)
        pair == IF stored = {} THEN S ELSE CHOOSE p \in stored : TRUE
    IN  IF Cardinality(stored) > 1 \/ StoredMembers(pair) # {} THEN {}
        ELSE {[x \in S |-> Over([pair |-> pair], DecisionPatch(rows[x], "internal-transfer"))]}

\* Without evidence in the current facts, a saved source-data reason is stale.
StaleSource(rows, x) ==
    /\ rows[x].flags \cap SourceFlags = {}
    /\ x \in DOMAIN saved /\ "source" \in Field(saved[x], "reasons", {})
ClearedSource(x) ==
    LET remaining == saved[x]["reasons"] \ {"source"}
    IN  [reasons |-> remaining, needs |-> remaining # {}]

-----------------------------------------------------------------------------
Init ==
    /\ drawer \in Drawers
    /\ present = {} /\ flagged = {}
    /\ saved = <<>> /\ managed = {}
    /\ shown = <<>> /\ prepared = Nothing
    /\ contradicted = {}

\* An import, or a replacement that brings fewer rows, more, or none.
Import(s) ==
    \E T \in Versions[s] : \E F \in SUBSET (T \cap Faulty) :
        LET others == {x \in present : Fact[x].stmt # s}
        IN  /\ others \cup T # present \/ (flagged \cap others) \cup F # flagged
            /\ present' = others \cup T
            /\ flagged' = (flagged \cap others) \cup F
            /\ Published(Derived(present', flagged', Rules, saved))
            /\ contradicted' = {}
            /\ UNCHANGED <<drawer, saved, managed>>

Prepare(choices) ==
    /\ prepared' = [choices |-> choices, fresh |-> TRUE]
    /\ UNCHANGED <<drawer, present, flagged, saved, managed, shown, contradicted>>

For(x, choice) == [y \in {x} |-> choice]

Review(rows, x, decision) ==
    /\ Allowed(x, decision)
    /\ Prepare(For(x, DecisionPatch(rows[x], decision)))

ReviewPair(rows, x, y) ==
    /\ ManualFacts(x, y, rows)
    /\ \E choices \in PairPatches(rows, {x, y}) : Prepare(choices)

ResolveSource(rows, x) ==
    /\ StaleSource(rows, x)
    /\ Prepare(For(x, ClearedSource(x)))

\* apply_workspace_corrections
Save(choices) ==
    \E merged \in {Merged(choices)} :
        /\ DOMAIN choices \subseteq present
        /\ Cardinality(DOMAIN merged) <= MaxChoices
        /\ saved' = [x \in DOMAIN merged |-> Loaded(merged[x])]
        /\ shown' = Derived(present, flagged, Rules, merged)
        /\ contradicted' = Contradicted(merged)
        /\ saved' # saved \/ shown' # shown
        /\ UNCHANGED <<drawer, present, flagged, managed>>

Apply ==
    /\ prepared.fresh
    /\ Save(prepared.choices)
    /\ prepared' = Nothing

\* The workspace changed, or there is nothing to write.
GiveUp ==
    /\ prepared # Nothing
    /\ prepared' = Nothing
    /\ UNCHANGED <<drawer, present, flagged, saved, managed, shown, contradicted>>

Correct(x, patch) ==
    /\ Save(For(x, patch))
    /\ Published(shown')

\* Mutant of Learn: the rules are written, and the views are left for later.
LearnForLater ==
    /\ managed' = LearnedRules(Current, saved)
    /\ managed' # managed
    /\ contradicted' = {}
    /\ UNCHANGED <<drawer, present, flagged, saved, shown, prepared>>

Learn ==
    /\ managed' = LearnedRules(Current, saved)
    /\ Published(Derived(present, flagged, ManualRules \cup managed', saved))
    /\ managed' # managed \/ shown' # shown
    /\ contradicted' = {}
    /\ UNCHANGED <<drawer, present, flagged, saved>>

Next ==
    \/ \E s \in drawer : Import(s)
    \/ prepared = Nothing /\ \E rows \in {Current} :
          \/ \E x \in present : \E decision \in Decisions[x] : Review(rows, x, decision)
          \/ \E x, y \in present : ReviewPair(rows, x, y)
          \/ \E x \in present : ResolveSource(rows, x)
    \/ Apply
    \/ GiveUp
    \/ \E x \in present : \E patch \in FilePatches[x] : Correct(x, patch)
    \/ Learn

Spec == Init /\ [][Next]_vars

-----------------------------------------------------------------------------
(* How far a change of some rows reaches: the exchanges of their            *)
(* institution, and two steps along the transfers the facts allow.          *)
FactsAllow(x, z) ==
    /\ Fact[x].acct # Fact[z].acct
    /\ Value(x) # {} /\ Value(x) # {0} /\ Value(x) = {-v : v \in Value(z)}
    /\ Between(x, z) # {}
    /\ Distance(x, z) <= Window
ExchangeReach(S) ==
    S \cup {y \in present : \E x \in S :
                Fact[x].inst = Fact[y].inst /\ {Fact[x].word, Fact[y].word} \subseteq {"exchange", "deposit"}}
TransferReach(S) ==
    S \cup {y \in present : \E x \in S : FactsAllow(x, y) \/ FactsAllow(y, x)}
Reach(S) == TransferReach(TransferReach(ExchangeReach(S)))

(* The views a person reads are what the files give, so that the next       *)
(* command derives the same rows, but for two things.  The questions of a   *)
(* correction whose reasons were cleared are cleared in the published rows  *)
(* only, because a blank cell of corrections.csv is not read.  And what was *)
(* finished over reasons that are still saved counted for the memory of its *)
(* merchant only while it was held: the rows this reaches may change.       *)
OnlyAnswered(rows, x) ==
    /\ x \in DOMAIN saved /\ Finished(saved[x])
    /\ \E asked \in {{"owner"}, {"owner", "category", "flow"}} :
          shown[x] = SetReasons(rows[x], {}, asked)
ForgottenWith(S) == {y \in present : \E x \in S : MemoryKey(y) = MemoryKey(x)}
ShownIsRederived ==
    \A rows \in {Current} :
        /\ DOMAIN shown = DOMAIN rows
        /\ \A x \in DOMAIN rows :
              \/ shown[x] = rows[x]
              \/ OnlyAnswered(rows, x)
              \/ x \in Reach(ForgottenWith(contradicted))

(* What the documents say: a refresh is a rebuild of the same files, so     *)
(* that a rebuild moves no row to another category.                         *)
RebuildKeepsCategories ==
    \A rows \in {Current} : \A x \in DOMAIN shown \cap DOMAIN rows : shown[x].cat = rows[x].cat

(* A pair is of two rows that name each other, that the report excludes     *)
(* alike, and whose amounts cancel: no movement of cash is counted twice,   *)
(* and none is half counted.  Two rows that a person paired cancel in their *)
(* own currency; on different days they may have different values.          *)
Cancel(x, y) ==
    IF shown[x].group = "manual"
    THEN Fact[x].ccy = Fact[y].ccy /\ Fact[x].amt = -Fact[y].amt
    ELSE shown[x].value = {-v : v \in shown[y].value}
PairsSound ==
    \A x \in DOMAIN shown :
        LET d == shown[x] IN
        /\ (d.status = "paired") <=> (d.partner # None)
        /\ d.partner # None =>
              /\ d.partner \in DOMAIN shown \ {x}
              /\ LET other == shown[d.partner] IN
                    /\ other.partner = x
                    /\ other.group = d.group /\ other.flow = d.flow
                    /\ d.flow \in Transfers
                    /\ Cancel(x, d.partner)

(* A transfer is paired on its own only if no other row could be its other  *)
(* half: one that is as near, of the opposite value, in another account,    *)
(* that nothing else has claimed, and that what was decided and what the    *)
(* categories say does not exclude.                                         *)
LooksExternal(z) ==
    /\ ~Explicit(shown[z]) /\ "structural" \notin shown[z].flags
    /\ FlowFor(z, shown[z]) \in External
CouldPair(x, z) ==
    /\ FactsAllow(x, z)
    /\ shown[z].group # "exchange" /\ shown[z].pair = None
    /\ \E flow \in Between(x, z) :
          \A w \in {x, z} : Explicit(shown[w]) => shown[w].flow = flow
    /\ ~(LooksExternal(x) /\ LooksExternal(z))
NoRival ==
    \A x \in DOMAIN shown : shown[x].group = "transfer" =>
        /\ CouldPair(x, shown[x].partner)
        /\ \A z \in DOMAIN shown \ {x} :
              CouldPair(x, z) /\ Distance(x, z) <= Distance(x, shown[x].partner)
                  => z = shown[x].partner

(* The legs of an exchange event are paired exactly if one assignment, and  *)
(* only one, gives every debit a deposit at an acceptable rate.             *)
ExchangeForced ==
    {<<x, shown[x].partner>> : x \in {y \in DOMAIN shown : shown[y].group = "exchange" /\ IsDebit(y)}}
        = UNION {PairsBy(trial, OnlyMatching(trial.edges)) : trial \in Trials(Events(shown))}

(* Pairs are sound, and made only where the facts leave no other choice.    *)
PairsForced == PairsSound /\ NoRival /\ ExchangeForced

(* What no one has decided keeps asking: a row without a category, or whose *)
(* flow is open, is pending.  The published rows of a correction whose      *)
(* reasons were cleared are left out, as above.                             *)
Undecided(d) == d.cat = "Unknown" \/ d.flow = "unresolved"
UndecidedIsPending ==
    /\ \A rows \in {Current} : \A x \in present : Undecided(rows[x]) => rows[x].needs
    /\ \A x \in DOMAIN shown :
          Undecided(shown[x]) => shown[x].needs \/ (x \in DOMAIN saved /\ Finished(saved[x]))

(* A saved flow is the flow shown, whatever rules, memory, marks and        *)
(* candidates say, and a finished one asks nothing more of its flow; only   *)
(* an exchange and a manual pair stand above it.                            *)
DecidedFlow(x) == {f \in {"none", Field(saved[x], "flow", "none")} : f # "none"}
DecisionHolds ==
    \A x \in DOMAIN shown \cap DOMAIN saved :
        shown[x].group # "exchange" /\ shown[x].pair = None =>
            \A flow \in DecidedFlow(x) :
                /\ shown[x].flow = flow /\ shown[x].src = "correction"
                /\ flow # "unresolved" => "flow" \notin shown[x].reasons

(* What was decided is shown, and what was not keeps asking.                *)
ChoicesShown == UndecidedIsPending /\ DecisionHolds

(* Learning writes down what was decided and decides nothing: a row that no *)
(* one has corrected gets no category from the rules just learned.          *)
LearnDecidesNothing ==
    [][managed' # managed =>
        LET unlearned == Derived(present, flagged, ManualRules, saved) IN
        \A x \in present \ DOMAIN saved :
            ~Fact[x].amb => shown'[x].cat = unlearned[x].cat]_vars

(* A choice that was worked out before the lock is saved only if it would   *)
(* be worked out the same now: it clears no reason that came since, and     *)
(* takes no row that another choice has taken.                              *)
WorkedOutNow(choices) ==
    \E rows \in {Current}, x \in present, y \in present :
        \/ \E decision \in Decisions[x] : choices = For(x, DecisionPatch(rows[x], decision))
        \/ ManualFacts(x, y, rows) /\ choices \in PairPatches(rows, {x, y})
        \/ StaleSource(rows, x) /\ choices = For(x, ClearedSource(x))
AppliedAsSeen ==
    [][prepared # Nothing /\ saved' # saved /\ prepared' = Nothing => WorkedOutNow(prepared.choices)]_vars

(* A choice reaches no further than its row, the rows that remember it or   *)
(* were or are paired with it, the exchanges of their institution, and two  *)
(* steps along the transfers the facts allow.                               *)
Touched ==
    LET changed == {x \in DOMAIN saved' : x \notin DOMAIN saved \/ saved'[x] # saved[x]}
        shares(old, x, y) ==
            /\ {x, y} \subseteq DOMAIN old /\ Field(old[x], "pair", None) # None
            /\ Field(old[y], "pair", None) = old[x]["pair"]
    IN  {y \in present : \E x \in changed :
            \/ MemoryKey(y) = MemoryKey(x)
            \/ shares(saved, x, y) \/ shares(saved', x, y)}
ChoicesStayLocal ==
    [][saved' # saved =>
        \A rows \in {Current} : \A x \in present :
            shown'[x] # rows[x] => x \in Reach(Touched)]_vars

(* What a command saves is what its user saw, and reaches no further than   *)
(* that row and what it is paired or remembered with.                       *)
SavesStayLocal == LearnDecidesNothing /\ AppliedAsSeen /\ ChoicesStayLocal

(* A statement's balances are checked on all its rows of the account and    *)
(* currency, though a view may show only some of them, and agree only if    *)
(* those rows explain the difference; an account agrees only if each of its *)
(* statements does.                                                         *)
Explains(S, opening, closing) ==
    LET activity == MapThenSumSet(LAMBDA x : Fact[x].amt, S)
    IN  \/ opening + activity = closing
        \/ (\A x \in S : Fact[x].type = "credit_card") /\ opening - activity = closing
Explained(x) ==
    LET found == Balance[Fact[x].stmt]
    IN  \E opening, closing \in found.opening \cup found.closing :
        /\ found = [opening |-> {opening}, closing |-> {closing}]
        /\ Explains({y \in DOMAIN shown : BalanceKey(y) = BalanceKey(x)}, opening, closing)
BalanceOfWholeStatement ==
    \A x \in DOMAIN shown :
        /\ StatementResult(Complete(DOMAIN shown, {x}), BalanceKey(x)) = "matched" <=> Explained(x)
        /\ AccountResult(DOMAIN shown, Fact[x].acct) = "matched" =>
              \A y \in DOMAIN shown : Fact[y].acct = Fact[x].acct => Explained(y)
=============================================================================
