---------------------------- MODULE RecordIdentity ----------------------------
(***************************************************************************)
(* Which transaction id each row of a statement gets when the statement is *)
(* imported and replaced again and again: resolve_records and the record   *)
(* part of resolve_batch in honeymoney/identity.py, for one source of a    *)
(* workspace without rows of the old format.                               *)
(*                                                                         *)
(* A row is known by its place in the statement (its locator) and by the   *)
(* fingerprint of its facts; two rows may have equal fingerprints.  The id *)
(* of a record is a digest of its allocation origin, so records are named  *)
(* by their origins here.  A reset resolves as a replacement does.         *)
(***************************************************************************)
EXTENDS Naturals, FiniteSets

CONSTANTS
    Locators,       \* places of rows in a statement
    Fingerprints,   \* facts of rows
    Statements,     \* [revision, contract, rows]: rows maps locators to facts
    MaxRecords,     \* bound: records the source may come to own
    NoStatement     \* no statement imported yet

ASSUME LocatorsAssumption == Locators \subseteq Nat \ {0} /\ IsFiniteSet(Locators)
ASSUME StatementsAssumption ==
    /\ NoStatement \notin Statements
    /\ \A st \in Statements :
          /\ DOMAIN st.rows \subseteq Locators
          /\ \A l \in DOMAIN st.rows : st.rows[l] \in Fingerprints

VARIABLES
    owned,      \* record -> its current locator, 0 once it is retired
    source,     \* the statement the index and the snapshot stand for, or none
    ledger      \* locator -> the record its row in transactions.csv names

recordVars == <<owned, source, ledger>>

-------------------------------------------------------------------------------
(***************************************************************************)
(* Records.                                                                *)
(***************************************************************************)
Active  == {a \in DOMAIN owned : owned[a] # 0}
Retired == {a \in DOMAIN owned : owned[a] = 0}

\* The allocation origin of the row at l: its ordinal counts equal rows.
Origin(st, l) ==
    [revision |-> st.revision, contract |-> st.contract,
     fingerprint |-> st.rows[l], locator |-> l,
     ordinal |-> Cardinality({m \in DOMAIN st.rows :
                                m <= l /\ st.rows[m] = st.rows[l]})]

RecordsTypeOK ==
    /\ source \in Statements \cup {NoStatement}
    /\ \A a \in DOMAIN owned :
          /\ owned[a] \in Locators \cup {0}
          /\ a.fingerprint \in Fingerprints /\ a.locator \in Locators
          /\ a.ordinal \in Nat \ {0}
    /\ DOMAIN ledger = IF source = NoStatement THEN {} ELSE DOMAIN source.rows
    /\ \A l \in DOMAIN ledger : ledger[l] \in DOMAIN owned

RecordsInit ==
    /\ owned = [a \in {} |-> 0]
    /\ source = NoStatement
    /\ ledger = [l \in {} |-> NoStatement]

-------------------------------------------------------------------------------
(***************************************************************************)
(* One resolution.                                                         *)
(***************************************************************************)
Known(st) == source # NoStatement /\ source.revision = st.revision

\* The bytes and the way to read them are what they were.
ExactCurrent(st) == Known(st) /\ source.contract = st.contract

\* Each active record is where its row is.
ExactRows(st) ==
    {<<owned[a], a.fingerprint>> : a \in Active}
      = {<<l, st.rows[l]>> : l \in DOMAIN st.rows}

SameFacts(st) ==
    \A f \in Fingerprints :
       Cardinality({a \in Active : a.fingerprint = f})
         = Cardinality({l \in DOMAIN st.rows : st.rows[l] = f})

\* A proven parser upgrade: another contract, or other facts in equal bytes.
Upgrade(st) ==
    /\ source # NoStatement
    /\ \/ source.contract # st.contract
       \/ Known(st) /\ ~ SameFacts(st)

\* Rows of an upgrade, in unchanged bytes, whose record is where it was.
Proved(st) ==
    {l \in DOMAIN st.rows :
       /\ Upgrade(st) /\ Known(st)
       /\ \E a \in Active : owned[a] = l /\ a.fingerprint = st.rows[l]}

\* Rows whose very origin is that of a retired record.
Recurring(st) == {l \in DOMAIN st.rows \ Proved(st) : Origin(st, l) \in Retired}

\* Mutant: a proved record is still open to another row.
CandidatesAll(st) == Active

\* Records and rows left to match, and those of them with one fingerprint.
Candidates(st) == {a \in Active : owned[a] \notin Proved(st)}
Rest(st)       == DOMAIN st.rows \ (Proved(st) \cup Recurring(st))
Old(st, f)     == {a \in Candidates(st) : a.fingerprint = f}
New(st, f)     == {l \in Rest(st) : st.rows[l] = f}

Single(set) == \E x \in set : set = {x}

\* Mutant: several records for one row are no obstacle.
AmbiguousRows(st, f) == Old(st, f) # {} /\ New(st, f) # {} /\ ~ Single(New(st, f))

\* Equal facts on both sides, more than once on one of them.
Ambiguous(st, f) ==
    /\ Old(st, f) # {} /\ New(st, f) # {}
    /\ ~ (Single(Old(st, f)) /\ Single(New(st, f)))

\* Mutant: as many rows as records are matched in some order.
MatchedInOrder(st, l) ==
    LET f == st.rows[l]
    IN  /\ l \in Rest(st)
        /\ Old(st, f) # {}
        /\ Cardinality(Old(st, f)) = Cardinality(New(st, f))

\* One record and one row with the same facts.
Matched(st, l) ==
    LET f == st.rows[l]
    IN  l \in Rest(st) /\ Single(Old(st, f)) /\ Single(New(st, f))

Owner(st, l) ==
    IF l \in Proved(st) THEN CHOOSE a \in Active : owned[a] = l
    ELSE IF Matched(st, l) THEN CHOOSE a \in Old(st, st.rows[l]) : TRUE
    ELSE Origin(st, l)

\* A new record would bear the id of one the source owns already; the manifest
\* is then invalid.
Collides(st) ==
    \E l \in Rest(st) : ~ Matched(st, l) /\ Origin(st, l) \in DOMAIN owned

\* The manifest and the rows of the resolution.
NextLedger(st) ==
    IF ExactCurrent(st) /\ ExactRows(st)
    THEN [l \in DOMAIN st.rows |-> CHOOSE a \in Active : owned[a] = l]
    ELSE [l \in DOMAIN st.rows |-> Owner(st, l)]

RecordsIn(new) == {new[l] : l \in DOMAIN new}

\* Records with a row are active there; all others are retired.
NextOwned(new) ==
    [a \in DOMAIN owned \cup RecordsIn(new) |->
       IF a \in RecordsIn(new) THEN CHOOSE l \in DOMAIN new : new[l] = a ELSE 0]

\* resolve_records does not raise, nor does the manifest it makes.
AcceptsRows(st) ==
    \/ ExactCurrent(st) /\ ExactRows(st)
    \/ /\ ExactCurrent(st) => Upgrade(st)
       /\ ~ Upgrade(st) => \A f \in Fingerprints : ~ Ambiguous(st, f)
       /\ ~ Collides(st)

-------------------------------------------------------------------------------
(***************************************************************************)
(* Commands.                                                               *)
(***************************************************************************)
Install(st) ==
    /\ AcceptsRows(st)
    /\ source' = st
    /\ ledger' = NextLedger(st)
    /\ owned' = NextOwned(ledger')
    /\ Cardinality(DOMAIN owned') <= MaxRecords

\* A plain import of a new source, and a replacement of one that is known.
Import(st)  == source = NoStatement /\ Install(st)
Replace(st) == source # NoStatement /\ Install(st)

RecordsNext == \E st \in Statements : Import(st) \/ Replace(st)

RecordsSpec == RecordsInit /\ [][RecordsNext]_recordVars

-------------------------------------------------------------------------------
(***************************************************************************)
(* Properties.                                                             *)
(***************************************************************************)

\* Rows and active records correspond one to one, in place and in facts: what
\* the next command demands before it does anything.
\* (_validate_global_ledger_manifest_agreement)
LedgerAgrees ==
    source # NoStatement =>
        /\ \A l \in DOMAIN source.rows :
              /\ ledger[l] \in Active
              /\ owned[ledger[l]] = l
              /\ ledger[l].fingerprint = source.rows[l]
        /\ \A a \in Active : \E l \in DOMAIN source.rows : ledger[l] = a

\* An id once given to a row is never forgotten, so that it cannot be given to
\* another row.  (resolve_records, retired records)
IdsKept == [][DOMAIN owned \subseteq DOMAIN owned']_recordVars

\* A retired id comes back only for the very row it was allocated to: a new
\* payment that looks like an old one never inherits its corrections.
\* (docs/adr/0001, "Retired records never enter this fingerprint graph")
ReturnsOnlyHome ==
    [][ \A a \in Retired :
          a \in Active' =>
            /\ owned'[a] = a.locator
            /\ source'.revision = a.revision /\ source'.contract = a.contract ]_recordVars

\* Of rows that look alike no one is guessed: a record follows its facts to
\* another place only when every other record with these facts stays where it
\* was or returns from retirement.  (_unique_fingerprint_matches)
NoGuess ==
    [][ \A a \in Active :
          owned'[a] \notin {0, owned[a]} =>
            \A b \in DOMAIN owned' \ {a} :
               b.fingerprint = a.fingerprint =>
                 \/ b \in Active /\ owned'[b] = owned[b]
                 \/ b \in Retired ]_recordVars

\* An id stays with the payment it was given to: it is not forgotten, not given
\* to another row, and not guessed.  (resolve_records)
IdsStay == IdsKept /\ ReturnsOnlyHome /\ NoGuess

(***************************************************************************)
(* The rule the code implements by counting, as the decision record states *)
(* it: reuse is accepted when the graph of equal facts has exactly one     *)
(* maximum matching.                                                       *)
(***************************************************************************)
Edges(st) == {e \in Active \X (DOMAIN st.rows \ Recurring(st)) :
                e[1].fingerprint = st.rows[e[2]]}
Matchings(st) ==
    {m \in SUBSET Edges(st) :
       \A d, e \in m : (d[1] = e[1] \/ d[2] = e[2]) => d = e}
Maximum(st) ==
    LET all == Matchings(st)
    IN  {m \in all : \A n \in all : Cardinality(n) <= Cardinality(m)}

\* A changed statement is accepted exactly when one maximum matching exists, and
\* its records then go where that matching says.
MatchesUniquely ==
    source # NoStatement =>
      \A st \in Statements :
        ~ ExactCurrent(st) /\ ~ Upgrade(st) /\ ~ Collides(st) =>
          LET best == Maximum(st)
          IN  /\ AcceptsRows(st) <=> Single(best)
              /\ AcceptsRows(st) =>
                   \A m \in best : \A a \in Active, l \in DOMAIN st.rows :
                      NextLedger(st)[l] = a <=> <<a, l>> \in m
===============================================================================
