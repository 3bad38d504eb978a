---------------------------- MODULE IdentityProofs ----------------------------
(***************************************************************************)
(* Theorems about RecordIdentity, the ids of the rows of one source, and   *)
(* about OverlapLedger, the slots of equal rows of several sources, for    *)
(* any sources, records and bounds.                                        *)
(*                                                                         *)
(* Of records: the heart is that a resolution gives every row a record of  *)
(* its own (OwnersDistinct); the four properties follow from where each of *)
(* the four kinds of owner comes from.                                     *)
(*                                                                         *)
(* Of slots: the counts of a support are characterized first: KeepAll is   *)
(* the largest of them and SameEvent the second largest.  The inductive    *)
(* invariant says that the manifest is the one its own rows imply, that    *)
(* the corrections stay within its slots, and that its memberships are the *)
(* user's choices.                                                         *)
(***************************************************************************)
EXTENDS RecordIdentity, OverlapLedger, FiniteSetTheorems, WellFoundedInduction, TLAPS


\* Before the first import the source owns nothing.
Unborn == source = NoStatement => DOMAIN owned = {} /\ DOMAIN ledger = {}

\* The inductive invariant.
Coherent == RecordsTypeOK /\ Unborn /\ LedgerAgrees

-------------------------------------------------------------------------------
(***************************************************************************)
(* Owners.                                                                 *)
(***************************************************************************)

\* Two active records are never in one place.
LEMMA PlacesDistinct ==
    ASSUME Coherent, NEW a \in Active, NEW b \in Active, owned[a] = owned[b]
    PROVE  a = b
<1>1. source # NoStatement
  BY DEF Coherent, Unborn, Active
<1>2. PICK l \in DOMAIN source.rows : ledger[l] = a
  BY <1>1 DEF Coherent, LedgerAgrees
<1>3. PICK m \in DOMAIN source.rows : ledger[m] = b
  BY <1>1 DEF Coherent, LedgerAgrees
<1>4. owned[a] = l /\ owned[b] = m
  BY <1>1, <1>2, <1>3 DEF Coherent, LedgerAgrees
<1> QED BY <1>2, <1>3, <1>4

\* The owner of a proved row is an active record in that very place.
LEMMA ProvedOwner ==
    ASSUME Coherent, NEW st \in Statements, NEW l \in Proved(st)
    PROVE  /\ Owner(st, l) \in Active
           /\ owned[Owner(st, l)] = l
           /\ Owner(st, l).fingerprint = st.rows[l]
<1>1. PICK a \in Active : owned[a] = l /\ a.fingerprint = st.rows[l]
  BY DEF Proved
<1>2. Owner(st, l) = CHOOSE b \in Active : owned[b] = l
  BY DEF Owner
<1>3. Owner(st, l) \in Active /\ owned[Owner(st, l)] = l
  BY <1>1, <1>2
<1>4. Owner(st, l) = a
  BY <1>1, <1>3, PlacesDistinct
<1> QED BY <1>1, <1>3, <1>4

\* The owner of a matched row is the one candidate with its facts.
LEMMA MatchedOwner ==
    ASSUME NEW st \in Statements, NEW l \in DOMAIN st.rows, Matched(st, l)
    PROVE  /\ l \in Rest(st) /\ l \notin Proved(st)
           /\ Old(st, st.rows[l]) = {Owner(st, l)}
           /\ New(st, st.rows[l]) = {l}
           /\ Owner(st, l) \in Candidates(st) /\ Owner(st, l) \in Active
           /\ Owner(st, l).fingerprint = st.rows[l]
<1>1. l \in Rest(st) /\ l \notin Proved(st)
  BY DEF Matched, Rest
<1>2. Owner(st, l) = CHOOSE a \in Old(st, st.rows[l]) : TRUE
  BY <1>1 DEF Owner
<1>3. PICK a : Old(st, st.rows[l]) = {a}
  BY DEF Matched, Single
<1>4. Owner(st, l) = a
  BY <1>2, <1>3
<1>5. l \in New(st, st.rows[l])
  BY <1>1 DEF New
<1>6. New(st, st.rows[l]) = {l}
  BY <1>5 DEF Matched, Single
<1>7. a \in Old(st, st.rows[l])
  BY <1>3
<1>8. a \in Candidates(st) /\ a \in Active /\ a.fingerprint = st.rows[l]
  BY <1>7 DEF Old, Candidates
<1> QED BY <1>1, <1>3, <1>4, <1>6, <1>8

\* Any other row's owner has the origin of the row itself, and is not active.
LEMMA OriginOwner ==
    ASSUME NEW st \in Statements, NEW l \in DOMAIN st.rows,
           ~ Collides(st), l \notin Proved(st), ~ Matched(st, l)
    PROVE  /\ Owner(st, l) = Origin(st, l)
           /\ Owner(st, l) \notin Active
           /\ Owner(st, l).fingerprint = st.rows[l]
           /\ Owner(st, l).locator = l
           /\ Owner(st, l).revision = st.revision
           /\ Owner(st, l).contract = st.contract
           /\ \/ l \in Recurring(st) /\ Owner(st, l) \in Retired
              \/ l \in Rest(st) /\ Owner(st, l) \notin DOMAIN owned
<1>1. Owner(st, l) = Origin(st, l)
  BY DEF Owner
<1>2. /\ Origin(st, l).fingerprint = st.rows[l] /\ Origin(st, l).locator = l
      /\ Origin(st, l).revision = st.revision
      /\ Origin(st, l).contract = st.contract
  BY DEF Origin
<1>3. CASE l \in Recurring(st)
  <2>1. Origin(st, l) \in Retired
    BY <1>3 DEF Recurring
  <2> QED BY <1>1, <1>2, <1>3, <2>1 DEF Active, Retired
<1>4. CASE l \notin Recurring(st)
  <2>1. l \in Rest(st)
    BY <1>4 DEF Rest
  <2>2. Origin(st, l) \notin DOMAIN owned
    BY <2>1 DEF Collides
  <2> QED BY <1>1, <1>2, <2>1, <2>2 DEF Active
<1> QED BY <1>3, <1>4

\* Different rows have different owners.
LEMMA OwnersDistinct ==
    ASSUME Coherent, NEW st \in Statements, ~ Collides(st),
           NEW l \in DOMAIN st.rows, NEW m \in DOMAIN st.rows,
           Owner(st, l) = Owner(st, m)
    PROVE  l = m
<1>1. CASE l \in Proved(st) /\ m \in Proved(st)
  BY <1>1, ProvedOwner
<1>2. ASSUME NEW p \in Proved(st), NEW q \in DOMAIN st.rows, Matched(st, q)
      PROVE  Owner(st, p) # Owner(st, q)
  <2>1. owned[Owner(st, p)] = p
    BY ProvedOwner
  <2>2. owned[Owner(st, q)] \notin Proved(st)
    BY <1>2, MatchedOwner DEF Candidates
  <2> QED BY <2>1, <2>2
<1>3. ASSUME NEW p \in DOMAIN st.rows, NEW q \in DOMAIN st.rows,
             p \in Proved(st) \/ Matched(st, p),
             q \notin Proved(st), ~ Matched(st, q)
      PROVE  Owner(st, p) # Owner(st, q)
  <2>1. Owner(st, p) \in Active
    BY <1>3, ProvedOwner, MatchedOwner
  <2> QED BY <1>3, <2>1, OriginOwner
<1>4. CASE Matched(st, l) /\ Matched(st, m)
  <2>1. st.rows[l] = st.rows[m]
    BY <1>4, MatchedOwner
  <2> QED BY <1>4, <2>1, MatchedOwner
<1>5. CASE /\ l \notin Proved(st) /\ ~ Matched(st, l)
           /\ m \notin Proved(st) /\ ~ Matched(st, m)
  BY <1>5, OriginOwner
<1>6. Proved(st) \subseteq DOMAIN st.rows
  BY DEF Proved
<1> QED BY <1>1, <1>2, <1>3, <1>4, <1>5, <1>6

-------------------------------------------------------------------------------
(***************************************************************************)
(* Resolutions.                                                            *)
(***************************************************************************)

\* What an accepted resolution does to the records: each row names a record
\* of its own with the row's facts, and is where that record now is.
Resolution(st, new) ==
    /\ DOMAIN new = DOMAIN st.rows
    /\ \A l, m \in DOMAIN new : new[l] = new[m] => l = m
    /\ \A l \in DOMAIN new : new[l].fingerprint = st.rows[l]

\* Exactly known statements keep every record in its place.
LEMMA ExactResolution ==
    ASSUME Coherent, NEW st \in Statements, ExactRows(st)
    PROVE  LET new == [l \in DOMAIN st.rows |-> CHOOSE a \in Active : owned[a] = l]
           IN  /\ Resolution(st, new)
               /\ RecordsIn(new) = Active
               /\ \A l \in DOMAIN new : owned[new[l]] = l
<1> DEFINE new == [l \in DOMAIN st.rows |-> CHOOSE a \in Active : owned[a] = l]
<1>1. ASSUME NEW l \in DOMAIN st.rows
      PROVE  /\ new[l] \in Active /\ owned[new[l]] = l
             /\ new[l].fingerprint = st.rows[l]
  <2>1. <<l, st.rows[l]>> \in {<<owned[a], a.fingerprint>> : a \in Active}
    BY DEF ExactRows
  <2>2. PICK a \in Active : owned[a] = l /\ a.fingerprint = st.rows[l]
    BY <2>1
  <2>3. new[l] \in Active /\ owned[new[l]] = l
    BY <2>2
  <2>4. new[l] = a
    BY <2>2, <2>3, PlacesDistinct
  <2> QED BY <2>2, <2>3, <2>4
<1>2. ASSUME NEW a \in Active PROVE \E l \in DOMAIN new : new[l] = a
  <2>1. <<owned[a], a.fingerprint>> \in {<<l, st.rows[l]>> : l \in DOMAIN st.rows}
    BY DEF ExactRows
  <2>2. owned[a] \in DOMAIN st.rows
    BY <2>1
  <2>3. new[owned[a]] = a
    BY <1>1, <2>2, PlacesDistinct
  <2> QED BY <2>2, <2>3
<1>3. DOMAIN new = DOMAIN st.rows
  OBVIOUS
<1> HIDE DEF new
<1>4. Resolution(st, new)
  BY <1>1, <1>3 DEF Resolution
<1>5. RecordsIn(new) = Active
  BY <1>1, <1>2, <1>3 DEF RecordsIn
<1>6. \A l \in DOMAIN new : owned[new[l]] = l
  BY <1>1, <1>3
<1> QED BY <1>4, <1>5, <1>6 DEF new

\* Every accepted statement is resolved so, exactly known or not.
LEMMA AcceptedResolution ==
    ASSUME Coherent, NEW st \in Statements, AcceptsRows(st)
    PROVE  /\ Resolution(st, NextLedger(st))
           /\ \/ /\ RecordsIn(NextLedger(st)) = Active
                 /\ \A l \in DOMAIN st.rows : owned[NextLedger(st)[l]] = l
              \/ /\ ~ Collides(st)
                 /\ \A l \in DOMAIN st.rows : NextLedger(st)[l] = Owner(st, l)
<1>1. CASE ExactCurrent(st) /\ ExactRows(st)
  <2>1. NextLedger(st)
          = [l \in DOMAIN st.rows |-> CHOOSE a \in Active : owned[a] = l]
    BY <1>1 DEF NextLedger
  <2> QED BY <1>1, <2>1, ExactResolution
<1>2. CASE ~ (ExactCurrent(st) /\ ExactRows(st))
  <2>1. ~ Collides(st)
    BY <1>2 DEF AcceptsRows
  <2>2. NextLedger(st) = [l \in DOMAIN st.rows |-> Owner(st, l)]
    BY <1>2 DEF NextLedger
  <2>3. \A l, m \in DOMAIN st.rows : Owner(st, l) = Owner(st, m) => l = m
    BY <2>1, OwnersDistinct
  <2>4. \A l \in DOMAIN st.rows : Owner(st, l).fingerprint = st.rows[l]
    BY <2>1, ProvedOwner, MatchedOwner, OriginOwner
  <2>5. Resolution(st, NextLedger(st))
    BY <2>2, <2>3, <2>4 DEF Resolution
  <2> QED BY <2>1, <2>2, <2>5
<1> QED BY <1>1, <1>2

\* Where the records are after a resolution.
LEMMA NextPlaces ==
    ASSUME NEW st \in Statements, NEW new, Resolution(st, new)
    PROVE  /\ DOMAIN NextOwned(new) = DOMAIN owned \cup RecordsIn(new)
           /\ \A l \in DOMAIN new : NextOwned(new)[new[l]] = l
           /\ \A a \in DOMAIN NextOwned(new) :
                 \/ \E l \in DOMAIN new : new[l] = a
                 \/ NextOwned(new)[a] = 0 /\ a \in DOMAIN owned
<1>1. DOMAIN NextOwned(new) = DOMAIN owned \cup RecordsIn(new)
  BY DEF NextOwned
<1>2. ASSUME NEW l \in DOMAIN new PROVE NextOwned(new)[new[l]] = l
  <2>1. new[l] \in RecordsIn(new)
    BY DEF RecordsIn
  <2>2. NextOwned(new)[new[l]] = CHOOSE m \in DOMAIN new : new[m] = new[l]
    BY <2>1 DEF NextOwned
  <2>3. \A m \in DOMAIN new : new[m] = new[l] => m = l
    BY DEF Resolution
  <2> QED BY <2>2, <2>3
<1>3. ASSUME NEW a \in DOMAIN NextOwned(new), a \notin RecordsIn(new)
      PROVE  NextOwned(new)[a] = 0 /\ a \in DOMAIN owned
  BY <1>3 DEF NextOwned
<1> QED BY <1>1, <1>2, <1>3 DEF RecordsIn

-------------------------------------------------------------------------------
(***************************************************************************)
(* The invariant.                                                          *)
(***************************************************************************)

\* An ordinal counts at least the row itself.
LEMMA OrdinalsPositive ==
    ASSUME NEW st \in Statements, NEW l \in DOMAIN st.rows
    PROVE  Origin(st, l).ordinal \in Nat \ {0}
<1> DEFINE same == {m \in DOMAIN st.rows : m <= l /\ st.rows[m] = st.rows[l]}
<1>1. DOMAIN st.rows \subseteq Locators /\ l \in Nat
  BY StatementsAssumption, LocatorsAssumption
<1>2. same \subseteq Locators
  BY <1>1
<1>3. IsFiniteSet(same)
  BY <1>2, LocatorsAssumption, FS_Subset
<1>4. l \in same
  BY <1>1
<1>5. Cardinality(same) \in Nat /\ Cardinality(same) # 0
  BY <1>3, <1>4, FS_CardinalityType, FS_EmptySet
<1> QED BY <1>5 DEF Origin

\* Every owner is a record.
LEMMA OwnerType ==
    ASSUME Coherent, NEW st \in Statements, NEW l \in DOMAIN st.rows,
           ~ Collides(st)
    PROVE  /\ Owner(st, l).fingerprint \in Fingerprints
           /\ Owner(st, l).locator \in Locators
           /\ Owner(st, l).ordinal \in Nat \ {0}
<1>1. CASE l \in Proved(st) \/ Matched(st, l)
  <2>1. Owner(st, l) \in DOMAIN owned
    BY <1>1, ProvedOwner, MatchedOwner DEF Active
  <2> QED BY <2>1 DEF Coherent, RecordsTypeOK
<1>2. CASE l \notin Proved(st) /\ ~ Matched(st, l)
  <2>1. Owner(st, l) = Origin(st, l)
    BY <1>2 DEF Owner
  <2>2. l \in Locators /\ st.rows[l] \in Fingerprints
    BY StatementsAssumption
  <2> QED BY <2>1, <2>2, OrdinalsPositive DEF Origin
<1> QED BY <1>1, <1>2

LEMMA CoherentInit == RecordsInit => Coherent
BY DEF RecordsInit, Coherent, RecordsTypeOK, Unborn, LedgerAgrees, Active

LEMMA CoherentNext == Coherent /\ [RecordsNext]_recordVars => Coherent'
<1> SUFFICES ASSUME Coherent, [RecordsNext]_recordVars PROVE Coherent'
  OBVIOUS
<1>1. CASE UNCHANGED recordVars
  BY <1>1 DEF recordVars, Coherent, RecordsTypeOK, Unborn, LedgerAgrees, Active
<1>2. ASSUME NEW st \in Statements, Install(st) PROVE Coherent'
  <2> DEFINE new == NextLedger(st)
  <2>1. source' = st /\ st # NoStatement /\ ledger' = new /\ owned' = NextOwned(new)
    BY <1>2, StatementsAssumption DEF Install
  <2>2. Resolution(st, new)
    BY <1>2, AcceptedResolution DEF Install
  <2>3. \A l \in DOMAIN st.rows : l \in Locators /\ l # 0
    BY StatementsAssumption, LocatorsAssumption
  <2> HIDE DEF new
  <2>4. /\ DOMAIN owned' = DOMAIN owned \cup RecordsIn(new)
        /\ \A l \in DOMAIN new : owned'[new[l]] = l
        /\ \A a \in DOMAIN owned' :
              \/ \E l \in DOMAIN new : new[l] = a
              \/ owned'[a] = 0 /\ a \in DOMAIN owned
    BY <2>1, <2>2, NextPlaces
  <2>5. DOMAIN new = DOMAIN st.rows
    BY <2>2 DEF Resolution
  <2>6. ASSUME NEW l \in DOMAIN new
        PROVE  /\ new[l].fingerprint \in Fingerprints
               /\ new[l].locator \in Locators /\ new[l].ordinal \in Nat \ {0}
    <3>1. CASE RecordsIn(new) = Active
      <4>1. new[l] \in DOMAIN owned
        BY <3>1 DEF RecordsIn, Active
      <4> QED BY <4>1 DEF Coherent, RecordsTypeOK
    <3>2. CASE ~ Collides(st) /\ \A m \in DOMAIN st.rows : new[m] = Owner(st, m)
      BY <2>5, <3>2, OwnerType
    <3> QED BY <1>2, <3>1, <3>2, AcceptedResolution DEF Install, new
  <2>7. RecordsTypeOK'
    <3>1. (source \in Statements \cup {NoStatement})'
      BY <2>1
    <3>2. ASSUME NEW a \in DOMAIN owned'
          PROVE  /\ owned'[a] \in Locators \cup {0}
                 /\ a.fingerprint \in Fingerprints /\ a.locator \in Locators
                 /\ a.ordinal \in Nat \ {0}
      <4>1. CASE \E l \in DOMAIN new : new[l] = a
        BY <2>3, <2>4, <2>5, <2>6, <4>1
      <4>2. CASE owned'[a] = 0 /\ a \in DOMAIN owned
        BY <4>2 DEF Coherent, RecordsTypeOK
      <4> QED BY <2>4, <4>1, <4>2
    <3>3. (DOMAIN ledger = IF source = NoStatement THEN {} ELSE DOMAIN source.rows)'
      BY <2>1, <2>5
    <3>4. (\A l \in DOMAIN ledger : ledger[l] \in DOMAIN owned)'
      BY <2>1, <2>4 DEF RecordsIn
    <3> QED BY <3>1, <3>2, <3>3, <3>4 DEF RecordsTypeOK
  <2>8. Unborn'
    BY <2>1 DEF Unborn
  <2>9. LedgerAgrees'
    <3>1. ASSUME NEW l \in DOMAIN st.rows
          PROVE  /\ new[l] \in Active' /\ owned'[new[l]] = l
                 /\ new[l].fingerprint = st.rows[l]
      <4>1. owned'[new[l]] = l /\ new[l] \in DOMAIN owned'
        BY <2>4, <2>5 DEF RecordsIn
      <4> QED BY <2>2, <2>3, <2>5, <4>1 DEF Active, Resolution
    <3>2. ASSUME NEW a \in Active' PROVE \E l \in DOMAIN st.rows : new[l] = a
      BY <2>4, <2>5 DEF Active
    <3> QED BY <2>1, <3>1, <3>2 DEF LedgerAgrees
  <2> QED BY <2>7, <2>8, <2>9 DEF Coherent
<1> QED BY <1>1, <1>2 DEF RecordsNext, Import, Replace

\* Soundness: a command never leaves rows and records that the next one would
\* refuse, whatever statements are imported and replaced.
THEOREM CoherentAlways == RecordsSpec => []Coherent
BY CoherentInit, CoherentNext, PTL DEF RecordsSpec

\* Type correctness: every record was allocated to a row that existed.
THEOREM TypeCorrect == RecordsSpec => []RecordsTypeOK
<1>1. Coherent => RecordsTypeOK
  BY DEF Coherent
<1> QED BY <1>1, CoherentAlways, PTL

\* Rows and active records correspond one to one, in place and in facts.
THEOREM Agreement == RecordsSpec => []LedgerAgrees
<1>1. Coherent => LedgerAgrees
  BY DEF Coherent
<1> QED BY <1>1, CoherentAlways, PTL

-------------------------------------------------------------------------------
(***************************************************************************)
(* Steps.                                                                  *)
(***************************************************************************)

\* An id once given is never forgotten.
THEOREM NothingForgotten == RecordsSpec => IdsKept
<1>1. [RecordsNext]_recordVars => [DOMAIN owned \subseteq DOMAIN owned']_recordVars
  BY DEF RecordsNext, Import, Replace, Install, NextOwned, recordVars
<1> QED BY <1>1, PTL DEF RecordsSpec, IdsKept

\* A retired id comes back only for the very row it was allocated to.
THEOREM RetiredReturnHome == RecordsSpec => ReturnsOnlyHome
<1> DEFINE A == \A a \in Retired :
                  a \in Active' =>
                    /\ owned'[a] = a.locator
                    /\ source'.revision = a.revision /\ source'.contract = a.contract
<1>1. ASSUME Coherent, NEW st \in Statements, Install(st),
             NEW a \in Retired, a \in Active'
      PROVE  /\ owned'[a] = a.locator
             /\ source'.revision = a.revision /\ source'.contract = a.contract
  <2> DEFINE new == NextLedger(st)
  <2>1. source' = st /\ owned' = NextOwned(new)
    BY <1>1 DEF Install
  <2>2. Resolution(st, new)
    BY <1>1, AcceptedResolution DEF Install
  <2>3. a \in DOMAIN owned' /\ owned'[a] # 0 /\ a \notin Active
    BY <1>1 DEF Active, Retired
  <2>4. PICK l \in DOMAIN new : new[l] = a /\ owned'[a] = l
    <3> HIDE DEF new
    <3>1. a \in DOMAIN NextOwned(new) /\ NextOwned(new)[a] # 0
      BY <2>1, <2>3
    <3>2. PICK l \in DOMAIN new : new[l] = a
      BY <2>2, <3>1, NextPlaces
    <3>3. NextOwned(new)[new[l]] = l
      BY <2>2, NextPlaces
    <3> QED BY <2>1, <3>2, <3>3
  <2>5. l \in DOMAIN st.rows
    BY <2>2 DEF Resolution
  <2>6. ~ Collides(st) /\ a = Owner(st, l)
    <3>1. CASE RecordsIn(new) = Active
      BY <2>3, <2>4, <3>1 DEF RecordsIn
    <3> QED BY <1>1, <2>4, <2>5, <3>1, AcceptedResolution DEF Install
  <2>7. l \notin Proved(st) /\ ~ Matched(st, l)
    BY <1>1, <2>3, <2>5, <2>6, ProvedOwner, MatchedOwner
  <2> QED BY <2>1, <2>4, <2>5, <2>6, <2>7, OriginOwner
<1>2. Coherent /\ [RecordsNext]_recordVars => [A]_recordVars
  BY <1>1 DEF RecordsNext, Import, Replace
<1> QED BY <1>2, CoherentAlways, PTL DEF RecordsSpec, ReturnsOnlyHome

\* Of rows that look alike no one is guessed.
THEOREM NothingGuessed == RecordsSpec => NoGuess
<1> DEFINE A == \A a \in Active :
                  owned'[a] \notin {0, owned[a]} =>
                    \A b \in DOMAIN owned' \ {a} :
                       b.fingerprint = a.fingerprint =>
                         \/ b \in Active /\ owned'[b] = owned[b]
                         \/ b \in Retired
<1>1. ASSUME Coherent, NEW st \in Statements, Install(st),
             NEW a \in Active, owned'[a] \notin {0, owned[a]},
             NEW b \in DOMAIN owned' \ {a}, b.fingerprint = a.fingerprint
      PROVE  (b \in Active /\ owned'[b] = owned[b]) \/ b \in Retired
  <2> DEFINE new == NextLedger(st)
  <2>1. owned' = NextOwned(new)
    BY <1>1 DEF Install
  <2>2. Resolution(st, new)
    BY <1>1, AcceptedResolution DEF Install
  <2>3. a \in DOMAIN owned'
    BY <2>1 DEF NextOwned, Active
  <2>4. PICK l \in DOMAIN new : new[l] = a /\ owned'[a] = l
    <3> HIDE DEF new
    <3>1. a \in DOMAIN NextOwned(new) /\ NextOwned(new)[a] # 0
      BY <1>1, <2>1, <2>3
    <3>2. PICK l \in DOMAIN new : new[l] = a
      BY <2>2, <3>1, NextPlaces
    <3>3. NextOwned(new)[new[l]] = l
      BY <2>2, NextPlaces
    <3> QED BY <2>1, <3>2, <3>3
  <2>5. l \in DOMAIN st.rows /\ st.rows[l] = a.fingerprint
    BY <2>2, <2>4 DEF Resolution
  <2>6. ~ Collides(st) /\ \A m \in DOMAIN st.rows : new[m] = Owner(st, m)
    <3>1. CASE \A m \in DOMAIN st.rows : owned[new[m]] = m
      BY <1>1, <2>4, <2>5, <3>1
    <3> QED BY <1>1, <3>1, AcceptedResolution DEF Install
  <2>7. l \notin Proved(st)
    BY <1>1, <2>4, <2>5, <2>6, ProvedOwner
  <2>8. Matched(st, l)
    BY <1>1, <2>4, <2>5, <2>6, <2>7, OriginOwner
  <2>9. Old(st, a.fingerprint) = {a} /\ New(st, a.fingerprint) = {l}
    BY <2>4, <2>5, <2>6, <2>8, MatchedOwner
  <2>10. CASE \E m \in DOMAIN new : new[m] = b
    <3>1. PICK m \in DOMAIN new : new[m] = b
      BY <2>10
    <3>2. owned'[b] = m
      <4> HIDE DEF new
      <4> QED BY <2>1, <2>2, <3>1, NextPlaces
    <3>3. m \in DOMAIN st.rows /\ st.rows[m] = a.fingerprint /\ m # l
      BY <1>1, <2>2, <2>4, <3>1 DEF Resolution
    <3>4. b = Owner(st, m)
      BY <2>6, <3>1, <3>3
    <3>5. CASE m \in Proved(st)
      BY <1>1, <3>2, <3>4, <3>5, ProvedOwner
    <3>6. CASE Matched(st, m)
      BY <2>9, <3>3, <3>6, MatchedOwner
    <3>7. CASE m \notin Proved(st) /\ ~ Matched(st, m)
      <4>1. m \notin Rest(st)
        BY <2>9, <3>3 DEF New
      <4> QED BY <2>6, <3>3, <3>4, <3>7, <4>1, OriginOwner
    <3> QED BY <3>5, <3>6, <3>7
  <2>11. CASE ~ \E m \in DOMAIN new : new[m] = b
    <3>1. b \in DOMAIN owned
      <4> HIDE DEF new
      <4> QED BY <2>1, <2>2, <2>11, NextPlaces
    <3>2. ASSUME b \in Active PROVE FALSE
      <4>1. owned[b] \notin Proved(st)
        <5>1. ASSUME owned[b] \in Proved(st) PROVE FALSE
          <6>1. owned[b] \in DOMAIN st.rows
            BY <5>1 DEF Proved
          <6>2. Owner(st, owned[b]) = b
            BY <1>1, <3>2, <5>1, ProvedOwner, PlacesDistinct
          <6> QED BY <2>2, <2>6, <2>11, <6>1, <6>2 DEF Resolution
        <5> QED BY <5>1
      <4>2. b \in Old(st, a.fingerprint)
        BY <1>1, <3>2, <4>1 DEF Old, Candidates
      <4> QED BY <2>9, <4>2
    <3> QED BY <3>1, <3>2 DEF Active, Retired
  <2> QED BY <2>10, <2>11
<1>2. Coherent /\ [RecordsNext]_recordVars => [A]_recordVars
  BY <1>1 DEF RecordsNext, Import, Replace
<1> QED BY <1>2, CoherentAlways, PTL DEF RecordsSpec, NoGuess

\* An id stays with the payment it was given to.
THEOREM IdsAlwaysStay == RecordsSpec => IdsStay
BY NothingForgotten, RetiredReturnHome, NothingGuessed DEF IdsStay

-------------------------------------------------------------------------------
(***************************************************************************)
(* The counting rule is the rule of the one maximum matching.  Records and *)
(* rows with equal facts form a complete graph, so a matching that leaves  *)
(* a choice within one of them can be changed without growing smaller.     *)
(***************************************************************************)

LEMMA EdgesFinite ==
    ASSUME Coherent, source # NoStatement, NEW st \in Statements
    PROVE  IsFiniteSet(Edges(st))
<1>1. IsFiniteSet(Active)
  <2> DEFINE place == [a \in Active |-> owned[a]]
  <2>1. place \in [Active -> Locators]
    BY DEF Active, Coherent, RecordsTypeOK
  <2>2. IsInjective(place)
    BY PlacesDistinct DEF IsInjective
  <2>3. place \in Injection(Active, Locators)
    BY <2>1, <2>2 DEF Injection
  <2> QED BY <2>3, LocatorsAssumption, FS_Injection
<1>2. IsFiniteSet(DOMAIN st.rows \ Recurring(st))
  BY StatementsAssumption, LocatorsAssumption, FS_Subset
<1>3. IsFiniteSet(Active \X (DOMAIN st.rows \ Recurring(st)))
  BY <1>1, <1>2, FS_Product
<1> QED BY <1>3, FS_Subset DEF Edges

\* x, with p and q exchanged.
Other(x, p, q) == IF x = p THEN q ELSE IF x = q THEN p ELSE x

\* A second record with the facts of a matched one may take its place.
LEMMA OtherRecord ==
    ASSUME NEW st, NEW m \in Matchings(st), IsFiniteSet(m), NEW e \in m,
           NEW b \in Active, b # e[1], b.fingerprint = e[1].fingerprint
    PROVE  \E n \in Matchings(st) : Cardinality(n) = Cardinality(m) /\ n # m
<1> DEFINE moved == [d \in m |-> <<Other(d[1], e[1], b), d[2]>>]
           n == {moved[d] : d \in m}
<1>1. \A d \in m : d \in Edges(st)
  BY DEF Matchings
<1>2. \A d \in m : /\ d = <<d[1], d[2]>> /\ d[1] \in Active
                   /\ d[2] \in DOMAIN st.rows \ Recurring(st)
                   /\ d[1].fingerprint = st.rows[d[2]]
  BY <1>1 DEF Edges
<1>3. ASSUME NEW d \in m
      PROVE  /\ moved[d] \in Edges(st)
             /\ moved[d][1] = Other(d[1], e[1], b) /\ moved[d][2] = d[2]
  BY <1>2 DEF Other, Edges
<1>4. ASSUME NEW c \in m, NEW d \in m,
             moved[c][1] = moved[d][1] \/ moved[c][2] = moved[d][2]
      PROVE  c = d
  <2>1. c[1] = d[1] \/ c[2] = d[2]
    BY <1>3, <1>4 DEF Other
  <2> QED BY <2>1 DEF Matchings
<1>5. n \in Matchings(st)
  <2>1. n \in SUBSET Edges(st)
    BY <1>3
  <2>2. \A c, d \in n : (c[1] = d[1] \/ c[2] = d[2]) => c = d
    BY <1>4
  <2> QED BY <2>1, <2>2 DEF Matchings
<1>6. Cardinality(n) = Cardinality(m)
  <2>1. moved \in [m -> n]
    OBVIOUS
  <2>2. IsInjective(moved)
    BY <1>4 DEF IsInjective
  <2>3. \A x \in n : \E d \in m : moved[d] = x
    OBVIOUS
  <2>4. moved \in Bijection(m, n)
    BY <2>1, <2>2, <2>3 DEF Bijection, Injection, Surjection
  <2> QED BY <2>4, FS_Bijection DEF ExistsBijection
<1>7. n # m
  <2>1. moved[e] \in n /\ moved[e][1] = b /\ moved[e][2] = e[2]
    BY <1>3 DEF Other
  <2>2. moved[e] \notin m
    BY <2>1 DEF Matchings
  <2> QED BY <2>1, <2>2
<1> QED BY <1>5, <1>6, <1>7

\* A second row with the facts of a matched one may take its place.
LEMMA OtherRow ==
    ASSUME NEW st, NEW m \in Matchings(st), IsFiniteSet(m), NEW e \in m,
           NEW k \in DOMAIN st.rows \ Recurring(st), k # e[2], st.rows[k] = st.rows[e[2]]
    PROVE  \E n \in Matchings(st) : Cardinality(n) = Cardinality(m) /\ n # m
<1> DEFINE moved == [d \in m |-> <<d[1], Other(d[2], e[2], k)>>]
           n == {moved[d] : d \in m}
<1>1. \A d \in m : d \in Edges(st)
  BY DEF Matchings
<1>2. \A d \in m : /\ d = <<d[1], d[2]>> /\ d[1] \in Active
                   /\ d[2] \in DOMAIN st.rows \ Recurring(st)
                   /\ d[1].fingerprint = st.rows[d[2]]
  BY <1>1 DEF Edges
<1>3. ASSUME NEW d \in m
      PROVE  /\ moved[d] \in Edges(st)
             /\ moved[d][1] = d[1] /\ moved[d][2] = Other(d[2], e[2], k)
  BY <1>2 DEF Other, Edges
<1>4. ASSUME NEW c \in m, NEW d \in m,
             moved[c][1] = moved[d][1] \/ moved[c][2] = moved[d][2]
      PROVE  c = d
  <2>1. c[1] = d[1] \/ c[2] = d[2]
    BY <1>3, <1>4 DEF Other
  <2> QED BY <2>1 DEF Matchings
<1>5. n \in Matchings(st)
  <2>1. n \in SUBSET Edges(st)
    BY <1>3
  <2>2. \A c, d \in n : (c[1] = d[1] \/ c[2] = d[2]) => c = d
    BY <1>4
  <2> QED BY <2>1, <2>2 DEF Matchings
<1>6. Cardinality(n) = Cardinality(m)
  <2>1. moved \in [m -> n]
    OBVIOUS
  <2>2. IsInjective(moved)
    BY <1>4 DEF IsInjective
  <2>3. \A x \in n : \E d \in m : moved[d] = x
    OBVIOUS
  <2>4. moved \in Bijection(m, n)
    BY <2>1, <2>2, <2>3 DEF Bijection, Injection, Surjection
  <2> QED BY <2>4, FS_Bijection DEF ExistsBijection
<1>7. n # m
  <2>1. moved[e] \in n /\ moved[e][2] = k /\ moved[e][1] = e[1]
    BY <1>3 DEF Other
  <2>2. moved[e] \notin m
    BY <2>1 DEF Matchings
  <2> QED BY <2>1, <2>2
<1> QED BY <1>5, <1>6, <1>7

\* Without an upgrade every record and every row that does not recur is open.
LEMMA OpenGraph ==
    ASSUME NEW st, ~ Upgrade(st)
    PROVE  /\ Proved(st) = {}
           /\ \A f : Old(st, f) = {a \in Active : a.fingerprint = f}
           /\ \A f : New(st, f)
                       = {l \in DOMAIN st.rows \ Recurring(st) : st.rows[l] = f}
<1>1. Proved(st) = {}
  BY DEF Proved
<1> QED BY <1>1 DEF Old, New, Candidates, Rest

\* Where nothing is ambiguous, all edges together are the one maximum matching.
LEMMA UnambiguousGraph ==
    ASSUME Coherent, source # NoStatement, NEW st \in Statements, ~ Upgrade(st),
           \A f \in Fingerprints : ~ Ambiguous(st, f)
    PROVE  Maximum(st) = {Edges(st)}
<1>1. ASSUME NEW d \in Edges(st), NEW e \in Edges(st), d[1] = e[1] \/ d[2] = e[2]
      PROVE  d = e
  <2> DEFINE f == st.rows[d[2]]
  <2>1. /\ d = <<d[1], d[2]>> /\ e = <<e[1], e[2]>>
        /\ d[1] \in Active /\ e[1] \in Active
        /\ d[1].fingerprint = f /\ e[1].fingerprint = st.rows[e[2]]
        /\ d[2] \in DOMAIN st.rows \ Recurring(st)
        /\ e[2] \in DOMAIN st.rows \ Recurring(st)
    BY DEF Edges
  <2>2. f \in Fingerprints /\ st.rows[e[2]] = f
    BY <1>1, <2>1, StatementsAssumption
  <2> HIDE DEF f
  <2>3. d[1] \in Old(st, f) /\ e[1] \in Old(st, f)
    BY <2>1, <2>2, OpenGraph
  <2>4. d[2] \in New(st, f) /\ e[2] \in New(st, f)
    BY <2>1, <2>2, OpenGraph DEF f
  <2>5. Single(Old(st, f)) /\ Single(New(st, f))
    BY <2>2, <2>3, <2>4 DEF Ambiguous
  <2>6. d[1] = e[1] /\ d[2] = e[2]
    BY <2>3, <2>4, <2>5 DEF Single
  <2> QED BY <2>1, <2>6
<1>2. Edges(st) \in Matchings(st)
  BY <1>1 DEF Matchings
<1>3. ASSUME NEW m \in Matchings(st)
      PROVE  /\ Cardinality(m) \in Nat /\ Cardinality(Edges(st)) \in Nat
             /\ Cardinality(m) <= Cardinality(Edges(st))
             /\ Cardinality(Edges(st)) = Cardinality(m) => m = Edges(st)
  <2>1. m \in SUBSET Edges(st)
    BY DEF Matchings
  <2> QED BY <2>1, EdgesFinite, FS_Subset, FS_CardinalityType
<1>4. \A m \in Maximum(st) : m = Edges(st)
  <2>1. SUFFICES ASSUME NEW m \in Maximum(st) PROVE m = Edges(st)
    OBVIOUS
  <2>2. m \in Matchings(st) /\ Cardinality(Edges(st)) <= Cardinality(m)
    BY <1>2 DEF Maximum
  <2> QED BY <1>3, <2>2
<1>5. Edges(st) \in Maximum(st)
  BY <1>2, <1>3 DEF Maximum
<1> QED BY <1>4, <1>5

\* Where something is, no maximum matching is the only one.
LEMMA AmbiguousGraph ==
    ASSUME Coherent, source # NoStatement, NEW st \in Statements, ~ Upgrade(st),
           NEW f, Ambiguous(st, f)
    PROVE  ~ Single(Maximum(st))
<1>1. SUFFICES ASSUME NEW m, Maximum(st) = {m} PROVE FALSE
  BY DEF Single
<1>2. m \in Matchings(st) /\ m \in SUBSET Edges(st)
  BY <1>1 DEF Maximum, Matchings
<1>3. IsFiniteSet(m) /\ Cardinality(m) \in Nat
  BY <1>2, EdgesFinite, FS_Subset, FS_CardinalityType
<1>4. ASSUME NEW n \in Matchings(st), Cardinality(n) = Cardinality(m) PROVE n = m
  <2>1. n \in Maximum(st)
    BY <1>1, <1>4 DEF Maximum
  <2> QED BY <1>1, <2>1
<1>5. PICK a \in Active, l \in DOMAIN st.rows \ Recurring(st) :
             a.fingerprint = f /\ st.rows[l] = f
  BY OpenGraph DEF Ambiguous
<1>6. CASE \E e \in m : st.rows[e[2]] = f
  <2>1. PICK e \in m : st.rows[e[2]] = f
    BY <1>6
  <2>2. /\ e[1] \in Active /\ e[1].fingerprint = f
        /\ e[2] \in DOMAIN st.rows \ Recurring(st)
    BY <1>2, <2>1 DEF Edges
  <2>3. \/ \E b \in Active : b.fingerprint = f /\ b # e[1]
        \/ \E k \in DOMAIN st.rows \ Recurring(st) : st.rows[k] = f /\ k # e[2]
    <3>1. SUFFICES ASSUME \A b \in Active : b.fingerprint = f => b = e[1],
                          \A k \in DOMAIN st.rows \ Recurring(st) :
                             st.rows[k] = f => k = e[2]
                   PROVE  FALSE
      OBVIOUS
    <3>2. Old(st, f) = {e[1]}
      BY <2>2, <3>1, OpenGraph
    <3>3. New(st, f) = {e[2]}
      BY <2>1, <2>2, <3>1, OpenGraph
    <3> QED BY <3>2, <3>3 DEF Ambiguous, Single
  <2> QED BY <1>2, <1>3, <1>4, <2>1, <2>2, <2>3, OtherRecord, OtherRow
<1>7. CASE \A e \in m : st.rows[e[2]] # f
  <2> DEFINE n == m \cup {<<a, l>>}
  <2>1. <<a, l>> \in Edges(st) /\ <<a, l>> \notin m
    BY <1>5, <1>7 DEF Edges
  <2>2. \A e \in m : e[1] # a /\ e[2] # l
    BY <1>2, <1>5, <1>7 DEF Edges
  <2>3. n \in Matchings(st)
    BY <1>2, <2>1, <2>2 DEF Matchings
  <2>4. Cardinality(n) = Cardinality(m) + 1
    BY <1>3, <2>1, FS_AddElement
  <2>5. Cardinality(n) <= Cardinality(m)
    BY <1>1, <2>3 DEF Maximum
  <2> QED BY <1>3, <2>4, <2>5
<1> QED BY <1>6, <1>7

\* A changed statement is accepted exactly when the graph of equal facts has one
\* maximum matching, and its records then go where that matching says; so in
\* every state, for every statement.
THEOREM OneMatching == RecordsSpec => []MatchesUniquely
<1>1. Coherent => MatchesUniquely
  <2> SUFFICES ASSUME Coherent, source # NoStatement, NEW st \in Statements,
                      ~ ExactCurrent(st), ~ Upgrade(st), ~ Collides(st)
               PROVE  /\ AcceptsRows(st) <=> Single(Maximum(st))
                      /\ AcceptsRows(st) =>
                           \A m \in Maximum(st) : \A a \in Active, l \in DOMAIN st.rows :
                              NextLedger(st)[l] = a <=> <<a, l>> \in m
    BY DEF MatchesUniquely
  <2>1. AcceptsRows(st) <=> \A f \in Fingerprints : ~ Ambiguous(st, f)
    BY DEF AcceptsRows
  <2>2. AcceptsRows(st) => Maximum(st) = {Edges(st)}
    BY <2>1, UnambiguousGraph
  <2>3. AcceptsRows(st) <=> Single(Maximum(st))
    BY <2>1, <2>2, AmbiguousGraph DEF Single
  <2>4. ASSUME AcceptsRows(st), NEW a \in Active, NEW l \in DOMAIN st.rows
        PROVE  NextLedger(st)[l] = a <=> <<a, l>> \in Edges(st)
    <3>1. NextLedger(st)[l] = Owner(st, l)
      BY DEF NextLedger
    <3>2. Proved(st) = {}
      BY OpenGraph
    <3>3. ASSUME Owner(st, l) = a PROVE <<a, l>> \in Edges(st)
      <4>1. Matched(st, l)
        BY <3>2, <3>3, OriginOwner
      <4>2. l \in Rest(st) /\ a.fingerprint = st.rows[l]
        BY <3>3, <4>1, MatchedOwner
      <4> QED BY <4>2 DEF Edges, Rest
    <3>4. ASSUME <<a, l>> \in Edges(st) PROVE Owner(st, l) = a
      <4>1. l \in DOMAIN st.rows \ Recurring(st) /\ a.fingerprint = st.rows[l]
        BY <3>4 DEF Edges
      <4>2. a \in Old(st, st.rows[l]) /\ l \in New(st, st.rows[l]) /\ l \in Rest(st)
        BY <3>2, <4>1, OpenGraph DEF Rest
      <4>3. Matched(st, l)
        BY <2>1, <2>4, <4>2, StatementsAssumption DEF Ambiguous, Matched
      <4>4. Old(st, st.rows[l]) = {Owner(st, l)}
        BY <4>3, MatchedOwner
      <4> QED BY <4>2, <4>4
    <3> QED BY <3>1, <3>3, <3>4
  <2> QED BY <2>2, <2>3, <2>4
<1> QED BY <1>1, CoherentAlways, PTL

-------------------------------------------------------------------------------
(* The overlap ledger.                                                     *)


Most == Cardinality(Records)

-------------------------------------------------------------------------------
(***************************************************************************)
(* Counts.                                                                 *)
(***************************************************************************)

LEMMA LargestIs ==
    ASSUME NEW N, N # {}, NEW c \in Nat, N \subseteq 0..c
    PROVE  Largest(N) \in N /\ \A m \in N : m <= Largest(N)
<1> DEFINE B == {n \in 0..c : \A m \in N : m <= n}
<1>1. c \in B /\ B \subseteq Nat
  OBVIOUS
<1>2. PICK b \in B : \A n \in B : ~ (<<n, b>> \in OpToRel(<, Nat))
  BY <1>1, NatLessThanWellFounded, WFMin, Zenon
<1>3. \A n \in B : ~ (n < b)
  BY <1>1, <1>2 DEF OpToRel
<1>4. b \in N
  <2>1. SUFFICES ASSUME b \notin N PROVE FALSE
    OBVIOUS
  <2>2. \A m \in N : m \in Nat /\ m < b
    BY <1>1, <2>1
  <2>3. PICK m \in N : m \in Nat /\ m < b
    BY <2>2
  <2>4. b - 1 \in 0..c /\ \A n \in N : n <= b - 1
    BY <2>2, <2>3
  <2>5. b - 1 \in B
    BY <2>4
  <2> QED
    BY <1>1, <1>3, <2>5
<1> QED
  BY <1>4 DEF Largest

LEMMA CountIs ==
    ASSUME NEW p \in Supports, NEW s \in Sources
    PROVE  /\ Cardinality(p[s]) \in 0..Most
           /\ s \in Supporting(p) <=> Cardinality(p[s]) >= 1
<1>1. p[s] \in SUBSET Records
  BY DEF Supports
<1>2. /\ IsFiniteSet(p[s])
      /\ Cardinality(p[s]) \in Nat /\ Most \in Nat
      /\ Cardinality(p[s]) <= Most
  BY <1>1, ContentsAssumption, FS_Subset, FS_CardinalityType DEF Most
<1>3. p[s] = {} <=> Cardinality(p[s]) = 0
  BY <1>2, FS_EmptySet
<1> QED
  BY <1>2, <1>3 DEF Supporting

LEMMA MostIsNat == Most \in Nat
BY ContentsAssumption, FS_CardinalityType DEF Most

LEMMA LargestCount ==
    ASSUME NEW p \in Supports, NEW S \in SUBSET Supporting(p), S # {}
    PROVE  /\ Largest(CountsOf(p, S)) \in 1..Most
           /\ \E s \in S : Cardinality(p[s]) = Largest(CountsOf(p, S))
           /\ \A s \in S : Cardinality(p[s]) <= Largest(CountsOf(p, S))
<1>1. \A s \in S : Cardinality(p[s]) \in 1..Most
  BY CountIs, MostIsNat DEF Supporting
<1>2. CountsOf(p, S) # {} /\ CountsOf(p, S) \subseteq 0..Most
  BY <1>1, MostIsNat DEF CountsOf
<1>3. /\ Largest(CountsOf(p, S)) \in CountsOf(p, S)
      /\ \A m \in CountsOf(p, S) : m <= Largest(CountsOf(p, S))
  BY <1>2, LargestIs, MostIsNat
<1> QED
  BY <1>1, <1>3 DEF CountsOf

\* KeepAll is the largest count.
LEMMA KeepAllIs ==
    ASSUME NEW p \in Supports
    PROVE  /\ KeepAll(p) \in 0..Most
           /\ \A s \in Sources : Cardinality(p[s]) <= KeepAll(p)
           /\ Supporting(p) # {} =>
                \E s \in Supporting(p) : Cardinality(p[s]) = KeepAll(p)
<1>1. CASE Supporting(p) = {}
  <2>1. KeepAll(p) = 0
    BY <1>1 DEF KeepAll
  <2>2. \A s \in Sources : Cardinality(p[s]) <= 0
    BY <1>1, CountIs
  <2> QED
    BY <1>1, <2>1, <2>2, MostIsNat
<1>2. CASE Supporting(p) # {}
  <2>1. KeepAll(p) = Largest(CountsOf(p, Supporting(p)))
    BY <1>2 DEF KeepAll
  <2>2. \A s \in Supporting(p) : Cardinality(p[s]) <= KeepAll(p)
    BY <1>2, <2>1, LargestCount
  <2>3. KeepAll(p) \in 1..Most
    BY <1>2, <2>1, LargestCount
  <2>4. \A s \in Sources : Cardinality(p[s]) <= KeepAll(p)
    BY <2>2, <2>3, CountIs, MostIsNat
  <2> QED
    BY <1>2, <2>1, <2>3, <2>4, LargestCount, MostIsNat
<1> QED
  BY <1>1, <1>2

\* SameEvent is the second largest count, of an ambiguous support one that a
\* second source has beside the largest.
LEMMA SameEventIs ==
    ASSUME NEW p \in Supports
    PROVE  /\ SameEvent(p) \in 0..KeepAll(p)
           /\ \A s, t \in Sources :
                s # t => ~ (/\ Cardinality(p[s]) > SameEvent(p)
                            /\ Cardinality(p[t]) > SameEvent(p))
           /\ CountAmbiguous(p) =>
                /\ SameEvent(p) >= 1
                /\ \E s, t \in Sources :
                      /\ s # t
                      /\ Cardinality(p[s]) >= SameEvent(p)
                      /\ Cardinality(p[t]) >= SameEvent(p)
<1> DEFINE top  == CHOOSE s \in Supporting(p) : Cardinality(p[s]) = KeepAll(p)
           rest == Supporting(p) \ {top}
<1>1. /\ KeepAll(p) \in Nat
      /\ \A s \in Sources : Cardinality(p[s]) \in Nat /\ Cardinality(p[s]) <= KeepAll(p)
      /\ Supporting(p) \subseteq Sources
  BY KeepAllIs, CountIs, MostIsNat DEF Supporting
<1>2. SameEvent(p) = IF rest = {} THEN KeepAll(p) ELSE Largest(CountsOf(p, rest))
  BY DEF SameEvent
<1>3. Supporting(p) # {} => top \in Supporting(p) /\ Cardinality(p[top]) = KeepAll(p)
  BY KeepAllIs, Zenon
<1> HIDE DEF top
<1>4. CASE rest = {}
  <2>1. SameEvent(p) = KeepAll(p)
    BY <1>2, <1>4
  <2>2. ~ CountAmbiguous(p)
    BY <1>4 DEF CountAmbiguous
  <2> QED
    BY <1>1, <2>1, <2>2
<1>5. CASE rest # {}
  <2>1. SameEvent(p) = Largest(CountsOf(p, rest))
    BY <1>2, <1>5
  <2>2. /\ SameEvent(p) \in 1..Most
        /\ \E s \in rest : Cardinality(p[s]) = SameEvent(p)
        /\ \A s \in rest : Cardinality(p[s]) <= SameEvent(p)
    BY <1>5, <2>1, LargestCount
  <2>3. PICK t \in rest : Cardinality(p[t]) = SameEvent(p)
    BY <2>2
  <2>4. top \in Sources /\ t \in Sources /\ t # top /\ Cardinality(p[top]) = KeepAll(p)
    BY <1>1, <1>3, <1>5, <2>3
  <2>5. \A s \in Sources : s # top => Cardinality(p[s]) <= SameEvent(p)
    BY <2>2, CountIs, MostIsNat
  <2> QED
    BY <1>1, <2>2, <2>3, <2>4, <2>5, MostIsNat
<1> QED
  BY <1>4, <1>5

-------------------------------------------------------------------------------
(***************************************************************************)
(* The manifest.                                                           *)
(***************************************************************************)

\* What every earlier manifest leaves for the next one.
Recorded(m) ==
    /\ Len(m.slots) \in Nat
    /\ m.memberships \in [DOMAIN m.memberships -> Decisions \cup {"unresolved"}]
    /\ \A q \in DOMAIN m.memberships : q \in Supports /\ CountAmbiguous(q)

\* m is the manifest that the support p and its own records imply.
Implied(m, p) ==
    /\ Recorded(m)
    /\ m = [support |-> p, memberships |-> m.memberships, slots |-> m.slots]
    /\ CountAmbiguous(p) => p \in DOMAIN m.memberships
    /\ KeepAll(p) <= Len(m.slots)
    /\ m.slots = SlotsUpTo(Len(m.slots), ActiveCount(p, m.memberships))

LEMMA SlotsAre ==
    ASSUME NEW n \in Nat, NEW a \in 0..n
    PROVE  /\ SlotsUpTo(n, a) \in Seq({"active", "retired"})
           /\ Len(SlotsUpTo(n, a)) = n
           /\ DOMAIN SlotsUpTo(n, a) = 1..n
           /\ {k \in 1..n : SlotsUpTo(n, a)[k] = "active"} = 1..a
BY DEF SlotsUpTo

LEMMA ActiveCountIs ==
    ASSUME NEW p \in Supports, NEW memberships
    PROVE  ActiveCount(p, memberships) \in 0..KeepAll(p)
BY KeepAllIs, SameEventIs, MostIsNat DEF ActiveCount

LEMMA CanonicalImplied ==
    ASSUME NEW p \in Supports, NEW m, Recorded(m)
    PROVE  /\ Implied(Canonical(p, m), p)
           /\ Canonical(p, m).memberships = Observed(p, m)
           /\ Len(m.slots) <= Len(Canonical(p, m).slots)
<1> DEFINE c == Canonical(p, m)
<1>1. /\ c = [support |-> p, memberships |-> c.memberships, slots |-> c.slots]
      /\ c.memberships = Observed(p, m)
      /\ c.slots = SlotsUpTo(SlotCount(p, m), ActiveCount(p, c.memberships))
  BY DEF Canonical
<1>2. /\ KeepAll(p) \in Nat /\ SlotCount(p, m) \in Nat
      /\ KeepAll(p) <= SlotCount(p, m) /\ Len(m.slots) <= SlotCount(p, m)
  BY KeepAllIs, MostIsNat DEF SlotCount, Recorded
<1>3. ActiveCount(p, c.memberships) \in 0..SlotCount(p, m)
  BY <1>2, ActiveCountIs
<1>4. Len(c.slots) = SlotCount(p, m)
  BY <1>1, <1>2, <1>3, SlotsAre
<1>5. /\ c.memberships \in [DOMAIN c.memberships -> Decisions \cup {"unresolved"}]
      /\ \A q \in DOMAIN c.memberships : q \in Supports /\ CountAmbiguous(q)
      /\ CountAmbiguous(p) => p \in DOMAIN c.memberships
  BY <1>1 DEF Observed, Recorded
<1> HIDE DEF c
<1> QED
  BY <1>1, <1>2, <1>4, <1>5 DEF Implied, Recorded, c

LEMMA ImpliedIsFixed ==
    ASSUME NEW p \in Supports, NEW m, Implied(m, p)
    PROVE  Canonical(p, m) = m /\ ManifestValid(m)
<1>1. m.support = p
  BY DEF Implied
<1>2. Observed(p, m) = m.memberships
  BY DEF Implied, Recorded, Observed
<1>3. SlotCount(p, m) = Len(m.slots)
  BY KeepAllIs, MostIsNat DEF Implied, Recorded, SlotCount
<1>4. Canonical(p, m) = [support |-> p, memberships |-> m.memberships, slots |-> m.slots]
  BY <1>2, <1>3 DEF Canonical, Implied
<1> QED
  BY <1>1, <1>4 DEF Implied, ManifestValid

LEMMA ImpliedSlots ==
    ASSUME NEW p \in Supports, NEW m, Implied(m, p)
    PROVE  /\ m.slots \in Seq({"active", "retired"})
           /\ Slots(m) = 1..Len(m.slots)
           /\ ActiveSlots(m) = 1..ActiveCount(p, m.memberships)
           /\ ActiveCount(p, m.memberships) \in 0..KeepAll(p)
<1>1. Len(m.slots) \in Nat /\ KeepAll(p) \in Nat
  BY KeepAllIs, MostIsNat DEF Implied, Recorded
<1>2. /\ ActiveCount(p, m.memberships) \in 0..KeepAll(p)
      /\ ActiveCount(p, m.memberships) \in 0..Len(m.slots)
  BY <1>1, ActiveCountIs DEF Implied
<1>3. m.slots = SlotsUpTo(Len(m.slots), ActiveCount(p, m.memberships))
  BY DEF Implied
<1> DEFINE n == Len(m.slots)
           a == ActiveCount(p, m.memberships)
<1>4. /\ SlotsUpTo(n, a) \in Seq({"active", "retired"})
      /\ DOMAIN SlotsUpTo(n, a) = 1..n
      /\ {k \in 1..n : SlotsUpTo(n, a)[k] = "active"} = 1..a
  BY <1>1, <1>2, SlotsAre
<1>5. m.slots \in Seq({"active", "retired"}) /\ DOMAIN m.slots = 1..n
  BY <1>3, <1>4
<1>6. {k \in 1..n : m.slots[k] = "active"} = 1..a
  BY <1>3, <1>4
<1> QED
  BY <1>2, <1>5, <1>6 DEF Slots, ActiveSlots

-------------------------------------------------------------------------------
(***************************************************************************)
(* The inductive invariant.                                                *)
(***************************************************************************)

\* The memberships with a choice are the accepted decisions.
ChosenAgrees ==
    /\ DOMAIN chosen = {q \in DOMAIN manifest.memberships :
                          manifest.memberships[q] # "unresolved"}
    /\ \A q \in DOMAIN chosen : chosen[q] = manifest.memberships[q]

Inv ==
    /\ pools \in Supports
    /\ Implied(manifest, pools)
    /\ corrections \in [DOMAIN corrections -> Patches]
    /\ DOMAIN corrections \subseteq Slots(manifest)
    /\ imports \in 0..MaxImports
    /\ ChosenAgrees

LEMMA InitInv == OverlapInit => Inv
<1> SUFFICES ASSUME OverlapInit PROVE Inv
  OBVIOUS
<1> DEFINE none == [memberships |-> [q \in {} |-> "unresolved"], slots |-> <<>>]
<1>1. pools \in Supports
  BY DEF OverlapInit, Supports
<1>2. Recorded(none)
  BY DEF Recorded
<1>3. manifest = Canonical(pools, none)
  BY DEF OverlapInit
<1>4. Supporting(pools) = {} /\ ~ CountAmbiguous(pools)
  BY DEF OverlapInit, Supporting, CountAmbiguous
<1>5. DOMAIN manifest.memberships = {}
  <2>1. manifest.memberships = Observed(pools, none)
    BY <1>1, <1>2, <1>3, CanonicalImplied
  <2> QED
    BY <1>4, <2>1 DEF Observed
<1>6. Implied(manifest, pools)
  BY <1>1, <1>2, <1>3, CanonicalImplied
<1>7. ChosenAgrees
  BY <1>5 DEF OverlapInit, ChosenAgrees
<1>8. DOMAIN corrections = {} /\ corrections \in [DOMAIN corrections -> Patches]
  BY DEF OverlapInit
<1>9. imports \in 0..MaxImports
  BY BoundAssumption DEF OverlapInit
<1> QED
  BY <1>1, <1>6, <1>7, <1>8, <1>9 DEF Inv

\* A batch, as far as pools and manifest go.
LEMMA DeriveInv ==
    ASSUME Inv, NEW new \in Batches, Counted(new), Derive(new),
           UNCHANGED chosen,
           corrections' \in [DOMAIN corrections' -> Patches],
           DOMAIN corrections' \subseteq DOMAIN corrections
    PROVE  Inv'
<1>1. pools' \in Supports
  <2>1. \A s \in DOMAIN new : new[s] \in SUBSET Records
    BY DEF Batches
  <2> QED
    BY <2>1 DEF Derive, Replaced, Inv, Supports
<1>2. manifest' = Canonical(pools', manifest)
  BY DEF Derive
<1>3. Recorded(manifest)
  BY DEF Inv, Implied
<1>4. /\ Implied(manifest', pools')
      /\ manifest'.memberships = Observed(pools', manifest)
      /\ Len(manifest.slots) <= Len(manifest'.slots)
  BY <1>1, <1>2, <1>3, CanonicalImplied
<1>5. DOMAIN corrections' \subseteq Slots(manifest')
  <2>1. Slots(manifest) = 1..Len(manifest.slots)
    BY ImpliedSlots DEF Inv
  <2>2. Slots(manifest') = 1..Len(manifest'.slots)
    BY <1>1, <1>4, ImpliedSlots
  <2>3. Len(manifest.slots) \in Nat /\ Len(manifest'.slots) \in Nat
    BY <1>4 DEF Inv, Implied, Recorded
  <2>4. Slots(manifest) \subseteq Slots(manifest')
    BY <1>4, <2>1, <2>2, <2>3
  <2> QED
    BY <2>4 DEF Inv
<1>6. imports' \in 0..MaxImports
  BY BoundAssumption DEF Counted, Inv
<1>7. ChosenAgrees'
  BY <1>4 DEF ChosenAgrees, Inv, Observed
<1> QED
  BY <1>1, <1>4, <1>5, <1>6, <1>7 DEF Inv

LEMMA CorrectInv ==
    ASSUME Inv, NEW k \in ActiveSlots(manifest), NEW patch \in Patches, Correct(k, patch)
    PROVE  Inv'
<1>1. manifest' = manifest /\ pools' = pools
  BY ImpliedIsFixed DEF Inv, Correct
<1>2. DOMAIN corrections' \subseteq Slots(manifest')
  BY <1>1 DEF Inv, Correct, ActiveSlots
<1>3. corrections' \in [DOMAIN corrections' -> Patches]
  BY DEF Inv, Correct
<1> QED
  BY <1>1, <1>2, <1>3 DEF Inv, Correct, ChosenAgrees

LEMMA TailHiddenIs ==
    ASSUME Inv
    PROVE  /\ TailHidden(manifest) \in [DOMAIN TailHidden(manifest) -> Patches]
           /\ DOMAIN TailHidden(manifest) \subseteq Slots(manifest)
<1> DEFINE moved == IF SameEvent(manifest.support) = 1 /\ Patched(manifest) # {}
                    THEN {1} ELSE {}
           keep  == (DOMAIN corrections \ Surplus(manifest)) \cup moved
           taken == CHOOSE j \in Patched(manifest) : TRUE
<1>1. TailHidden(manifest) =
        [k \in keep |-> IF k \in moved THEN corrections[taken] ELSE corrections[k]]
  BY DEF TailHidden
<1>2. moved # {} => taken \in Patched(manifest)
  OBVIOUS
<1>3. moved # {} => taken \in DOMAIN corrections /\ taken \in Slots(manifest)
  BY <1>2 DEF Patched, ActiveSlots
<1>4. moved # {} => 1 \in Slots(manifest)
  <2>1. Slots(manifest) = 1..Len(manifest.slots) /\ Len(manifest.slots) \in Nat
    BY ImpliedSlots DEF Inv, Implied, Recorded
  <2> QED
    BY <1>3, <2>1
<1> HIDE DEF taken
<1>5. \A k \in DOMAIN corrections : corrections[k] \in Patches /\ k \in Slots(manifest)
  BY DEF Inv
<1> QED
  BY <1>1, <1>3, <1>4, <1>5

\* What an accepted decision leaves of the manifest.
LEMMA ResolveManifest ==
    ASSUME Inv, NEW choice \in Decisions, NEW review, Resolve(review, choice)
    PROVE  /\ review = pools /\ pools \in DOMAIN manifest.memberships
           /\ CountAmbiguous(pools)
           /\ manifest.memberships[pools] = "unresolved"
           /\ Canonical(pools, manifest) = manifest
           /\ Implied(manifest', pools)
           /\ manifest'.memberships = [manifest.memberships EXCEPT ![pools] = choice]
           /\ Len(manifest.slots) <= Len(manifest'.slots)
<1> DEFINE shown == IF choice = "same-event" THEN SameEvent(pools) ELSE KeepAll(pools)
           d     == Decided(pools, choice, manifest)
<1>1. Canonical(pools, manifest) = manifest
  BY ImpliedIsFixed DEF Inv
<1>2. /\ review = pools /\ pools \in DOMAIN manifest.memberships
      /\ CountAmbiguous(pools)
      /\ manifest.memberships[pools] = "unresolved"
      /\ manifest' = Canonical(pools, d)
  BY <1>1 DEF Resolve, Open
<1>3. pools \in Supports /\ Implied(manifest, pools)
  BY DEF Inv
<1>4. /\ d.memberships = [manifest.memberships EXCEPT ![pools] = choice]
      /\ d.slots = SlotsUpTo(Len(manifest.slots), shown)
  BY <1>3 DEF Decided, Implied
<1>5. Len(manifest.slots) \in Nat /\ shown \in 0..Len(manifest.slots)
  BY <1>3, KeepAllIs, SameEventIs, MostIsNat DEF Implied, Recorded
<1>6. Len(d.slots) = Len(manifest.slots)
  BY <1>4, <1>5, SlotsAre
<1>7. Recorded(d)
  <2>1. /\ manifest.memberships \in
             [DOMAIN manifest.memberships -> Decisions \cup {"unresolved"}]
        /\ \A q \in DOMAIN manifest.memberships : q \in Supports /\ CountAmbiguous(q)
    BY <1>3 DEF Implied, Recorded
  <2>2. /\ d.memberships \in [DOMAIN d.memberships -> Decisions \cup {"unresolved"}]
        /\ DOMAIN d.memberships = DOMAIN manifest.memberships
    BY <1>4, <2>1
  <2> HIDE DEF d
  <2> QED
    BY <1>5, <1>6, <2>1, <2>2 DEF Recorded
<1> HIDE DEF d
<1>8. /\ Implied(manifest', pools)
      /\ manifest'.memberships = Observed(pools, d)
      /\ Len(d.slots) <= Len(manifest'.slots)
  BY <1>2, <1>3, <1>7, CanonicalImplied
<1>9. Observed(pools, d) = d.memberships
  BY <1>2, <1>4 DEF Observed
<1> QED
  BY <1>1, <1>2, <1>4, <1>6, <1>8, <1>9

LEMMA ResolveInv ==
    ASSUME Inv, NEW choice \in Decisions, NEW review, Resolve(review, choice)
    PROVE  Inv'
<1>1. /\ review = pools /\ pools \in DOMAIN manifest.memberships
      /\ Canonical(pools, manifest) = manifest
      /\ Implied(manifest', pools)
      /\ manifest'.memberships = [manifest.memberships EXCEPT ![pools] = choice]
      /\ Len(manifest.slots) <= Len(manifest'.slots)
  BY ResolveManifest
<1>2. pools' = pools /\ imports' = imports
  BY DEF Resolve
<1>3. corrections' = IF choice = "same-event" THEN TailHidden(manifest) ELSE corrections
  BY <1>1 DEF Resolve
<1>4. /\ corrections' \in [DOMAIN corrections' -> Patches]
      /\ DOMAIN corrections' \subseteq Slots(manifest)
  BY <1>3, TailHiddenIs DEF Inv
<1>5. Slots(manifest) \subseteq Slots(manifest')
  <2>1. /\ Slots(manifest) = 1..Len(manifest.slots)
        /\ Slots(manifest') = 1..Len(manifest'.slots)
    BY <1>1, ImpliedSlots DEF Inv
  <2>2. Len(manifest.slots) \in Nat /\ Len(manifest'.slots) \in Nat
    BY <1>1 DEF Inv, Implied, Recorded
  <2> QED
    BY <1>1, <2>1, <2>2
<1>6. ChosenAgrees'
  <2>1. chosen' = [q \in DOMAIN chosen \cup {pools} |->
                     IF q = pools THEN choice ELSE chosen[q]]
    BY <1>1 DEF Resolve
  <2>2. choice # "unresolved"
    BY DEF Decisions
  <2>3. ChosenAgrees
    BY DEF Inv
  <2> QED
    BY <1>1, <2>1, <2>2, <2>3 DEF ChosenAgrees
<1> QED
  BY <1>1, <1>2, <1>4, <1>5, <1>6 DEF Inv

LEMMA NextInv == Inv /\ [OverlapNext]_overlapVars => Inv'
<1> SUFFICES ASSUME Inv, [OverlapNext]_overlapVars PROVE Inv'
  OBVIOUS
<1>1. ASSUME NEW new \in Batches, ImportBatch(new) PROVE Inv'
  <2>1. Counted(new) /\ Derive(new) /\ UNCHANGED <<corrections, chosen>>
    BY <1>1 DEF ImportBatch
  <2>2. corrections' \in [DOMAIN corrections' -> Patches]
    BY <2>1 DEF Inv
  <2> QED
    BY <1>1, <2>1, <2>2, DeriveInv
<1>2. ASSUME NEW new \in Batches, Reset(new) PROVE Inv'
  <2>1. Counted(new) /\ Derive(new) /\ UNCHANGED chosen
    BY <1>2 DEF Reset
  <2>2. /\ corrections' \in [DOMAIN corrections' -> Patches]
        /\ DOMAIN corrections' \subseteq DOMAIN corrections
    BY <1>2 DEF Reset, Undecided, Inv
  <2> QED
    BY <1>2, <2>1, <2>2, DeriveInv
<1>3. ASSUME NEW k \in ActiveSlots(manifest), NEW patch \in Patches, Correct(k, patch)
      PROVE  Inv'
  BY <1>3, CorrectInv
<1>4. ASSUME NEW review \in DOMAIN manifest.memberships, NEW choice \in Decisions,
             Resolve(review, choice)
      PROVE  Inv'
  BY <1>4, ResolveInv
<1>5. CASE UNCHANGED overlapVars
  BY <1>5 DEF overlapVars, Inv, ChosenAgrees
<1> QED
  BY <1>1, <1>2, <1>3, <1>4, <1>5 DEF OverlapNext
\* The invariant holds in every state of every execution.
THEOREM Invariance == OverlapSpec => []Inv
<1>1. OverlapInit => Inv
  BY InitInv
<1>2. Inv /\ [OverlapNext]_overlapVars => Inv'
  BY NextInv
<1> QED
  BY <1>1, <1>2, PTL DEF OverlapSpec

-------------------------------------------------------------------------------
(***************************************************************************)
(* What the user sees.                                                     *)
(***************************************************************************)

LEMMA LayersOne ==
    ASSUME pools \in Supports
    PROVE  Layers(1) = 1..KeepAll(pools)
<1>1. \A k : k \in Layers(1) <=> /\ k \in 1..Most
                                 /\ \E s \in Sources : Cardinality(pools[s]) >= k
  <2>1. ASSUME NEW k, k \in Layers(1)
        PROVE  k \in 1..Most /\ \E s \in Sources : Cardinality(pools[s]) >= k
    <3>1. PICK S \in SUBSET Sources : /\ Cardinality(S) = 1
                                      /\ \A s \in S : Cardinality(pools[s]) >= k
      BY <2>1 DEF Layers
    <3>2. S # {}
      BY <3>1, FS_EmptySet
    <3> QED
      BY <2>1, <3>1, <3>2 DEF Layers, Most
  <2>2. ASSUME NEW k \in 1..Most, NEW s \in Sources, Cardinality(pools[s]) >= k
        PROVE  k \in Layers(1)
    <3>1. {s} \in SUBSET Sources /\ Cardinality({s}) = 1
      BY FS_Singleton
    <3> QED
      BY <2>2, <3>1 DEF Layers, Most
  <2> QED
    BY <2>1, <2>2
<1>2. \A s \in Sources : Cardinality(pools[s]) \in 0..Most
  BY CountIs
<1>3. KeepAll(pools) \in 0..Most
  BY KeepAllIs
<1>4. ASSUME NEW k \in Layers(1) PROVE k \in 1..KeepAll(pools)
  BY <1>1, <1>2, <1>3, KeepAllIs, MostIsNat
<1>5. ASSUME NEW k \in 1..KeepAll(pools) PROVE k \in Layers(1)
  <2>1. Supporting(pools) # {}
    BY <1>3, <1>5, MostIsNat DEF KeepAll
  <2>2. PICK s \in Supporting(pools) : Cardinality(pools[s]) = KeepAll(pools)
    BY <2>1, KeepAllIs
  <2> QED
    BY <1>1, <1>3, <1>5, <2>2, MostIsNat DEF Supporting
<1> QED
  BY <1>4, <1>5

LEMMA LayersTwo ==
    ASSUME pools \in Supports, CountAmbiguous(pools)
    PROVE  Layers(2) = 1..SameEvent(pools)
<1>1. /\ KeepAll(pools) \in 0..Most /\ SameEvent(pools) \in 0..Most
      /\ \A s \in Sources : Cardinality(pools[s]) \in 0..Most
  BY KeepAllIs, SameEventIs, CountIs, MostIsNat
<1>2. ASSUME NEW k \in Layers(2) PROVE k \in 1..SameEvent(pools)
  <2>1. PICK S \in SUBSET Sources : /\ Cardinality(S) = 2
                                    /\ \A s \in S : Cardinality(pools[s]) >= k
    BY <1>2 DEF Layers
  <2>2. IsFiniteSet(S) /\ S # {}
    BY <2>1, SourcesAssumption, FS_Subset, FS_EmptySet
  <2>3. PICK s \in S : TRUE
    BY <2>2
  <2>4. Cardinality(S \ {s}) = 1
    <3>1. Cardinality(S \ {s}) = Cardinality(S) - 1
      BY <2>2, <2>3, FS_RemoveElement
    <3> QED
      BY <2>1, <3>1
  <2>5. S \ {s} # {}
    BY <2>4, FS_EmptySet
  <2>6. PICK t \in S : t # s
    BY <2>5
  <2>7. k \in 1..Most
    BY <1>2 DEF Layers, Most
  <2>8. ~ (Cardinality(pools[s]) > SameEvent(pools) /\ Cardinality(pools[t]) > SameEvent(pools))
    BY <2>3, <2>6, SameEventIs
  <2> QED
    BY <1>1, <2>1, <2>3, <2>6, <2>7, <2>8, MostIsNat
<1>3. ASSUME NEW k \in 1..SameEvent(pools) PROVE k \in Layers(2)
  <2>1. PICK s \in Sources, t \in Sources :
            /\ s # t
            /\ Cardinality(pools[s]) >= SameEvent(pools)
            /\ Cardinality(pools[t]) >= SameEvent(pools)
    BY SameEventIs
  <2>2. IsFiniteSet({s}) /\ Cardinality({s}) = 1
    BY FS_Singleton
  <2>3. Cardinality({s} \cup {t}) = 2
    BY <2>1, <2>2, FS_AddElement
  <2>4. \A r \in {s} \cup {t} : Cardinality(pools[r]) >= k
    BY <1>1, <1>3, <2>1, MostIsNat
  <2>5. k \in 1..Most
    BY <1>1, <1>3, MostIsNat
  <2> QED
    BY <2>3, <2>4, <2>5 DEF Layers, Most
<1> QED
  BY <1>2, <1>3

\* The manifest that a command leaves is accepted by the next one and is what
\* deriving again gives, and it has every slot with a correction, for any
\* sources and statements.
THEOREM ManifestAlwaysAgrees == OverlapSpec => []ManifestAgrees
<1>1. Inv => ManifestAgrees
  <2> SUFFICES ASSUME Inv PROVE ManifestAgrees
    OBVIOUS
  <2> QED
    BY ImpliedIsFixed DEF Inv, ManifestAgrees
<1> QED
  BY <1>1, Invariance, PTL

\* Type correctness; memberships are recorded for ambiguous supports only.
THEOREM OverlapTypeCorrect == OverlapSpec => []OverlapTypeOK
<1>1. Inv => OverlapTypeOK
  <2> SUFFICES ASSUME Inv PROVE OverlapTypeOK
    OBVIOUS
  <2>1. manifest.support = pools /\ pools \in Supports
    BY DEF Inv, Implied
  <2>2. \A q \in DOMAIN manifest.memberships :
           /\ q \in Supports /\ CountAmbiguous(q)
           /\ manifest.memberships[q] \in Decisions \cup {"unresolved"}
    BY DEF Inv, Implied, Recorded
  <2>3. /\ manifest.slots \in Seq({"active", "retired"})
        /\ Slots(manifest) = 1..Len(manifest.slots)
        /\ Len(manifest.slots) \in Nat
    BY ImpliedSlots DEF Inv, Implied, Recorded
  <2>4. \A k \in DOMAIN corrections : k \in Nat /\ corrections[k] \in Patches
    BY <2>3 DEF Inv
  <2>5. \A q \in DOMAIN chosen : chosen[q] \in Decisions
    BY <2>2 DEF Inv, ChosenAgrees
  <2> QED
    BY <2>1, <2>2, <2>3, <2>4, <2>5 DEF Inv, OverlapTypeOK
<1> QED
  BY <1>1, Invariance, PTL

\* The user sees every layer of the multiset, or the layers two sources prove
\* where that was decided on exactly the present support.
THEOREM AlwaysShownAsDecided == OverlapSpec => []ShownAsDecided
<1>1. Inv => ShownAsDecided
  <2> SUFFICES ASSUME Inv PROVE ShownAsDecided
    OBVIOUS
  <2>1. ActiveSlots(manifest) = 1..ActiveCount(pools, manifest.memberships)
    BY ImpliedSlots DEF Inv
  <2>2. (pools \in DOMAIN chosen /\ chosen[pools] = "same-event")
          <=> /\ pools \in DOMAIN manifest.memberships
              /\ manifest.memberships[pools] = "same-event"
    BY DEF Inv, ChosenAgrees
  <2>3. CASE /\ pools \in DOMAIN manifest.memberships
             /\ manifest.memberships[pools] = "same-event"
    <3>1. CountAmbiguous(pools)
      BY <2>3 DEF Inv, Implied, Recorded
    <3>2. ActiveSlots(manifest) = Layers(2)
      BY <2>1, <2>3, <3>1, LayersTwo DEF Inv, ActiveCount
    <3> QED
      BY <2>2, <2>3, <3>2 DEF ShownAsDecided
  <2>4. CASE ~ (/\ pools \in DOMAIN manifest.memberships
                /\ manifest.memberships[pools] = "same-event")
    <3>1. ActiveSlots(manifest) = Layers(1)
      BY <2>1, <2>4, LayersOne DEF Inv, ActiveCount
    <3> QED
      BY <2>2, <2>4, <3>1 DEF ShownAsDecided
  <2> QED
    BY <2>3, <2>4
<1> QED
  BY <1>1, Invariance, PTL

-------------------------------------------------------------------------------
(***************************************************************************)
(* What a step may do.                                                     *)
(***************************************************************************)

\* A decision is never changed and never dropped.
THEOREM DecisionsAreFinal == OverlapSpec => DecisionsFinal
<1> DEFINE Kept(q) ==
      /\ q \in DOMAIN manifest'.memberships
      /\ \/ manifest'.memberships[q] = manifest.memberships[q]
         \/ /\ manifest.memberships[q] = "unresolved"
            /\ q = pools /\ manifest'.memberships[q] = chosen'[q]
<1>1. ASSUME Inv, [OverlapNext]_overlapVars, NEW q \in DOMAIN manifest.memberships
      PROVE  Kept(q)
  <2>1. ASSUME NEW new, Derive(new) PROVE Kept(q)
    <3>1. manifest'.memberships = Observed(pools', manifest)
      BY <2>1 DEF Derive, Canonical
    <3> QED
      BY <3>1 DEF Observed
  <2>2. ASSUME NEW k, NEW patch, Correct(k, patch) PROVE Kept(q)
    <3>1. manifest'.memberships = Observed(pools, manifest)
      BY <2>2 DEF Correct, Canonical
    <3> QED
      BY <3>1 DEF Observed
  <2>3. ASSUME NEW review, NEW choice \in Decisions, Resolve(review, choice)
        PROVE  Kept(q)
    <3>1. /\ review = pools
          /\ manifest.memberships[pools] = "unresolved"
          /\ manifest'.memberships = [manifest.memberships EXCEPT ![pools] = choice]
      BY <1>1, <2>3, ResolveManifest
    <3>2. chosen'[pools] = choice
      BY <2>3, <3>1 DEF Resolve
    <3> QED
      BY <3>1, <3>2
  <2>4. CASE UNCHANGED overlapVars
    BY <2>4 DEF overlapVars
  <2> QED
    BY <1>1, <2>1, <2>2, <2>3, <2>4 DEF OverlapNext, ImportBatch, Reset
<1>2. Inv /\ [OverlapNext]_overlapVars =>
        [\A q \in DOMAIN manifest.memberships : Kept(q)]_overlapVars
  BY <1>1
<1> QED
  BY <1>2, Invariance, PTL DEF OverlapSpec, DecisionsFinal

\* Hiding rows loses no choice and makes none up.
LEMMA HidingKeepsShown ==
    ASSUME Inv, NEW review, Resolve(review, "same-event")
    PROVE  Shown' = Shown
<1> DEFINE n == KeepAll(pools)
           e == SameEvent(pools)
           patched == Patched(manifest)
<1>1. /\ Canonical(pools, manifest) = manifest
      /\ manifest.memberships[pools] = "unresolved"
      /\ pools \in DOMAIN manifest.memberships
      /\ CountAmbiguous(pools)
      /\ Implied(manifest', pools)
      /\ manifest'.memberships[pools] = "same-event"
      /\ pools \in DOMAIN manifest'.memberships
  BY ResolveManifest DEF Decisions
<1>2. /\ pools \in Supports /\ manifest.support = pools
      /\ Implied(manifest, pools)
  BY DEF Inv, Implied
<1>3. ActiveSlots(manifest) = 1..n
  BY <1>1, <1>2, ImpliedSlots DEF ActiveCount
<1>4. ActiveSlots(manifest') = 1..e
  BY <1>1, <1>2, ImpliedSlots DEF ActiveCount
<1>5. n \in Nat /\ e \in 1..n
  BY <1>1, <1>2, KeepAllIs, SameEventIs, MostIsNat
<1>6. Retained(manifest) = 1..e /\ Surplus(manifest) = (1..n) \ (1..e)
  BY <1>2, <1>3, <1>5 DEF Retained, Surplus
<1>7. SafeTail(manifest) /\ corrections' = TailHidden(manifest)
  BY <1>1 DEF Resolve
<1>8. /\ Shown = {corrections[k] : k \in patched}
      /\ patched = (1..n) \cap DOMAIN corrections
  BY <1>3 DEF Shown, Patched
<1>9. Shown' = {corrections'[k] : k \in (1..e) \cap DOMAIN corrections'}
  BY <1>4 DEF Shown
<1>10. CASE e = 1 /\ patched # {}
  <2> DEFINE taken == CHOOSE j \in patched : TRUE
             keep  == (DOMAIN corrections \ Surplus(manifest)) \cup {1}
  <2>1. taken \in patched
    BY <1>10
  <2>2. corrections' = [k \in keep |-> IF k \in {1} THEN corrections[taken]
                                                     ELSE corrections[k]]
    BY <1>2, <1>7, <1>10 DEF TailHidden
  <2> HIDE DEF taken
  <2>3. Shown' = {corrections[taken]}
    BY <1>9, <1>10, <2>2
  <2>4. \A j, k \in patched : corrections[j] = corrections[k]
    BY <1>2, <1>7, <1>10 DEF SafeTail, Alike
  <2> HIDE DEF patched
  <2> QED
    BY <1>8, <2>1, <2>3, <2>4
<1>11. CASE ~ (e = 1 /\ patched # {})
  <2>1. corrections' = [k \in DOMAIN corrections \ Surplus(manifest) |-> corrections[k]]
    BY <1>2, <1>7, <1>11 DEF TailHidden
  <2>2. Shown' = {corrections[k] : k \in (1..e) \cap DOMAIN corrections}
    BY <1>5, <1>6, <1>9, <2>1
  <2>3. \A k \in Surplus(manifest) : \E j \in Retained(manifest) : SameHistory(j, k)
    BY <1>2, <1>7, <1>11 DEF SafeTail
  <2>4. ASSUME NEW k \in (1..n) \cap DOMAIN corrections
        PROVE  \E j \in (1..e) \cap DOMAIN corrections : corrections[k] = corrections[j]
    <3>1. CASE k \in 1..e
      BY <3>1
    <3>2. CASE k \notin 1..e
      <4>1. PICK j \in 1..e : SameHistory(j, k)
        BY <1>6, <2>3, <3>2
      <4> QED
        BY <4>1 DEF SameHistory
    <3> QED
      BY <3>1, <3>2
  <2>5. (1..e) \cap DOMAIN corrections \subseteq (1..n) \cap DOMAIN corrections
    BY <1>5
  <2> QED
    BY <1>8, <2>2, <2>4, <2>5
<1> QED
  BY <1>10, <1>11

\* A decision hides rows but no choice the user made for one of them.
THEOREM NoChoiceEverLost == OverlapSpec => NoChoiceLost
<1>1. ASSUME Inv, [OverlapNext]_overlapVars, chosen' # chosen PROVE Shown' = Shown
  <2>1. PICK review \in DOMAIN manifest.memberships, choice \in Decisions :
            Resolve(review, choice)
    BY <1>1 DEF OverlapNext, ImportBatch, Reset, Correct, overlapVars
  <2>2. CASE choice = "same-event"
    BY <1>1, <2>1, <2>2, HidingKeepsShown
  <2>3. CASE choice = "keep-all"
    <3>1. /\ pools \in DOMAIN manifest.memberships
          /\ manifest.memberships[pools] = "unresolved"
          /\ Implied(manifest, pools) /\ Implied(manifest', pools)
          /\ manifest'.memberships[pools] = "keep-all"
          /\ pools \in Supports
      BY <1>1, <2>1, <2>3, ResolveManifest DEF Inv
    <3>2. ActiveSlots(manifest') = 1..KeepAll(pools) /\ ActiveSlots(manifest) = 1..KeepAll(pools)
      BY <3>1, ImpliedSlots DEF ActiveCount
    <3>3. corrections' = corrections
      BY <2>1, <2>3 DEF Resolve
    <3> QED
      BY <3>2, <3>3 DEF Shown
  <2> QED
    BY <2>2, <2>3 DEF Decisions
<1>2. Inv /\ [OverlapNext]_overlapVars => [chosen' # chosen => Shown' = Shown]_overlapVars
  BY <1>1
<1> QED
  BY <1>2, Invariance, PTL DEF OverlapSpec, NoChoiceLost

\* Choices go by a decision or by a reset that covers every supporting source.
THEOREM ResetsAreExact == OverlapSpec => ResetIsExact
<1> DEFINE Gone  == ~ (DOMAIN corrections \subseteq DOMAIN corrections') /\ chosen' = chosen
           By(S) == Reset([s \in S |-> pools'[s]])
           Full(S) == /\ Supporting(pools) \subseteq S
                      /\ DOMAIN corrections' \cap ActiveSlots(manifest) = {}
<1>1. ASSUME Inv, [OverlapNext]_overlapVars, Gone
      PROVE  (\E S \in SUBSET Sources : By(S)) /\ \A S \in SUBSET Sources : By(S) => Full(S)
  <2>1. ASSUME NEW review, NEW choice \in Decisions, Resolve(review, choice)
        PROVE  FALSE
    <3>1. review = pools /\ pools \notin DOMAIN chosen
      BY <1>1, <2>1, ResolveManifest DEF Inv, ChosenAgrees
    <3>2. pools \in DOMAIN chosen'
      BY <2>1, <3>1 DEF Resolve
    <3> QED
      BY <1>1, <3>1, <3>2
  <2>2. PICK new \in Batches : Reset(new)
    BY <1>1, <2>1 DEF OverlapNext, ImportBatch, Correct, overlapVars
  <2>3. DOMAIN new \in SUBSET Sources /\ new = [s \in DOMAIN new |-> new[s]]
    BY DEF Batches
  <2>4. \A s \in DOMAIN new : pools'[s] = new[s]
    BY <2>2, <2>3 DEF Reset, Derive, Replaced
  <2>5. By(DOMAIN new)
    <3>1. [s \in DOMAIN new |-> pools'[s]] = new
      BY <2>3, <2>4
    <3> QED
      BY <2>2, <3>1
  <2>6. ASSUME NEW S \in SUBSET Sources, By(S) PROVE Full(S)
    <3>1. corrections' = Undecided(Cleared(S))
      BY <2>6 DEF Reset
    <3>2. Cleared(S) # {}
      BY <1>1, <3>1 DEF Undecided
    <3>3. manifest.support = pools
      BY <1>1 DEF Inv, Implied
    <3>4. Supporting(pools) \subseteq S /\ Cleared(S) = ActiveSlots(manifest)
      BY <3>2, <3>3 DEF Cleared
    <3>5. DOMAIN corrections' \cap ActiveSlots(manifest) = {}
      BY <3>1, <3>4 DEF Undecided
    <3> QED
      BY <3>4, <3>5
  <2> QED
    BY <2>3, <2>5, <2>6
<1>2. Inv /\ [OverlapNext]_overlapVars =>
        [Gone => (\E S \in SUBSET Sources : By(S))
                 /\ \A S \in SUBSET Sources : By(S) => Full(S)]_overlapVars
  BY <1>1
<1> QED
  BY <1>2, Invariance, PTL DEF OverlapSpec, ResetIsExact

\* What the user decided and chose stays until the user takes it back.
THEOREM ChoicesAlwaysKept == OverlapSpec => ChoicesKept
BY DecisionsAreFinal, NoChoiceEverLost, ResetsAreExact DEF ChoicesKept
===============================================================================
