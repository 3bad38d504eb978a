----------------------------- MODULE OverlapLedger -----------------------------
(***************************************************************************)
(* One overlap group: the rows with one fingerprint that the statements of *)
(* several sources contain, the slots the user sees in their place, the    *)
(* user's decisions about how many of them are real, and the corrections   *)
(* saved for slots.  honeymoney/overlap.py and its callers in              *)
(* honeymoney/workspace_commands.py; groups do not depend on each other.   *)
(*                                                                         *)
(* A slot is a layer of the multiset, never a row, so its transaction id   *)
(* is its number.  The digest of a membership is the support it digests:   *)
(* slot ids, tail ids and counts in it follow from the support.  Rows of a *)
(* group agree in all but their corrections, and every patch sets the same *)
(* fields, so equal patches make equal histories.                          *)
(***************************************************************************)
EXTENDS Naturals, Sequences, FiniteSets

CONSTANTS
    Sources,
    Records,        \* source records of one source
    Contents,       \* per source: the record sets its statements may bring
    Patches,        \* corrections a user may save for a slot
    MaxImports      \* bound: batches that change the group

ASSUME SourcesAssumption == IsFiniteSet(Sources)
ASSUME ContentsAssumption ==
    /\ IsFiniteSet(Records)
    /\ Contents \in [Sources -> SUBSET SUBSET Records]
ASSUME BoundAssumption == MaxImports \in Nat

VARIABLES
    pools,          \* source -> its records in the group, from the snapshots
    manifest,       \* the group in the index: [support, memberships, slots]
    corrections,    \* corrections.csv: slot -> patch
    imports,        \* batches so far
    chosen          \* history: the user's accepted decision per membership

overlapVars == <<pools, manifest, corrections, imports, chosen>>

Supports == [Sources -> SUBSET Records]
Decisions == {"same-event", "keep-all"}

-------------------------------------------------------------------------------
(***************************************************************************)
(* Counting.                                                               *)
(***************************************************************************)
Supporting(p) == {s \in Sources : p[s] # {}}
CountsOf(p, S) == {Cardinality(p[s]) : s \in S}
Largest(N) == CHOOSE n \in N : \A m \in N : m <= n

\* The largest count; what is shown while nobody decided otherwise.
KeepAll(p) ==
    IF Supporting(p) = {} THEN 0 ELSE Largest(CountsOf(p, Supporting(p)))

\* The second largest count, equal counts counted separately.
SameEvent(p) ==
    LET top  == CHOOSE s \in Supporting(p) : Cardinality(p[s]) = KeepAll(p)
        rest == Supporting(p) \ {top}
    IN  IF rest = {} THEN KeepAll(p) ELSE Largest(CountsOf(p, rest))

\* Provenance "ambiguous_count_mismatch".
CountAmbiguous(p) ==
    \E s, t \in Supporting(p) : Cardinality(p[s]) # Cardinality(p[t])

-------------------------------------------------------------------------------
(***************************************************************************)
(* The manifest.                                                           *)
(***************************************************************************)
Slots(m)  == DOMAIN m.slots
ActiveSlots(m) == {k \in Slots(m) : m.slots[k] = "active"}

\* Slots that sources support, and tombstones of earlier ones.
SlotsUpTo(n, active) ==
    [k \in 1..n |-> IF k <= active THEN "active" ELSE "retired"]

\* Every ambiguous support that was ever met keeps its membership.
Observed(p, m) ==
    [q \in DOMAIN m.memberships \cup (IF CountAmbiguous(p) THEN {p} ELSE {}) |->
       IF q \in DOMAIN m.memberships THEN m.memberships[q] ELSE "unresolved"]

\* Mutant: any decision of the group counts.
ActiveCountAnyDecision(p, memberships) ==
    IF \E q \in DOMAIN memberships : memberships[q] = "same-event"
    THEN SameEvent(p) ELSE KeepAll(p)

ActiveCount(p, memberships) ==
    IF p \in DOMAIN memberships /\ memberships[p] = "same-event"
    THEN SameEvent(p) ELSE KeepAll(p)

\* Mutant: slots without support are forgotten.
SlotCountSupported(p, m) == KeepAll(p)

SlotCount(p, m) ==
    IF KeepAll(p) > Len(m.slots) THEN KeepAll(p) ELSE Len(m.slots)

\* canonicalize_overlaps: the manifest that rows and prior manifest imply.
Canonical(p, m) ==
    LET memberships == Observed(p, m)
    IN  [support     |-> p,
         memberships |-> memberships,
         slots       |-> SlotsUpTo(SlotCount(p, m), ActiveCount(p, memberships))]

\* _validate_manifest: what every load of the index demands.
ManifestValid(m) ==
    /\ KeepAll(m.support) <= Len(m.slots)
    /\ CountAmbiguous(m.support) => m.support \in DOMAIN m.memberships
    /\ m.slots = SlotsUpTo(Len(m.slots), ActiveCount(m.support, m.memberships))

OverlapInit ==
    /\ pools = [s \in Sources |-> {}]
    /\ manifest = Canonical(pools, [memberships |-> [q \in {} |-> "unresolved"],
                                    slots       |-> <<>>])
    /\ corrections = [k \in {} |-> {}]
    /\ imports = 0
    /\ chosen = [q \in {} |-> "keep-all"]

-------------------------------------------------------------------------------
(***************************************************************************)
(* Importing, replacing and resetting a batch of sources.                  *)
(***************************************************************************)
\* What a batch brings: for each of its sources the rows of the group.
Batches ==
    UNION {{new \in [S -> SUBSET Records] : \A s \in S : new[s] \in Contents[s]} :
             S \in SUBSET Sources \ {{}}}

Replaced(new) ==
    [s \in Sources |-> IF s \in DOMAIN new THEN new[s] ELSE pools[s]]

Derive(new) ==
    /\ pools' = Replaced(new)
    /\ manifest' = Canonical(Replaced(new), manifest)

\* The bound counts batches that change the group.
Counted(new) ==
    IF Replaced(new) = pools THEN imports' = imports
    ELSE imports < MaxImports /\ imports' = imports + 1

ImportBatch(new) ==
    /\ Counted(new)
    /\ Derive(new)
    /\ UNCHANGED <<corrections, chosen>>

\* _reset_supported_corrections: S must be all the support there was.
Cleared(S) ==
    IF Supporting(manifest.support) # {} /\ Supporting(manifest.support) \subseteq S
    THEN ActiveSlots(manifest) ELSE {}

Undecided(slots) == [k \in DOMAIN corrections \ slots |-> corrections[k]]

Reset(new) ==
    /\ Counted(new)
    /\ corrections' = Undecided(Cleared(DOMAIN new))
    /\ Derive(new)
    /\ UNCHANGED chosen

-------------------------------------------------------------------------------
(***************************************************************************)
(* Corrections of slots and decisions about the group.                     *)
(***************************************************************************)
Correct(k, patch) ==
    /\ k \in ActiveSlots(manifest)
    /\ corrections' = [j \in DOMAIN corrections \cup {k} |->
                         IF j = k THEN patch ELSE corrections[j]]
    /\ manifest' = Canonical(pools, manifest)
    /\ UNCHANGED <<pools, imports, chosen>>

Retained(m) == {k \in ActiveSlots(m) : k <= SameEvent(m.support)}
Surplus(m)  == ActiveSlots(m) \ Retained(m)
Patched(m)  == ActiveSlots(m) \cap DOMAIN corrections
Alike(S)    == \A j, k \in S : corrections[j] = corrections[k]

SameHistory(j, k) ==
    \/ j \notin DOMAIN corrections /\ k \notin DOMAIN corrections
    \/ {j, k} \subseteq DOMAIN corrections /\ corrections[j] = corrections[k]

\* Mutant: at one retained slot the patches are not compared.
SafeTailUnlike(m) ==
    IF SameEvent(m.support) = 1 /\ Patched(m) # {}
    THEN Cardinality(Patched(m) \cap Surplus(m)) <= 1
    ELSE /\ Patched(m) \cap Surplus(m) # {} => Patched(m) = ActiveSlots(m) /\ Alike(ActiveSlots(m))
         /\ \A k \in Surplus(m) : \E j \in Retained(m) : SameHistory(j, k)

\* _safe_tail_corrections: hiding the tail hides no choice.
SafeTail(m) ==
    IF SameEvent(m.support) = 1 /\ Patched(m) # {}
    THEN Cardinality(Patched(m) \cap Surplus(m)) <= 1 /\ Alike(Patched(m))
    ELSE /\ Patched(m) \cap Surplus(m) # {} => Patched(m) = ActiveSlots(m) /\ Alike(ActiveSlots(m))
         /\ \A k \in Surplus(m) : \E j \in Retained(m) : SameHistory(j, k)

\* The corrections once the tail is hidden; at one retained slot it takes
\* the patch that any of the slots has.
TailHidden(m) ==
    LET moved == IF SameEvent(m.support) = 1 /\ Patched(m) # {} THEN {1} ELSE {}
    IN  [k \in (DOMAIN corrections \ Surplus(m)) \cup moved |->
           IF k \in moved THEN corrections[CHOOSE j \in Patched(m) : TRUE]
           ELSE corrections[k]]

\* The review group the user names is the present one and undecided; naming
\* an old or an unknown one is refused, and so is a second, other choice; the
\* same choice again changes nothing.
Open(review, m) ==
    /\ review = pools /\ CountAmbiguous(pools)
    /\ review \in DOMAIN m.memberships
    /\ m.memberships[review] = "unresolved"

Decided(review, choice, m) ==
    [m EXCEPT !.memberships[review] = choice,
              !.slots = SlotsUpTo(Len(@), IF choice = "same-event"
                                          THEN SameEvent(pools) ELSE KeepAll(pools))]

\* resolve_duplicate_group as resolve_workspace_duplicate publishes it.
Resolve(review, choice) ==
    LET current == Canonical(pools, manifest) IN
    /\ Open(review, current)
    /\ choice = "same-event" => SafeTail(current)
    /\ corrections' = IF choice = "same-event" THEN TailHidden(current) ELSE corrections
    /\ manifest' = Canonical(pools, Decided(review, choice, current))
    /\ chosen' = [q \in DOMAIN chosen \cup {review} |->
                    IF q = review THEN choice ELSE chosen[q]]
    /\ UNCHANGED <<pools, imports>>

OverlapNext ==
    \/ \E new \in Batches : ImportBatch(new)
    \/ \E new \in Batches : Reset(new)
    \/ \E k \in ActiveSlots(manifest), patch \in Patches : Correct(k, patch)
    \/ \E review \in DOMAIN manifest.memberships, choice \in Decisions :
          Resolve(review, choice)

OverlapSpec == OverlapInit /\ [][OverlapNext]_overlapVars

-------------------------------------------------------------------------------
(***************************************************************************)
(* Properties.                                                             *)
(***************************************************************************)
\* Types; a membership is recorded for ambiguous supports only.
OverlapTypeOK ==
    /\ pools \in Supports
    /\ manifest.support \in Supports
    /\ \A q \in DOMAIN manifest.memberships :
          /\ q \in Supports /\ CountAmbiguous(q)
          /\ manifest.memberships[q] \in Decisions \cup {"unresolved"}
    /\ manifest.slots \in Seq({"active", "retired"})
    /\ \A k \in DOMAIN corrections : k \in Nat /\ corrections[k] \in Patches
    /\ imports \in 0..MaxImports
    /\ \A q \in DOMAIN chosen : chosen[q] \in Decisions

\* The next command accepts the manifest, deriving again from the rows gives
\* the same one (doctor refuses a workspace where it does not,
\* _rederive_registered_views), and every saved correction names a slot it
\* has, shown or retired: doctor calls anything else hard damage
\* (_valid_corrections_rows).
ManifestAgrees ==
    /\ ManifestValid(manifest)
    /\ Canonical(pools, manifest) = manifest
    /\ DOMAIN corrections \subseteq Slots(manifest)

\* Layers of the multiset that at least n sources have.
Layers(n) ==
    {k \in 1..Cardinality(Records) :
       \E S \in SUBSET Sources : /\ Cardinality(S) = n
                                 /\ \A s \in S : Cardinality(pools[s]) >= k}

\* The user sees every layer of the multiset, and only the layers two sources
\* prove when that was the decision on exactly this support, however often
\* the support changed and came back since; no decision on another support
\* has an effect (resolve_duplicate_group, canonicalize_overlaps).
ShownAsDecided ==
    ActiveSlots(manifest) =
        IF pools \in DOMAIN chosen /\ chosen[pools] = "same-event"
        THEN Layers(2) ELSE Layers(1)

\* A decision is never changed and never dropped, and only the user decides.
DecisionsFinal ==
    [][\A q \in DOMAIN manifest.memberships :
          /\ q \in DOMAIN manifest'.memberships
          /\ \/ manifest'.memberships[q] = manifest.memberships[q]
             \/ /\ manifest.memberships[q] = "unresolved"
                /\ q = pools /\ manifest'.memberships[q] = chosen'[q]]_overlapVars

Shown == {corrections[k] : k \in ActiveSlots(manifest) \cap DOMAIN corrections}

\* Deciding on a group hides rows, never a choice the user made for one of
\* them, and makes no choice up (_safe_tail_corrections).
NoChoiceLost == [][chosen' # chosen => Shown' = Shown]_overlapVars

\* Choices go only by a decision or by a reset, by a reset only when it
\* covers every source that supports the group, and then all shown ones go
\* together (_reset_supported_corrections).
ResetIsExact ==
    [][~(DOMAIN corrections \subseteq DOMAIN corrections') /\ chosen' = chosen =>
         /\ \E S \in SUBSET Sources : Reset([s \in S |-> pools'[s]])
         /\ \A S \in SUBSET Sources : Reset([s \in S |-> pools'[s]]) =>
               /\ Supporting(pools) \subseteq S
               /\ DOMAIN corrections' \cap ActiveSlots(manifest) = {}]_overlapVars

\* What the user decided and chose stays until the user takes it back.
ChoicesKept == DecisionsFinal /\ NoChoiceLost /\ ResetIsExact
===============================================================================
