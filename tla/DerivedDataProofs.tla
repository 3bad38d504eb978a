-------------------------- MODULE DerivedDataProofs --------------------------
(***************************************************************************)
(* Proofs about the data a workspace derives: the views of its periods     *)
(* (WorkspaceViews, for any periods, inputs, facts and derivation) and the *)
(* rates that value their rows (RateCache, for any days, rates, page size, *)
(* documents and publisher).                                               *)
(*                                                                         *)
(* The inductive invariant of the views says of the index what a user's    *)
(* edit cannot reach (Settled, Untouched), and of a running command what   *)
(* it knew when it began (Informed): since no other command publishes      *)
(* before it ends, what it knew still holds then.                          *)
(***************************************************************************)
EXTENDS WorkspaceViews, RateCache, FiniteSetTheorems, WellFoundedInduction, TLAPS

-------------------------------------------------------------------------------
(***************************************************************************)
(* The views.                                                              *)
(***************************************************************************)
\* The views of the facts under the inputs that are proved.
Vouched == View(facts, proofs)

\* Before the first generation there is nothing to have a view of.
Untouched ==
    proofs = None =>
      /\ facts = NoFacts
      /\ \A p \in Periods : registered[p] = None

\* Registered views are the vouched ones, and periods without one are empty.
Settled ==
    ~ torn /\ proofs # None =>
      \A p \in Periods :
         registered[p] = Vouched[p] \/ (registered[p] = None /\ Vouched[p] = Empty)

\* A running command writes a value where it writes a file; a narrow rebuild
\* began with the proved inputs, and a review was decided on the vouched views.
Informed ==
    cmd # None =>
      /\ cmd.file # None => cmd.value \in InputValues
      /\ cmd.kind = "rebuild" /\ proofs # None => cmd.begun = proofs
      /\ cmd.decided # None /\ ~ cmd.decided.edited /\ proofs # None
           => cmd.decided.view = Vouched

\* So is a review that is not saved yet, while no generation came between and
\* unless it read inputs that had been edited since it checked them.
Decided ==
    held # None /\ held.view # None /\ held.fresh /\ ~ held.edited /\ proofs # None
      => held.view = Vouched

Inv ==
    /\ TypeOK /\ Untouched /\ Settled /\ InstalledAsRegistered
    /\ Informed /\ Decided

-------------------------------------------------------------------------------
(***************************************************************************)
(* Lemmas.                                                                 *)
(***************************************************************************)

LEMMA NoneIsNoContent ==
    /\ None \notin Contents /\ None \notin Inputs
    /\ None \notin InputFiles /\ None \notin InputValues
BY NamesAssumption

LEMMA ViewType ==
    ASSUME NEW f \in Facts, NEW i \in Inputs
    PROVE  View(f, i) \in [Periods -> Contents]
BY ViewAssumption

LEMMA WrittenType ==
    ASSUME TypeOK, Informed, cmd # None, NEW i \in Inputs
    PROVE  Written(i) \in Inputs
<1>1. cmd \in Command
  BY DEF TypeOK
<1>2. CASE cmd.file = None
  BY <1>2 DEF Written
<1>3. CASE cmd.file # None
  <2>1. cmd.file \in InputFiles /\ cmd.value \in InputValues
    BY <1>1, <1>3 DEF Informed, Command
  <2> QED
    BY <1>3, <2>1 DEF Written, Inputs
<1> QED
  BY <1>2, <1>3

LEMMA StaleType ==
    ASSUME TypeOK
    PROVE  /\ Stale = None \/ Stale \in Review
           /\ Stale # None => ~ Stale.fresh
<1>1. CASE held = None
  BY <1>1 DEF Stale
<1>2. CASE held # None
  <2>1. held \in Review
    BY <1>2 DEF TypeOK
  <2> QED
    BY <1>2, <2>1 DEF Stale, Review
<1> QED
  BY <1>1, <1>2

\* Steps that leave the index and the facts alone leave what it says alone.
LEMMA IndexKept ==
    ASSUME Inv, UNCHANGED <<facts, proofs, registered, torn>>
    PROVE  Untouched' /\ Settled' /\ Vouched' = Vouched
BY DEF Inv, Untouched, Settled, Vouched

LEMMA FilesKept ==
    ASSUME Inv, UNCHANGED <<registered, installed>>
    PROVE  InstalledAsRegistered'
BY DEF Inv, InstalledAsRegistered, Registered

\* A command that begins.
LEMMA StartInforms ==
    ASSUME Inv, held' = held \/ held' = None,
           NEW kind \in {"write", "import", "rebuild", "rebuild_all"},
           NEW file \in InputFiles \cup {None},
           NEW value \in InputValues \cup {None},
           NEW next \in Facts, NEW periods \in SUBSET Periods,
           NEW decided \in Review \cup {None},
           Start(kind, file, value, next, periods, decided),
           file # None => value \in InputValues,
           kind = "rebuild" => InputsCurrent,
           decided # None /\ ~ decided.edited /\ proofs # None
             => decided.view = Vouched
    PROVE  Inv'
<1>1. Untouched' /\ Settled' /\ Vouched' = Vouched
  BY IndexKept DEF Start
<1>2. InstalledAsRegistered'
  BY FilesKept DEF Start
<1>3. cmd' \in Command
  BY DEF Inv, TypeOK, Start, Command
<1>4. TypeOK'
  BY <1>3 DEF Inv, TypeOK, Start
<1>5. Informed'
  BY <1>1 DEF Start, Informed, InputsCurrent
<1>6. Decided'
  BY <1>1 DEF Inv, Start, Decided
<1> QED BY <1>1, <1>2, <1>4, <1>5, <1>6 DEF Inv

LEMMA BeginKeeps ==
    ASSUME Inv, Begin
    PROVE  Inv'
<1>0. facts \in Facts
  BY DEF Inv, TypeOK
<1>1. ASSUME NEW f \in InputFiles, NEW v \in InputValues, BeginWrite(f, v)
      PROVE  Inv'
  BY <1>0, <1>1, StartInforms DEF BeginWrite
<1>2. ASSUME NEW n \in Facts, BeginImport(n)
      PROVE  Inv'
  <2>1. CASE Start("import", None, None, n, {}, None)
    BY <1>2, <2>1, StartInforms DEF BeginImport
  <2>2. CASE \E v \in InputValues : Start("import", Corrections, v, n, {}, None)
    <3>1. Corrections \in InputFiles
      BY NamesAssumption
    <3> QED BY <1>2, <2>2, <3>1, StartInforms DEF BeginImport
  <2> QED BY <1>2, <2>1, <2>2 DEF BeginImport
<1>3. ASSUME NEW n \in Facts, NEW v \in InputValues, BeginResolve(n, v)
      PROVE  Inv'
  BY <1>3, StartInforms, NamesAssumption DEF BeginResolve
<1>4. ASSUME NEW s \in SUBSET Periods, BeginRebuild(s)
      PROVE  Inv'
  BY <1>0, <1>4, StartInforms DEF BeginRebuild
<1>5. CASE BeginRebuildAll
  BY <1>0, <1>5, StartInforms DEF BeginRebuildAll
<1>6. ASSUME NEW v \in InputValues, BeginReview(v)
      PROVE  Inv'
  <2>1. held # None /\ held.view # None /\ held.fresh /\ held' = None
    BY <1>6 DEF BeginReview
  <2>2. held \in Review
    BY <2>1 DEF Inv, TypeOK
  <2>3. ~ held.edited /\ proofs # None => held.view = Vouched
    BY <2>1 DEF Inv, Decided
  <2>4. Start("write", Corrections, v, facts, {}, held)
    BY <1>6 DEF BeginReview
  <2> QED BY <1>0, <2>1, <2>2, <2>3, <2>4, StartInforms, NamesAssumption
<1> QED BY <1>1, <1>2, <1>3, <1>4, <1>5, <1>6 DEF Begin

-------------------------------------------------------------------------------
(***************************************************************************)
(* Steps that leave the index alone.                                       *)
(***************************************************************************)

LEMMA DecideKeeps ==
    ASSUME Inv, BeginDecide \/ Decide
    PROVE  Inv'
<1>1. Untouched' /\ Settled' /\ Vouched' = Vouched /\ InstalledAsRegistered'
  BY IndexKept, FilesKept DEF BeginDecide, Decide
<1>2. View(facts, inputs) \in [Periods -> Contents]
  BY ViewType DEF Inv, TypeOK
<1>3. held' \in Review
  <2>1. CASE BeginDecide
    BY <2>1 DEF BeginDecide, Review
  <2>2. CASE Decide
    <3>1. held \in Review
      BY <2>2 DEF Inv, TypeOK, Decide
    <3> QED BY <1>2, <2>2, <3>1 DEF Decide, Review, InputsCurrent
  <2> QED BY <2>1, <2>2
<1>4. TypeOK'
  BY <1>3 DEF Inv, TypeOK, BeginDecide, Decide
<1>5. Informed'
  BY <1>1 DEF Inv, Informed, BeginDecide, Decide
<1>6. Decided'
  <2>1. CASE BeginDecide
    BY <2>1 DEF Decided, BeginDecide
  <2>2. CASE Decide
    <3>1. held \in Review
      BY <2>2 DEF Inv, TypeOK, Decide
    <3>2. held'.view = View(facts, inputs) /\ held'.edited = ~ InputsCurrent
      BY <2>2, <3>1 DEF Decide, Review
    <3>3. ~ held'.edited /\ proofs # None => inputs = proofs
      BY <3>2 DEF InputsCurrent
    <3> QED BY <1>1, <2>2, <3>2, <3>3 DEF Decided, Decide, Vouched
  <2> QED BY <2>1, <2>2
<1> QED BY <1>1, <1>4, <1>5, <1>6 DEF Inv

LEMMA DeriveKeeps ==
    ASSUME Inv, Derive
    PROVE  Inv'
<1>1. Untouched' /\ Settled' /\ Vouched' = Vouched /\ InstalledAsRegistered'
  BY IndexKept, FilesKept DEF Derive
<1>2. cmd \in Command /\ inputs \in Inputs
  BY DEF Inv, TypeOK, Derive
<1>3. cmd' \in Command
  BY <1>2 DEF Derive, Command
<1>4. TypeOK'
  BY <1>3 DEF Inv, TypeOK, Derive
<1>5. /\ cmd'.file = cmd.file /\ cmd'.value = cmd.value /\ cmd'.kind = cmd.kind
      /\ cmd'.begun = cmd.begun /\ cmd'.decided = cmd.decided
  BY <1>2 DEF Derive, Command
<1>6. Informed'
  BY <1>1, <1>5 DEF Inv, Informed, Derive
<1>7. Decided'
  BY <1>1 DEF Inv, Decided, Derive
<1> QED BY <1>1, <1>4, <1>6, <1>7 DEF Inv

LEMMA FailKeeps ==
    ASSUME Inv, Fail
    PROVE  Inv'
<1>1. Untouched' /\ Settled' /\ Vouched' = Vouched /\ InstalledAsRegistered'
  BY IndexKept, FilesKept DEF Fail
<1>2. TypeOK' /\ Informed' /\ Decided'
  BY <1>1 DEF Inv, TypeOK, Informed, Decided, Fail
<1> QED BY <1>1, <1>2 DEF Inv

LEMMA UserKeeps ==
    ASSUME Inv, User
    PROVE  Inv'
<1>1. ASSUME NEW f \in InputFiles, NEW v \in InputValues, EditInput(f, v)
      PROVE  Inv'
  <2>1. Untouched' /\ Settled' /\ Vouched' = Vouched /\ InstalledAsRegistered'
    BY <1>1, IndexKept, FilesKept DEF EditInput
  <2>2. inputs' \in Inputs
    BY <1>1 DEF Inv, TypeOK, EditInput, Inputs
  <2>3. TypeOK' /\ Informed' /\ Decided'
    BY <1>1, <2>1, <2>2 DEF Inv, TypeOK, Informed, Decided, EditInput
  <2> QED BY <2>1, <2>3 DEF Inv
<1>2. ASSUME NEW p \in Periods, NEW b \in UserBytes \cup {Absent}, EditView(p, b)
      PROVE  Inv'
  <2>1. Untouched' /\ Settled' /\ Vouched' = Vouched
    BY <1>2, IndexKept DEF EditView
  <2>2. installed \in [Periods -> Contents \cup UserBytes \cup {Absent}]
    BY DEF Inv, TypeOK
  <2>3. installed' \in [Periods -> Contents \cup UserBytes \cup {Absent}]
    BY <1>2, <2>2 DEF EditView
  <2>4. InstalledAsRegistered'
    BY <1>2, <2>2 DEF Inv, InstalledAsRegistered, Registered, EditView
  <2>5. TypeOK' /\ Informed' /\ Decided'
    BY <1>2, <2>1, <2>3 DEF Inv, TypeOK, Informed, Decided, EditView
  <2> QED BY <2>1, <2>4, <2>5 DEF Inv
<1> QED BY <1>1, <1>2 DEF User

LEMMA DoctorKeeps ==
    ASSUME Inv, DoctorRepair
    PROVE  Inv'
<1>1. Untouched' /\ Settled' /\ Vouched' = Vouched
  BY IndexKept DEF DoctorRepair
<1>2. /\ registered \in [Periods -> Contents \cup {None}]
      /\ installed \in [Periods -> Contents \cup UserBytes \cup {Absent}]
  BY DEF Inv, TypeOK
<1>3. installed' = [p \in Periods |->
                      IF p \in Registered THEN registered[p] ELSE installed[p]]
  BY DEF DoctorRepair, Update
<1>4. installed' \in [Periods -> Contents \cup UserBytes \cup {Absent}]
  BY <1>2, <1>3 DEF Registered
<1>5. InstalledAsRegistered'
  BY <1>2, <1>3 DEF InstalledAsRegistered, Registered, DoctorRepair
<1>6. TypeOK'
  BY <1>4, StaleType DEF Inv, TypeOK, DoctorRepair
<1>7. Informed' /\ Decided'
  BY <1>1, StaleType DEF Inv, Informed, Decided, DoctorRepair
<1> QED BY <1>1, <1>5, <1>6, <1>7 DEF Inv

-------------------------------------------------------------------------------
(***************************************************************************)
(* Steps that publish a generation.                                        *)
(***************************************************************************)

\* What a command derived has the type of views.
LEMMA DerivedTypes ==
    ASSUME Inv, cmd # None, cmd.seen # None
    PROVE  /\ Prior \in [Periods -> Contents]
           /\ After \in [Periods -> Contents]
           /\ cmd \in Command /\ cmd.seen \in Inputs
<1>1. cmd \in Command /\ cmd.seen \in Inputs /\ cmd.facts \in Facts
  BY DEF Inv, TypeOK, Command
<1>2. Written(cmd.seen) \in Inputs
  BY <1>1, WrittenType DEF Inv
<1>3. Prior \in [Periods -> Contents]
  BY <1>1, ViewType DEF Inv, TypeOK, Prior
<1>4. After \in [Periods -> Contents]
  BY <1>1, <1>2, ViewType DEF After
<1> QED BY <1>1, <1>3, <1>4

LEMMA RefreshKeeps ==
    ASSUME Inv, Refresh
    PROVE  Inv'
<1>1. cmd # None /\ cmd.seen # None /\ cmd' = None
  BY DEF Refresh
<1>2. /\ After \in [Periods -> Contents]
      /\ cmd \in Command /\ cmd.seen \in Inputs /\ cmd.facts \in Facts
  BY <1>1, DerivedTypes DEF Command
<1>3. CASE NothingToRefresh
  <2>1. UNCHANGED <<facts, inputs, proofs, registered, installed, held, torn>>
    BY <1>3 DEF Refresh
  <2>2. Untouched' /\ Settled' /\ Vouched' = Vouched /\ InstalledAsRegistered'
    BY <2>1, IndexKept, FilesKept
  <2>3. TypeOK' /\ Informed' /\ Decided'
    BY <1>1, <2>1, <2>2 DEF Inv, TypeOK, Informed, Decided
  <2> QED BY <2>2, <2>3 DEF Inv
<1>4. CASE ~ NothingToRefresh
  <2>1. /\ facts' = cmd.facts /\ inputs' = Written(inputs) /\ proofs' = inputs'
        /\ registered' = Update(registered, Affected, After)
        /\ installed' = Update(installed, Rewritten, After)
        /\ held' = Stale /\ torn' = (Written(cmd.seen) # inputs')
    BY <1>4 DEF Refresh
  <2>2. /\ registered \in [Periods -> Contents \cup {None}]
        /\ installed \in [Periods -> Contents \cup UserBytes \cup {Absent}]
    BY DEF Inv, TypeOK
  <2>3. inputs' \in Inputs
    BY <1>1, <2>1, WrittenType DEF Inv, TypeOK
  <2>4. /\ registered' \in [Periods -> Contents \cup {None}]
        /\ installed' \in [Periods -> Contents \cup UserBytes \cup {Absent}]
    BY <1>2, <2>1, <2>2 DEF Update
  <2>5. TypeOK'
    BY <1>1, <1>2, <2>1, <2>3, <2>4, StaleType DEF Inv, TypeOK
  <2>6. proofs' # None
    BY <2>1, <2>3, NoneIsNoContent
  <2>7. Settled'
    <3>1. SUFFICES ASSUME ~ torn', NEW p \in Periods
                   PROVE  registered'[p] = Vouched'[p]
                            \/ (registered'[p] = None /\ Vouched'[p] = Empty)
      BY DEF Settled
    <3>2. Vouched' = After
      BY <2>1, <3>1 DEF Vouched, After
    <3>3. registered'[p] = IF p \in Affected THEN After[p] ELSE registered[p]
      BY <2>1 DEF Update
    <3>4. CASE p \in Considered
      BY <3>2, <3>3, <3>4 DEF Affected
    <3>5. CASE p \notin Considered
      BY <3>2, <3>3, <3>5 DEF Considered, Affected, Implied, Registered
    <3> QED BY <3>4, <3>5
  <2>8. InstalledAsRegistered'
    <3>1. SUFFICES ASSUME NEW p \in Periods, registered'[p] # None
                   PROVE  installed'[p] \in {registered'[p], Absent} \cup UserBytes
      BY DEF InstalledAsRegistered, Registered
    <3>2. /\ registered'[p] = IF p \in Affected THEN After[p] ELSE registered[p]
          /\ installed'[p] = IF p \in Rewritten THEN After[p] ELSE installed[p]
      BY <2>1 DEF Update
    <3>3. CASE p \in Affected
      BY <3>2, <3>3 DEF Rewritten
    <3>4. CASE p \notin Affected
      <4>1. p \notin Rewritten
        BY <3>4 DEF Rewritten
      <4> QED BY <3>1, <3>2, <3>4, <4>1 DEF Inv, InstalledAsRegistered, Registered
    <3> QED BY <3>3, <3>4
  <2>9. Untouched' /\ Informed' /\ Decided'
    BY <1>1, <2>1, <2>6, StaleType DEF Inv, Untouched, Informed, Decided
  <2> QED BY <2>5, <2>7, <2>8, <2>9 DEF Inv
<1> QED BY <1>3, <1>4

\* The types of what a rebuild selects and registers.
LEMMA RebuildTypes ==
    ASSUME Inv, Rebuild
    PROVE  /\ cmd \in Command /\ cmd.begun \in Inputs
           /\ Selected \subseteq Periods
           /\ NextRegistered \in [Periods -> Contents \cup {None}]
           /\ Prior \in [Periods -> Contents]
<1>1. cmd \in Command /\ Prior \in [Periods -> Contents]
  BY DerivedTypes DEF Rebuild
<1>2. Selected \subseteq Periods
  BY <1>1 DEF Selected, Implied, Command
<1>3. NextRegistered \in [Periods -> Contents \cup {None}]
  BY <1>1 DEF NextRegistered, Inv, TypeOK
<1> QED BY <1>1, <1>2, <1>3 DEF Command

LEMMA RebuildKeeps ==
    ASSUME Inv, Rebuild
    PROVE  Inv'
<1>1. /\ cmd # None /\ cmd.seen # None /\ cmd' = None
      /\ cmd.kind \in {"rebuild", "rebuild_all"}
      /\ facts' = facts /\ inputs' = inputs
  BY DEF Rebuild
<1>2. /\ cmd \in Command /\ cmd.begun \in Inputs
      /\ Selected \subseteq Periods
      /\ NextRegistered \in [Periods -> Contents \cup {None}]
      /\ Prior \in [Periods -> Contents]
  BY RebuildTypes
<1> DEFINE quiet == Outdated = {} /\ Removed = {} /\ proofs = cmd.begun
<1>3. CASE quiet
  <2>1. UNCHANGED <<facts, proofs, registered, installed, held, torn>>
    BY <1>3 DEF Rebuild
  <2>2. Untouched' /\ Settled' /\ Vouched' = Vouched /\ InstalledAsRegistered'
    BY <2>1, IndexKept, FilesKept
  <2>3. TypeOK' /\ Informed' /\ Decided'
    BY <1>1, <2>1, <2>2 DEF Inv, TypeOK, Informed, Decided
  <2> QED BY <2>2, <2>3 DEF Inv
<1>4. CASE ~ quiet
  <2>1. /\ proofs' = cmd.begun /\ registered' = NextRegistered
        /\ installed' = [p \in Periods |-> IF p \in Outdated THEN Prior[p]
                                           ELSE IF p \in Removed THEN Absent
                                           ELSE installed[p]]
        /\ held' = Stale
        /\ torn' = (cmd.seen # cmd.begun \/ (torn /\ cmd.kind = "rebuild"))
    BY <1>4 DEF Rebuild
  <2>2. installed \in [Periods -> Contents \cup UserBytes \cup {Absent}]
    BY DEF Inv, TypeOK
  <2>3. installed' \in [Periods -> Contents \cup UserBytes \cup {Absent}]
    BY <1>2, <2>1, <2>2
  <2>4. torn' \in BOOLEAN
    BY <2>1
  <2>5. TypeOK'
    BY <1>1, <1>2, <2>1, <2>3, <2>4, StaleType DEF Inv, TypeOK
  <2>6. proofs' # None
    BY <1>2, <2>1, NoneIsNoContent
  <2>7. ASSUME NEW p \in Periods
        PROVE  registered'[p] = IF p \in Selected THEN Prior[p]
                                ELSE IF cmd.kind = "rebuild_all" THEN None
                                ELSE registered[p]
    BY <2>1 DEF NextRegistered
  <2>8. Settled'
    <3>1. SUFFICES ASSUME ~ torn', NEW p \in Periods
                   PROVE  registered'[p] = Vouched'[p]
                            \/ (registered'[p] = None /\ Vouched'[p] = Empty)
      BY DEF Settled
    <3>2. Vouched' = Prior
      BY <1>1, <2>1, <3>1 DEF Vouched, Prior
    <3>3. CASE p \in Selected
      BY <2>7, <3>2, <3>3
    <3>4. CASE p \notin Selected /\ cmd.kind = "rebuild_all"
      BY <2>7, <3>2, <3>4 DEF Selected, Implied
    <3>5. CASE p \notin Selected /\ cmd.kind = "rebuild"
      <4>1. ~ torn /\ registered'[p] = registered[p]
        BY <2>1, <2>7, <3>1, <3>5
      <4>2. CASE proofs = None
        <5>1. registered[p] = None /\ facts = NoFacts
          BY <4>2 DEF Inv, Untouched
        <5>2. Prior[p] = Empty
          BY <1>2, <5>1, ViewAssumption, DerivedTypes, <1>1 DEF Prior
        <5> QED BY <3>2, <4>1, <5>1, <5>2
      <4>3. CASE proofs # None
        <5>1. cmd.begun = proofs
          BY <1>1, <3>5, <4>3 DEF Inv, Informed
        <5>2. Vouched' = Vouched
          BY <1>1, <2>1, <5>1 DEF Vouched
        <5> QED BY <4>1, <4>3, <5>2 DEF Inv, Settled
      <4> QED BY <4>2, <4>3
    <3> QED BY <1>1, <3>3, <3>4, <3>5
  <2>9. InstalledAsRegistered'
    <3>1. SUFFICES ASSUME NEW p \in Periods, registered'[p] # None
                   PROVE  installed'[p] \in {registered'[p], Absent} \cup UserBytes
      BY DEF InstalledAsRegistered, Registered
    <3>2. installed'[p] = IF p \in Outdated THEN Prior[p]
                          ELSE IF p \in Removed THEN Absent ELSE installed[p]
      BY <2>1
    <3>3. CASE p \in Selected
      BY <2>7, <3>2, <3>3 DEF Outdated
    <3>4. CASE p \notin Selected
      <4>1. cmd.kind = "rebuild" /\ registered'[p] = registered[p]
        BY <1>1, <2>7, <3>1, <3>4
      <4>2. p \notin Outdated /\ p \notin Removed
        BY <3>4, <4>1 DEF Outdated, Removed
      <4> QED BY <3>1, <3>2, <4>1, <4>2
              DEF Inv, InstalledAsRegistered, Registered
    <3> QED BY <3>3, <3>4
  <2>10. Untouched' /\ Informed' /\ Decided'
    BY <1>1, <2>1, <2>6, StaleType DEF Inv, Untouched, Informed, Decided
  <2> QED BY <2>5, <2>8, <2>9, <2>10 DEF Inv
<1> QED BY <1>3, <1>4

-------------------------------------------------------------------------------
(***************************************************************************)
(* Theorems.                                                               *)
(***************************************************************************)

\* The inductive invariant.
THEOREM Invariance == Spec => []Inv
<1>1. Init => Inv
  <2>1. Init => TypeOK
    BY NamesAssumption DEF Init, TypeOK
  <2>2. Init => Untouched /\ Settled /\ InstalledAsRegistered
    BY DEF Init, Untouched, Settled, InstalledAsRegistered, Registered
  <2>3. Init => Informed /\ Decided
    BY DEF Init, Informed, Decided
  <2> QED BY <2>1, <2>2, <2>3 DEF Inv
<1>2. Inv /\ [Next]_vars => Inv'
  <2> SUFFICES ASSUME Inv, [Next]_vars PROVE Inv'
    OBVIOUS
  <2>1. CASE UNCHANGED vars
    <3>1. Untouched' /\ Settled' /\ Vouched' = Vouched /\ InstalledAsRegistered'
      BY <2>1, IndexKept, FilesKept DEF vars
    <3>2. TypeOK' /\ Informed' /\ Decided'
      BY <2>1, <3>1 DEF Inv, TypeOK, Informed, Decided, vars
    <3> QED BY <3>1, <3>2 DEF Inv
  <2> QED BY <2>1, BeginKeeps, DecideKeeps, DeriveKeeps, FailKeeps, RefreshKeeps,
             RebuildKeeps, DoctorKeeps, UserKeeps DEF Next
<1> QED BY <1>1, <1>2, PTL DEF Spec

\* The state has its type.
THEOREM TypeCorrect == Spec => []TypeOK
<1>1. Inv => TypeOK
  BY DEF Inv
<1> QED BY <1>1, Invariance, PTL

\* One set of input proofs vouches for every registered view, whatever mixture
\* of refreshes and rebuilds made them, while no input is edited under a running
\* command.  (_require_current_input_proofs, _require_narrow_rebuild_proofs)
THEOREM ViewsVouchedFor == Spec => []ViewsAsProved
<1>1. Inv => ViewsAsProved
  BY DEF Inv, Settled, Vouched, ViewsAsProved, ProofsStand, Registered
<1> QED BY <1>1, Invariance, PTL

\* No period with transactions is without a registered view.
\* (plan_automatic_view_refresh)
THEOREM NoPeriodForgotten == Spec => []EveryPeriodRegistered
<1>1. ASSUME Inv PROVE EveryPeriodRegistered
  <2>1. SUFFICES ASSUME ~ torn, proofs # None,
                        NEW p \in Periods, Vouched[p] # Empty
                 PROVE  registered[p] # None
    BY DEF EveryPeriodRegistered, Implied, Registered, Vouched
  <2>2. registered[p] = Vouched[p]
    BY <1>1, <2>1 DEF Inv, Settled
  <2>3. Vouched[p] \in Contents
    BY <1>1, <2>1, ViewType DEF Inv, TypeOK, Vouched
  <2> QED BY <2>2, <2>3, NoneIsNoContent
<1> QED BY <1>1, Invariance, PTL

\* The files of a registered view are that view, or a user's doing; never an
\* older view.  (_unit_matches_installed, _unit_requires_write)
THEOREM NoOlderView == Spec => []InstalledAsRegistered
<1>1. Inv => InstalledAsRegistered
  BY DEF Inv
<1> QED BY <1>1, Invariance, PTL

\* Registered views, their files and the periods that need one keep in step,
\* for any periods, inputs and commands.
THEOREM ViewsKeepInStep == Spec => []ViewsInStep
<1>1. ViewsAsProved /\ EveryPeriodRegistered /\ InstalledAsRegistered => ViewsInStep
  BY DEF ViewsInStep
<1> QED BY <1>1, ViewsVouchedFor, NoPeriodForgotten, NoOlderView, PTL

\* A review is saved over the views it was decided on, unless an input was edited
\* after the review checked it and before it read it.  (expected_generation_id)
THEOREM ReviewsStand == Spec => []ReviewStands
<1>1. Inv => ReviewStands
  BY DEF Inv, Informed, ReviewStands, Vouched
<1> QED BY <1>1, Invariance, PTL

\* A refresh does not touch the files of a view that stays as it is.
\* (plan_automatic_view_refresh)
THEOREM UnrelatedViewsLeftAlone == Spec => RefreshLeavesAlone
<1> DEFINE A == Refresh /\ ~ torn /\ proofs # None /\ ~ torn' =>
                  \A p \in Registered :
                     View(facts, proofs)[p] = View(facts', proofs')[p]
                       => installed'[p] = installed[p]
<1>1. ASSUME Inv, Next PROVE A
  <2>1. SUFFICES ASSUME Refresh, ~ torn, proofs # None, ~ torn',
                        NEW p \in Registered,
                        View(facts, proofs)[p] = View(facts', proofs')[p]
                 PROVE  installed'[p] = installed[p]
    OBVIOUS
  <2>2. CASE NothingToRefresh
    BY <2>1, <2>2 DEF Refresh
  <2>3. CASE ~ NothingToRefresh
    <3>1. /\ facts' = cmd.facts /\ proofs' = Written(inputs)
          /\ Written(cmd.seen) = Written(inputs)
          /\ installed' = Update(installed, Rewritten, After)
      BY <2>1, <2>3 DEF Refresh
    <3>2. After = View(facts', proofs')
      BY <3>1 DEF After
    <3>3. p \in Periods /\ registered[p] = Vouched[p]
      BY <1>1, <2>1 DEF Inv, Settled, Registered
    <3>4. p \notin Rewritten
      BY <2>1, <3>2, <3>3 DEF Rewritten, Affected, Vouched
    <3> QED BY <3>1, <3>3, <3>4 DEF Update
  <2> QED BY <2>2, <2>3
<1>2. Inv /\ [Next]_vars => [A]_vars
  BY <1>1
<1> QED BY <1>2, Invariance, PTL DEF Spec, RefreshLeavesAlone

\* After a full rebuild exactly the implied periods are registered and in place.
\* (plan_workspace_views, rebuild_views)
THEOREM FullRebuildIsOracle == Spec => RebuildAllIsOracle
<1> DEFINE A == Rebuild /\ cmd.kind = "rebuild_all" =>
                  \A p \in Periods :
                     IF p \in Implied(Prior)
                     THEN registered'[p] = Prior[p] /\ installed'[p] = Prior[p]
                     ELSE registered'[p] = None
<1>1. ASSUME Inv, Next PROVE A
  <2>1. SUFFICES ASSUME Rebuild, cmd.kind = "rebuild_all", NEW p \in Periods
                 PROVE  IF p \in Implied(Prior)
                        THEN registered'[p] = Prior[p] /\ installed'[p] = Prior[p]
                        ELSE registered'[p] = None
    OBVIOUS
  <2>2. Selected = Implied(Prior) /\ Removed = Registered \ Implied(Prior)
    BY <2>1 DEF Selected, Removed
  <2>3. CASE Outdated = {} /\ Removed = {} /\ proofs = cmd.begun
    <3>1. registered' = registered /\ installed' = installed
      BY <2>1, <2>3 DEF Rebuild
    <3> QED BY <2>2, <2>3, <3>1 DEF Outdated, Registered
  <2>4. CASE ~ (Outdated = {} /\ Removed = {} /\ proofs = cmd.begun)
    <3>1. /\ registered' = NextRegistered
          /\ installed' = [q \in Periods |-> IF q \in Outdated THEN Prior[q]
                                             ELSE IF q \in Removed THEN Absent
                                             ELSE installed[q]]
      BY <2>1, <2>4 DEF Rebuild
    <3>2. registered'[p] = IF p \in Selected THEN Prior[p] ELSE None
      BY <2>1, <3>1 DEF NextRegistered
    <3>3. p \in Selected => installed'[p] = Prior[p]
      BY <2>2, <3>1 DEF Outdated
    <3> QED BY <2>2, <3>2, <3>3
  <2> QED BY <2>3, <2>4
<1>2. Inv /\ [Next]_vars => [A]_vars
  BY <1>1
<1> QED BY <1>2, Invariance, PTL DEF Spec, RebuildAllIsOracle

\* A refresh writes no more than it must, a full rebuild no less.
THEOREM WritesAreExact == Spec => WritesExactly
BY UnrelatedViewsLeftAlone, FullRebuildIsOracle DEF WritesExactly

-------------------------------------------------------------------------------
(***************************************************************************)
(* The cache of rates.                                                     *)
(***************************************************************************)
USE FetchConstants, CacheConstants

Less == {pair \in Nat \X Nat : pair[1] < pair[2]}

\* Every non-empty set of natural numbers has a least element.
LEMMA LeastNumber ==
    ASSUME NEW S, S \subseteq Nat, S # {}
    PROVE  \E n \in S : \A m \in S : n <= m
<1>1. IsWellFoundedOn(Less, Nat)
  BY NatLessThanWellFounded, Zenon DEF OpToRel, Less
<1>2. PICK n \in S : \A m \in S : ~ (<<m, n>> \in Less)
  BY <1>1, WFMin, Zenon
<1>3. \A m \in S : n <= m
  <2> SUFFICES ASSUME NEW m \in S, ~ (n <= m)
               PROVE  FALSE
    OBVIOUS
  <2>1. m \in Nat /\ n \in Nat /\ m < n
    OBVIOUS
  <2>2. <<m, n>> \in Less
    BY <2>1 DEF Less
  <2> QED
    BY <1>2, <2>2
<1> QED
  BY <1>3

\* A day that has a candidate has a nearest one.
LEMMA NearestExists ==
    ASSUME NEW table \in Tables, NEW date \in Days, Resolvable(table, date)
    PROVE  /\ Nearest(table, date) \in Recent(table, date)
           /\ \A e \in Recent(table, date) : e <= Nearest(table, date)
<1> DEFINE Ages == {date - d : d \in Recent(table, date)}
<1>1. DOMAIN table \subseteq Days
  BY DEF Tables
<1>2. Ages \subseteq Nat
  <2> SUFFICES ASSUME NEW d \in Recent(table, date)
               PROVE  date - d \in Nat
    OBVIOUS
  <2>1. d \in Nat /\ date \in Nat /\ d <= date
    BY <1>1 DEF Recent
  <2> QED
    BY <2>1
<1>3. Ages # {}
  BY DEF Resolvable
<1>4. PICK a \in Ages : \A b \in Ages : a <= b
  BY <1>2, <1>3, LeastNumber
<1>5. PICK d \in Recent(table, date) : a = date - d
  OBVIOUS
<1>6. \A e \in Recent(table, date) : e <= d
  <2> SUFFICES ASSUME NEW e \in Recent(table, date)
               PROVE  e <= d
    OBVIOUS
  <2>1. date - d <= date - e
    BY <1>4, <1>5
  <2>2. d \in Nat /\ e \in Nat /\ date \in Nat
    BY <1>1 DEF Recent
  <2> QED
    BY <2>1, <2>2
<1> QED
  BY <1>6 DEF Nearest

\* Tables are closed under union, restriction and a change of one rate.
LEMMA UnionType ==
    ASSUME NEW f \in Tables, NEW g \in Tables
    PROVE  /\ Union(f, g) \in Tables
           /\ DOMAIN Union(f, g) = DOMAIN f \cup DOMAIN g
           /\ \A d \in DOMAIN f : Union(f, g)[d] = f[d]
           /\ \A d \in DOMAIN g \ DOMAIN f : Union(f, g)[d] = g[d]
<1>1. PICK S \in SUBSET Days : f \in [S -> Rates]
  BY DEF Tables
<1>2. PICK T \in SUBSET Days : g \in [T -> Rates]
  BY DEF Tables
<1>3. Union(f, g) \in [S \cup T -> Rates]
  BY <1>1, <1>2 DEF Union
<1> QED
  BY <1>1, <1>2, <1>3 DEF Union, Tables

LEMMA RestrictedType ==
    ASSUME NEW f \in Tables, NEW S, S \subseteq DOMAIN f
    PROVE  Restricted(f, S) \in Tables
<1>1. PICK T \in SUBSET Days : f \in [T -> Rates]
  BY DEF Tables
<1>2. Restricted(f, S) \in [S -> Rates]
  BY <1>1 DEF Restricted
<1> QED
  BY <1>1, <1>2 DEF Tables

LEMMA NoRatesType == NoRates \in Tables
<1>1. NoRates \in [{} -> Rates]
  BY DEF NoRates
<1> QED
  BY <1>1 DEF Tables

\* More observations leave a date resolvable, by the same or a later day.
LEMMA NearestImproves ==
    ASSUME NEW table \in Tables, NEW new \in Tables, NEW date \in Days, Resolvable(table, date)
    PROVE  LET merged == Union(table, new)
           IN  /\ Resolvable(merged, date)
               /\ \/ Nearest(merged, date) = Nearest(table, date)
                  \/ Nearest(merged, date) > Nearest(table, date)
               /\ Nearest(table, date) \in DOMAIN table
<1> DEFINE merged == Union(table, new)
<1>1. merged \in Tables /\ DOMAIN table \subseteq DOMAIN merged
  BY UnionType
<1>2. Recent(table, date) \subseteq Recent(merged, date)
  BY <1>1 DEF Recent
<1>3. Resolvable(merged, date)
  BY <1>2 DEF Resolvable
<1>4. Nearest(table, date) \in Recent(table, date)
  BY NearestExists
<1>5. /\ Nearest(merged, date) \in Recent(merged, date)
      /\ \A e \in Recent(merged, date) : e <= Nearest(merged, date)
  BY <1>1, <1>3, NearestExists
<1>6. Nearest(table, date) \in Nat /\ Nearest(merged, date) \in Nat
  BY <1>1, <1>4, <1>5 DEF Recent, Tables
<1>7. Nearest(table, date) <= Nearest(merged, date)
  BY <1>2, <1>4, <1>5
<1> HIDE DEF merged
<1>8. \/ Nearest(merged, date) = Nearest(table, date)
      \/ Nearest(merged, date) > Nearest(table, date)
  BY <1>6, <1>7
<1> QED
  BY <1>3, <1>4, <1>8 DEF merged, Recent

--------------------------------------------------------------------------------
\* Type correctness.

\* The page asked for is part of the table.
LEMMA PageType ==
    ASSUME published \in Tables
    PROVE  Page \in Tables
<1> DEFINE listed == DOMAIN published \cap Requested
           place(d) == Cardinality({e \in listed : e < d})
           S == {d \in listed : place(d) \in offset .. offset + PageSize - 1}
<1>1. S \subseteq DOMAIN published
  OBVIOUS
<1>2. Page = Restricted(published, S)
  BY DEF Page
<1> HIDE DEF S
<1> QED
  BY <1>1, <1>2, RestrictedType

\* A document names finitely many days.
LEMMA CardType ==
    ASSUME NEW page \in Tables
    PROVE  Cardinality(DOMAIN page) \in Nat
<1>1. DOMAIN page \subseteq Days
  BY DEF Tables
<1> QED
  BY <1>1, FS_Subset, FS_CardinalityType

LEMMA ReceiveType ==
    ASSUME FetchTypeOK, NEW page \in Tables, ReceivePage(page), straight' \in BOOLEAN
    PROVE  FetchTypeOK'
<1>1. Cardinality(DOMAIN page) \in Nat
  BY CardType
<1>2. got' \in Tables
  BY UnionType DEF ReceivePage, FetchTypeOK
<1> QED
  BY <1>1, <1>2 DEF ReceivePage, FetchTypeOK

LEMMA ForgetType ==
    ASSUME Forget
    PROVE  offset' \in Nat /\ got' \in Tables /\ asked' \subseteq Days /\ straight' \in BOOLEAN
  BY NoRatesType DEF Forget

LEMMA PublisherType ==
    ASSUME FetchTypeOK, Publisher
    PROVE  FetchTypeOK'
<1> USE DEF FetchTypeOK, Change
<1>1. ASSUME NEW d \in Days, NEW r \in Rates, Publish(d, r)
      PROVE  FetchTypeOK'
  <2>1. [x \in {d} |-> r] \in [{d} -> Rates]
    OBVIOUS
  <2>2. [x \in {d} |-> r] \in Tables
    <3>1. {d} \in SUBSET Days
      OBVIOUS
    <3> QED
      BY <2>1, <3>1 DEF Tables
  <2>3. published' \in Tables
    BY <1>1, <2>2, UnionType DEF Publish
  <2> QED
    BY <1>1, <2>3 DEF Publish
<1>2. ASSUME NEW d \in Days, NEW r \in Rates, Revise(d, r)
      PROVE  FetchTypeOK'
  <2>1. PICK S \in SUBSET Days : published \in [S -> Rates]
    BY DEF Tables
  <2>2. published' \in [S -> Rates]
    BY <1>2, <2>1 DEF Revise
  <2>3. published' \in Tables
    BY <2>2 DEF Tables
  <2> QED
    BY <1>2, <2>3 DEF Revise
<1>3. ASSUME NEW d \in Days, Withdraw(d)
      PROVE  FetchTypeOK'
  <2>1. published' \in Tables
    BY <1>3, RestrictedType DEF Withdraw
  <2> QED
    BY <1>3, <2>1 DEF Withdraw
<1> QED
  BY <1>1, <1>2, <1>3 DEF Publisher

LEMMA LoopType ==
    ASSUME FetchTypeOK, BeginFetch \/ Loop \/ FetchAgain
    PROVE  FetchTypeOK'
<1>1. CASE BeginFetch
  <2>1. DOMAIN published \subseteq Days
    BY DEF FetchTypeOK, Tables
  <2> QED
    BY <1>1, <2>1, NoRatesType DEF BeginFetch, FetchTypeOK
<1>2. CASE ReadPage
  BY <1>2, PageType, ReceiveType DEF ReadPage, FetchTypeOK
<1>3. ASSUME NEW page \in Documents, ReadOtherPage(page)
      PROVE  FetchTypeOK'
  <2>1. page \in Tables
    BY DEF Tables
  <2> QED
    BY <1>3, <2>1, ReceiveType DEF ReadOtherPage
<1>4. CASE RejectPage \/ FailPage
  BY <1>4, ForgetType DEF RejectPage, FailPage, Refuse, FetchTypeOK
<1>5. CASE FetchAgain
  BY <1>5 DEF FetchAgain, FetchTypeOK
<1> QED
  BY <1>1, <1>2, <1>3, <1>4, <1>5 DEF Loop, AnswerPage

\* An answer is an observation.
LEMMA ResolvedType ==
    ASSUME NEW table \in Tables, NEW dates, dates \subseteq Days
    PROVE  Resolved(table, dates) \in Resolutions
<1> DEFINE S == {x \in dates : Resolvable(table, x)}
<1>1. \A d \in S : ResolveRate(table, d) \in Observations
  <2> SUFFICES ASSUME NEW d \in S
               PROVE  ResolveRate(table, d) \in Observations
    OBVIOUS
  <2>1. Nearest(table, d) \in Recent(table, d)
    BY NearestExists
  <2>2. Nearest(table, d) \in DOMAIN table
    BY <2>1 DEF Recent
  <2>3. PICK T \in SUBSET Days : table \in [T -> Rates]
    BY DEF Tables
  <2>4. Nearest(table, d) \in Days /\ table[Nearest(table, d)] \in Rates
    BY <2>2, <2>3
  <2> QED
    BY <2>4 DEF ResolveRate, Observations
<1>2. Resolved(table, dates) \in [S -> Observations]
  BY <1>1 DEF Resolved
<1> QED
  BY <1>2 DEF Resolutions

LEMMA MergeType ==
    ASSUME CacheTypeOK, NEW new \in Tables, Merge(new)
    PROVE  observations' \in Tables /\ resolutions' \in Resolutions
<1>1. Union(observations, new) \in Tables
  BY UnionType DEF CacheTypeOK
<1>2. DOMAIN resolutions \cup rows \subseteq Days
  BY DEF CacheTypeOK, Resolutions
<1> QED
  BY <1>1, <1>2, ResolvedType DEF Merge

LEMMA InitType == CacheInit => CacheTypeOK
<1> SUFFICES ASSUME CacheInit
             PROVE  CacheTypeOK
  OBVIOUS
<1>1. [d \in {} |-> {}] \in Resolutions
  <2>1. [d \in {} |-> {}] \in [{} -> Observations]
    OBVIOUS
  <2> QED
    BY <2>1 DEF Resolutions
<1>2. published \in Tables
  BY DEF CacheInit, FetchInit, Tables
<1> QED
  BY <1>1, <1>2, NoRatesType DEF CacheInit, FetchInit, CacheTypeOK, FetchTypeOK

LEMMA NextType == CacheTypeOK /\ [CacheNext]_rateVars => CacheTypeOK'
<1> SUFFICES ASSUME CacheTypeOK, [CacheNext]_rateVars
             PROVE  CacheTypeOK'
  OBVIOUS
<1>1. CASE Publisher /\ UNCHANGED cacheVars
  BY <1>1, PublisherType DEF CacheTypeOK, cacheVars
<1>2. CASE (BeginFetch \/ Loop \/ FetchAgain) /\ UNCHANGED cacheVars
  BY <1>2, LoopType DEF CacheTypeOK, cacheVars
<1>3. CASE ApplyFetch
  <2>1. observations' \in Tables /\ resolutions' \in Resolutions
    BY <1>3, MergeType DEF ApplyFetch, CacheTypeOK, FetchTypeOK
  <2> QED
    BY <1>3, <2>1, ForgetType DEF ApplyFetch, CacheTypeOK, FetchTypeOK
<1>4. CASE ApplyRefused
  BY <1>4, ForgetType DEF ApplyRefused, CacheTypeOK, FetchTypeOK, cacheVars
<1>5. ASSUME NEW document \in Documents, ImportDocument(document)
      PROVE  CacheTypeOK'
  <2>1. document \in Tables
    BY DEF Tables
  <2>2. observations' \in Tables /\ resolutions' \in Resolutions
    BY <1>5, <2>1, MergeType DEF ImportDocument
  <2> QED
    BY <1>5, <2>2 DEF ImportDocument, CacheTypeOK, FetchTypeOK, fetchVars, Count
<1>6. ASSUME NEW d \in Days, AddRow(d) \/ RemoveRow(d)
      PROVE  CacheTypeOK'
  <2>1. commands' \in 0 .. MaxCommands /\ rows' \subseteq Days
    <3>1. commands < MaxCommands /\ commands' = commands + 1
      BY <1>6 DEF AddRow, RemoveRow, Count
    <3>2. rows' \subseteq Days
      BY <1>6 DEF AddRow, RemoveRow, CacheTypeOK
    <3> QED
      BY <3>1, <3>2 DEF CacheTypeOK
  <2>2. UNCHANGED <<fetchVars, observations, resolutions>>
    BY <1>6 DEF AddRow, RemoveRow
  <2> QED
    BY <2>1, <2>2 DEF CacheTypeOK, FetchTypeOK, fetchVars
<1>7. CASE UNCHANGED rateVars
  BY <1>7 DEF rateVars, fetchVars, cacheVars, CacheTypeOK, FetchTypeOK
<1> QED
  BY <1>1, <1>2, <1>3, <1>4, <1>5, <1>6, <1>7 DEF CacheNext

\* Every reachable state has the declared types.
THEOREM CacheTypeCorrect == CacheSpec => []CacheTypeOK
  BY InitType, NextType, PTL DEF CacheSpec

--------------------------------------------------------------------------------
\* The cache.

LEMMA MergeValid ==
    ASSUME NEW new, Merge(new)
    PROVE  CacheValid'
  BY DEF Merge, CacheValid, ValidCache, Resolved

LEMMA InitValid == CacheInit => CacheValid
  BY DEF CacheInit, CacheValid, ValidCache

LEMMA NextValid == CacheValid /\ [CacheNext]_rateVars => CacheValid'
<1> SUFFICES ASSUME CacheValid, [CacheNext]_rateVars
             PROVE  CacheValid'
  OBVIOUS
<1>1. ASSUME UNCHANGED <<observations, resolutions>>
      PROVE  CacheValid'
  BY <1>1 DEF CacheValid
<1>2. CASE ApplyFetch
  BY <1>2, MergeValid DEF ApplyFetch
<1>3. ASSUME NEW document \in Documents, ImportDocument(document)
      PROVE  CacheValid'
  BY <1>3, MergeValid DEF ImportDocument
<1> QED
  BY <1>1, <1>2, <1>3 DEF CacheNext, rateVars, cacheVars, ApplyRefused, AddRow, RemoveRow

\* The cache on disk always passes the check of its next reader.
THEOREM CacheAlwaysValid == CacheSpec => []CacheValid
  BY InitValid, NextValid, PTL DEF CacheSpec

\* One merge improves the cache and the values.
LEMMA MergeImproves ==
    ASSUME CacheTypeOK, CacheValid, NEW new \in Tables, Merge(new)
    PROVE  ObservationsStand /\ ResolutionsImprove /\ ValuesImprove
<1> DEFINE merged == Union(observations, new)
<1>1. observations \in Tables /\ DOMAIN observations \subseteq Days
  BY DEF CacheTypeOK, Tables
<1>2. observations' = merged
  BY DEF Merge
<1>3. ObservationsStand
  BY <1>1, <1>2, UnionType DEF ObservationsStand
<1>4. \A d \in Days : Resolvable(observations, d) =>
          /\ Resolvable(merged, d)
          /\ \/ Nearest(merged, d) = Nearest(observations, d)
             \/ Nearest(merged, d) > Nearest(observations, d)
          /\ Nearest(observations, d) \in DOMAIN observations
          /\ merged[Nearest(observations, d)] = observations[Nearest(observations, d)]
  <2> SUFFICES ASSUME NEW d \in Days, Resolvable(observations, d)
               PROVE  /\ Resolvable(merged, d)
                      /\ \/ Nearest(merged, d) = Nearest(observations, d)
                         \/ Nearest(merged, d) > Nearest(observations, d)
                      /\ Nearest(observations, d) \in DOMAIN observations
                      /\ merged[Nearest(observations, d)] = observations[Nearest(observations, d)]
    OBVIOUS
  <2>1. /\ Resolvable(merged, d)
        /\ \/ Nearest(merged, d) = Nearest(observations, d)
           \/ Nearest(merged, d) > Nearest(observations, d)
        /\ Nearest(observations, d) \in DOMAIN observations
    BY <1>1, NearestImproves
  <2> QED
    BY <1>1, <2>1, UnionType
<1> HIDE DEF merged
<1>5. ResolutionsImprove
  <2>1. DOMAIN resolutions \subseteq Days
    BY DEF CacheTypeOK, Resolutions
  <2>2. resolutions' = Resolved(merged, DOMAIN resolutions \cup rows)
    BY <1>2 DEF Merge
  <2> SUFFICES ASSUME NEW d \in DOMAIN resolutions
               PROVE  /\ d \in DOMAIN resolutions'
                      /\ \/ resolutions'[d] = resolutions[d]
                         \/ resolutions'[d].day > resolutions[d].day
    BY DEF ResolutionsImprove
  <2>3. Resolvable(observations, d) /\ resolutions[d] = ResolveRate(observations, d)
    BY DEF CacheValid, ValidCache
  <2>4. d \in DOMAIN resolutions' /\ resolutions'[d] = ResolveRate(merged, d)
    BY <1>4, <2>1, <2>2, <2>3 DEF Resolved
  <2>5. resolutions[d] = [day |-> Nearest(observations, d),
                          rate |-> observations[Nearest(observations, d)]]
    BY <2>3 DEF ResolveRate
  <2>6. resolutions'[d] = [day |-> Nearest(merged, d), rate |-> merged[Nearest(merged, d)]]
    BY <2>4 DEF ResolveRate
  <2>7. /\ \/ Nearest(merged, d) = Nearest(observations, d)
           \/ Nearest(merged, d) > Nearest(observations, d)
        /\ merged[Nearest(observations, d)] = observations[Nearest(observations, d)]
    BY <1>4, <2>1, <2>3
  <2>8. CASE Nearest(merged, d) = Nearest(observations, d)
    BY <2>4, <2>5, <2>6, <2>7, <2>8
  <2>9. CASE Nearest(merged, d) > Nearest(observations, d)
    <3>1. /\ resolutions'[d].day = Nearest(merged, d)
          /\ resolutions[d].day = Nearest(observations, d)
      BY <2>5, <2>6
    <3> QED
      BY <2>4, <2>9, <3>1
  <2> QED
    BY <2>7, <2>8, <2>9
<1>6. ValuesImprove
  <2> SUFFICES ASSUME NEW d \in Days
               PROVE  Improves(Valuation(d), Valuation(d)')
    BY DEF ValuesImprove
  <2>1. CASE d \in Dated
    BY <2>1 DEF Valuation, Improves
  <2>2. CASE d \notin Dated /\ Resolvable(observations, d)
    <3>1. Valuation(d) = [source |-> "cached", day |-> Nearest(observations, d),
                          rate |-> observations[Nearest(observations, d)]]
      BY <2>2 DEF Valuation
    <3>2. Valuation(d)' = [source |-> "cached", day |-> Nearest(merged, d),
                           rate |-> merged[Nearest(merged, d)]]
      BY <1>2, <1>4, <2>2 DEF Valuation
    <3> QED
      BY <1>4, <2>2, <3>1, <3>2 DEF Improves
  <2>3. CASE d \notin Dated /\ ~Resolvable(observations, d)
    <3>1. Valuation(d) = [source |-> IF Fixed THEN "fixed" ELSE "missing"]
      BY <2>3 DEF Valuation
    <3>2. CASE Resolvable(merged, d)
      BY <1>2, <2>3, <3>1, <3>2 DEF Valuation, Improves
    <3>3. CASE ~Resolvable(merged, d)
      BY <1>2, <2>3, <3>1, <3>3 DEF Valuation, Improves
    <3> QED
      BY <3>2, <3>3
  <2> QED
    BY <2>1, <2>2, <2>3
<1> QED
  BY <1>3, <1>5, <1>6

LEMMA NextImproves ==
    ASSUME CacheTypeOK, CacheValid, [CacheNext]_rateVars
    PROVE  [ObservationsStand /\ ResolutionsImprove /\ ValuesImprove]_rateVars
<1>1. ASSUME UNCHANGED <<observations, resolutions>>
      PROVE  ObservationsStand /\ ResolutionsImprove /\ ValuesImprove
  BY <1>1 DEF ObservationsStand, ResolutionsImprove, ValuesImprove, Improves, Valuation
<1>2. CASE ApplyFetch
  BY <1>2, MergeImproves DEF ApplyFetch, CacheTypeOK, FetchTypeOK
<1>3. ASSUME NEW document \in Documents, ImportDocument(document)
      PROVE  ObservationsStand /\ ResolutionsImprove /\ ValuesImprove
  <2>1. document \in Tables
    BY DEF Tables
  <2> QED
    BY <1>3, <2>1, MergeImproves DEF ImportDocument
<1> QED
  BY <1>1, <1>2, <1>3 DEF CacheNext, rateVars, cacheVars, ApplyRefused, AddRow, RemoveRow

\* Observations never change or go, an answer yields only to a later one, and
\* no row's value goes back.
THEOREM OnlyEverImproves == CacheSpec => OnlyImproves
<1>1. CacheTypeOK /\ CacheValid /\ [CacheNext]_rateVars =>
          [ObservationsStand /\ ResolutionsImprove /\ ValuesImprove]_rateVars
  BY NextImproves
<1> QED
  BY <1>1, CacheTypeCorrect, CacheAlwaysValid, PTL DEF CacheSpec, OnlyImproves

===============================================================================
