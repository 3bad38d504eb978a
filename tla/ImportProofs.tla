----------------------------- MODULE ImportProofs -----------------------------
(***************************************************************************)
(* Proofs about ImportRecords: whatever files are imported, replaced and   *)
(* reset, however parses fail and commands stop, the index, the attempt    *)
(* histories, the snapshots and the summaries agree.                       *)
(***************************************************************************)
EXTENDS ImportRecords, FiniteSetTheorems, TLAPS, WellFoundedInduction

-------------------------------------------------------------------------------
(***************************************************************************)
(* The newest of some attempt numbers.                                     *)
(***************************************************************************)

Below == {pair \in Nat \X Nat : pair[1] < pair[2]}

\* The order of the naturals is well-founded.
LEMMA BelowWellFounded == IsWellFoundedOn(Below, Nat)
  BY NatLessThanWellFounded DEF OpToRel, Below

\* A non-empty set of attempt numbers has a largest one.
LEMMA Maximum ==
  ASSUME NEW set \in SUBSET Numbers, set # {}
  PROVE  \E n \in set : \A m \in set : m <= n
<1> DEFINE Rest == {k \in Nat : \E m \in set : k = MaxAttempts - m}
<1>1. PICK m0 \in set : TRUE
  OBVIOUS
<1>2. Rest \subseteq Nat /\ Rest # {}
  <2>1. MaxAttempts - m0 \in Rest
    BY MaxAttemptsAssumption DEF Numbers
  <2> QED BY <2>1
<1> HIDE DEF Rest
<1>3. PICK least \in Rest : \A k \in Rest : ~ (<<k, least>> \in Below)
  BY <1>2, BelowWellFounded, WFMin
<1>4. PICK n \in set : least = MaxAttempts - n
  BY DEF Rest
<1>5. ASSUME NEW m \in set PROVE m <= n
  <2>1. MaxAttempts - m \in Rest
    BY MaxAttemptsAssumption DEF Rest, Numbers
  <2>2. ~ (MaxAttempts - m < MaxAttempts - n)
    BY <1>2, <1>3, <1>4, <2>1 DEF Below
  <2>3. n \in Nat /\ m \in Nat /\ MaxAttempts \in Nat
    BY MaxAttemptsAssumption DEF Numbers
  <2> QED BY <2>2, <2>3
<1> QED BY <1>5

\* Newest returns it.
LEMMA NewestIs ==
  ASSUME NEW set \in SUBSET Numbers, set # {}
  PROVE  Newest(set) \in set /\ \A m \in set : m <= Newest(set)
  BY Maximum DEF Newest

-------------------------------------------------------------------------------
(***************************************************************************)
(* What an accepted batch assigns.                                         *)
(***************************************************************************)

\* A file at a known place gets the source there; any other gets its own id in
\* an import and otherwise the one free source with its bytes.
LEMMA AssignedIs ==
  ASSUME NEW known, NEW batch, NEW bytes, NEW action, NEW p \in batch,
         Accepts(known, batch, bytes, action)
  PROVE  LET s == Assigned(known, batch, bytes, action, p)
         IN  \/ /\ action # "import"
                /\ s \in Exact(known, p)
             \/ /\ action = "import"
                /\ s = SourceId(p)
                /\ Exact(known, p) = {}
             \/ /\ action # "import"
                /\ Exact(known, p) = {}
                /\ SameBytes(known, batch, bytes, p) = {s}
<1>1. CASE Exact(known, p) # {}
  <2>1. action # "import"
    BY <1>1 DEF Accepts, Claimed
  <2> QED BY <1>1, <2>1 DEF Assigned
<1>2. CASE Exact(known, p) = {} /\ action = "import"
  BY <1>2 DEF Assigned
<1>3. CASE Exact(known, p) = {} /\ action # "import"
  <2>1. PICK s \in SameBytes(known, batch, bytes, p) :
           SameBytes(known, batch, bytes, p) = {s}
    BY <1>3 DEF Accepts, Unmatched
  <2> QED BY <1>3, <2>1 DEF Assigned
<1> QED BY <1>1, <1>2, <1>3

\* Two files of an accepted batch never get the same source.
LEMMA AssignedDistinct ==
  ASSUME NEW known, NEW batch, NEW bytes, NEW action,
         NEW p \in batch, NEW q \in batch,
         Accepts(known, batch, bytes, action),
         Assigned(known, batch, bytes, action, p)
           = Assigned(known, batch, bytes, action, q)
  PROVE  p = q
<1> DEFINE s == Assigned(known, batch, bytes, action, p)
<1>1. CASE action = "import"
  BY <1>1, AssignedIs DEF SourceId
<1>2. CASE action # "import" /\ s \in Exact(known, p) /\ s \in Exact(known, q)
  BY <1>2 DEF Exact
<1>3. CASE /\ action # "import"
           /\ SameBytes(known, batch, bytes, p) = {s}
           /\ SameBytes(known, batch, bytes, q) = {s}
           /\ Exact(known, p) = {} /\ Exact(known, q) = {}
  BY <1>3 DEF Accepts, Unmatched
<1>4. ASSUME NEW r \in batch, NEW t \in batch,
             s \in Exact(known, r), s \in SameBytes(known, batch, bytes, t)
      PROVE  FALSE
  BY <1>4 DEF Claimed, SameBytes
<1>5. \/ action = "import"
      \/ s \in Exact(known, p)
      \/ SameBytes(known, batch, bytes, p) = {s} /\ Exact(known, p) = {}
  BY AssignedIs
<1>6. \/ action = "import"
      \/ s \in Exact(known, q)
      \/ SameBytes(known, batch, bytes, q) = {s} /\ Exact(known, q) = {}
  BY AssignedIs
<1> HIDE DEF s
<1> QED BY <1>1, <1>2, <1>3, <1>4, <1>5, <1>6

\* A part of a batch that is accepted on its own assigns what the batch did.
LEMMA AssignedStands ==
  ASSUME NEW known, NEW batch, NEW part \in SUBSET batch, NEW bytes, NEW action,
         NEW p \in part,
         Accepts(known, batch, bytes, action),
         Accepts(known, part, bytes, action)
  PROVE  Assigned(known, part, bytes, action, p)
           = Assigned(known, batch, bytes, action, p)
<1>1. SameBytes(known, batch, bytes, p) \subseteq SameBytes(known, part, bytes, p)
  BY DEF SameBytes, Claimed
<1>2. CASE Exact(known, p) # {} \/ action = "import"
  BY <1>2 DEF Assigned
<1>3. CASE Exact(known, p) = {} /\ action # "import"
  <2>1. SameBytes(known, part, bytes, p)
          = {Assigned(known, part, bytes, action, p)}
    BY <1>3, AssignedIs
  <2>2. SameBytes(known, batch, bytes, p)
          = {Assigned(known, batch, bytes, action, p)}
    BY <1>3, AssignedIs
  <2> QED BY <1>1, <2>1, <2>2
<1> QED BY <1>2, <1>3

-------------------------------------------------------------------------------
(***************************************************************************)
(* The inductive invariant.                                                *)
(***************************************************************************)

\* One record, its snapshot, its summary and its source tell one story.
RecordAgrees(s) ==
    /\ Readable(s)
    /\ s \in DOMAIN sources <=> Successes(s) # {}
    /\ s \in DOMAIN sources => ReadyRowsAgree(s)
    /\ IF summary[s] = None THEN Successes(s) = {} ELSE summary[s] = BuiltSummary(s)

\* Between commit and reports, what is installed for the file at p.
Installed(p) ==
    LET s == cmd.id[p]
    IN  /\ snapshot[s] = cmd.number[p]
        /\ summary[s] = [ready |-> TRUE, current |-> cmd.number[p]]
        /\ s \in DOMAIN sources
        /\ sources[s].revision = cmd.revision[p]
        /\ sources[s].contract = cmd.contract[p]
        /\ sources[s].facts = cmd.number[p]

Won == cmd # None /\ cmd.phase = "won"

\* The record s is about to get the report of a success.
Awaits(s) == Won /\ \E p \in Parsed : Owns(p, s)

Agreement ==
    /\ \A s \in SourceIds : ~ Awaits(s) => RecordAgrees(s)
    /\ Won => \A p \in Parsed : Installed(p)

\* Each file of the batch has the first unused number of its record.
NumbersReserved ==
    cmd # None =>
        \A p \in cmd.batch :
            Used(cmd.id[p]) = {n \in Numbers : n < cmd.number[p]}

\* Until the commit the index still assigns what was reserved; a generation
\* is of files that resolved on their own, and failures of nothing else.
PlanHeld ==
    cmd # None =>
        /\ cmd.phase # "won" =>
              /\ Accepts(sources, cmd.batch, cmd.revision, cmd.action)
              /\ \A p \in cmd.batch :
                    cmd.id[p] = Assigned(sources, cmd.batch, cmd.revision,
                                         cmd.action, p)
        /\ cmd.phase = "publishing" /\ cmd.kind = "generation" =>
              /\ Accepts(sources, Parsed, cmd.revision, cmd.action)
              /\ cmd.action = "import" =>
                    \A p \in Parsed : cmd.id[p] \notin DOMAIN sources
        /\ cmd.phase \in {"publishing", "won"} =>
              cmd.kind = "generation" \/ cmd.failed = cmd.batch

Sound ==
    /\ TypeOK
    /\ OneSourcePerPlace
    /\ OneRecordEach
    /\ PlanHeld
    /\ NumbersReserved
    /\ Agreement

-------------------------------------------------------------------------------
(***************************************************************************)
(* What the operators over one record return.                              *)
(***************************************************************************)

\* Attempt numbers of a record are numbers, and so are those of successes.
LEMMA NumbersUsed ==
  ASSUME NEW s
  PROVE  /\ Used(s) \in SUBSET Numbers
         /\ Successes(s) \in SUBSET Numbers
         /\ Successes(s) \subseteq Used(s)
  BY DEF Used, Successes

\* A summary built from a record is a summary; if the record has a success, it
\* names one that no success is newer than.
LEMMA BuiltIs ==
  ASSUME NEW s
  PROVE  /\ BuiltSummary(s) \in SummaryType
         /\ BuiltSummary(s) # None
         /\ Successes(s) # {} =>
              /\ BuiltSummary(s).ready
              /\ BuiltSummary(s).current \in Successes(s)
              /\ \A n \in Successes(s) : n <= BuiltSummary(s).current
         /\ BuiltSummary(s).ready => Successes(s) # {}
<1>1. CASE Successes(s) = {}
  <2>1. BuiltSummary(s) = [ready |-> FALSE, current |-> 0]
    BY <1>1 DEF BuiltSummary
  <2>2. BuiltSummary(s) \in SummaryType
    BY <2>1, MaxAttemptsAssumption DEF SummaryType
  <2>3. BuiltSummary(s) # None
    BY <2>2, NoneAssumption
  <2>4. BuiltSummary(s).ready = FALSE
    BY <2>1
  <2> QED BY <1>1, <2>2, <2>3, <2>4
<1>2. CASE Successes(s) # {}
  <2>1. /\ Newest(Successes(s)) \in Successes(s)
        /\ \A n \in Successes(s) : n <= Newest(Successes(s))
    BY <1>2, NumbersUsed, NewestIs
  <2>2. Newest(Successes(s)) \in 0 .. MaxAttempts
    BY <2>1, NumbersUsed, MaxAttemptsAssumption DEF Numbers
  <2>3. BuiltSummary(s) = [ready |-> TRUE, current |-> Newest(Successes(s))]
    BY <1>2 DEF BuiltSummary
  <2>4. BuiltSummary(s) \in SummaryType
    BY <2>2, <2>3 DEF SummaryType
  <2>5. BuiltSummary(s) # None
    BY <2>4, NoneAssumption
  <2>6. /\ BuiltSummary(s).ready = TRUE
        /\ BuiltSummary(s).current = Newest(Successes(s))
    BY <2>3
  <2> QED BY <1>2, <2>1, <2>4, <2>5, <2>6
<1> QED BY <1>1, <1>2

\* The next number of a record without a gap is the first unused one.
LEMMA NextIs ==
  ASSUME NEW s, \A n \in Used(s) : \A m \in 1 .. n : m \in Used(s),
         NextNumber(s) # 0
  PROVE  /\ NextNumber(s) \in Numbers
         /\ Used(s) = {n \in Numbers : n < NextNumber(s)}
<1>1. CASE Used(s) = {}
  BY <1>1, MaxAttemptsAssumption DEF NextNumber, Numbers
<1>2. CASE Used(s) # {}
  <2> DEFINE last == Newest(Used(s))
  <2>1. last \in Used(s) /\ \A n \in Used(s) : n <= last
    BY <1>2, NumbersUsed, NewestIs
  <2>2. last \in 1 .. MaxAttempts /\ MaxAttempts \in Nat
    BY <2>1, NumbersUsed, MaxAttemptsAssumption DEF Numbers
  <2>3. last # MaxAttempts /\ NextNumber(s) = last + 1
    BY <1>2 DEF NextNumber
  <2> HIDE DEF last
  <2>4. NextNumber(s) \in Numbers
    BY <2>2, <2>3 DEF Numbers
  <2>5. ASSUME NEW n \in Numbers PROVE n \in Used(s) <=> n < last + 1
    <3>1. n \in Nat /\ n >= 1
      BY MaxAttemptsAssumption DEF Numbers
    <3>2. n <= last => n \in Used(s)
      BY <2>1, <2>2, <3>1
    <3> QED BY <2>1, <2>2, <3>1, <3>2
  <2>6. Used(s) \subseteq Numbers
    BY NumbersUsed
  <2> QED BY <2>3, <2>4, <2>5, <2>6
<1> QED BY <1>1, <1>2

\* A record nothing of which changes goes on agreeing.
LEMMA Unchanged ==
  ASSUME NEW s, RecordAgrees(s),
         reports'[s] = reports[s], snapshot'[s] = snapshot[s],
         summary'[s] = summary[s] \/ summary'[s] = BuiltSummary(s),
         s \in DOMAIN sources' <=> s \in DOMAIN sources,
         s \in DOMAIN sources => sources'[s] = sources[s]
  PROVE  RecordAgrees(s)'
<1>1. Used(s)' = Used(s)
  BY DEF Used
<1>2. Successes(s)' = Successes(s)
  BY <1>1 DEF Successes
<1>3. BuiltSummary(s)' = BuiltSummary(s)
  BY <1>2 DEF BuiltSummary
<1>4. Readable(s)'
  BY <1>1, <1>3 DEF RecordAgrees, Readable
<1>5. s \in DOMAIN sources => ReadyRowsAgree(s)'
  BY <1>3, <1>4 DEF RecordAgrees, ReadyRowsAgree
<1>6. BuiltSummary(s) # None
  BY BuiltIs
<1> QED BY <1>2, <1>3, <1>4, <1>5, <1>6 DEF RecordAgrees

\* A record that gets one more report, not of a success, goes on agreeing.
LEMMA FailureKeeps ==
  ASSUME TypeOK, NEW s \in SourceIds, RecordAgrees(s), NEW n \in Numbers,
         Used(s) = {m \in Numbers : m < n},
         NEW r \in ReportType, r.outcome # "success",
         reports'[s] = [reports[s] EXCEPT ![n] = r],
         UNCHANGED <<sources, snapshot, summary>>
  PROVE  RecordAgrees(s)'
<1>0. reports[s] \in [Numbers -> ReportType \cup {None}] /\ r # None
  BY NoneAssumption DEF TypeOK
<1>1. Used(s)' = Used(s) \cup {n}
  BY <1>0 DEF Used
<1>2. n \notin Used(s)
  BY DEF Numbers
<1>3. Successes(s)' = Successes(s)
  BY <1>0, <1>1, <1>2 DEF Successes
<1>4. BuiltSummary(s)' = BuiltSummary(s)
  BY <1>3 DEF BuiltSummary
<1>5. ASSUME NEW k \in Used(s)', NEW m \in 1 .. k PROVE m \in Used(s)'
  <2>1. CASE k \in Used(s)
    BY <1>1, <2>1 DEF RecordAgrees, Readable
  <2>2. CASE k = n
    BY <1>1, <2>2, MaxAttemptsAssumption DEF Numbers
  <2> QED BY <1>1, <2>1, <2>2
<1>6. Readable(s)'
  BY <1>4, <1>5 DEF RecordAgrees, Readable
<1>7. ASSUME s \in DOMAIN sources PROVE ReadyRowsAgree(s)'
  <2>1. Successes(s) # {}
    BY <1>7 DEF RecordAgrees
  <2>2. BuiltSummary(s).current \in Used(s)
    BY <2>1, BuiltIs, NumbersUsed
  <2>3. reports'[s][BuiltSummary(s).current] = reports[s][BuiltSummary(s).current]
    BY <1>0, <1>2, <2>2, NumbersUsed
  <2> QED BY <1>4, <1>6, <1>7, <2>3 DEF RecordAgrees, ReadyRowsAgree
<1> QED BY <1>3, <1>4, <1>6, <1>7 DEF RecordAgrees

-------------------------------------------------------------------------------
(***************************************************************************)
(* Types.                                                                  *)
(***************************************************************************)

\* The fields of the command in progress.
LEMMA CommandFields ==
  ASSUME TypeOK, cmd # None
  PROVE  /\ cmd.batch \in SUBSET Places
         /\ cmd.failed \in SUBSET cmd.batch
         /\ cmd.phase \in {"reserved", "parsed", "publishing", "won"}
         /\ cmd.kind \in {"pending", "generation", "failures"}
         /\ cmd.revision \in [cmd.batch -> Revisions]
         /\ cmd.contract \in [cmd.batch -> Contracts]
         /\ cmd.id \in [cmd.batch -> SourceIds]
         /\ cmd.number \in [cmd.batch -> Numbers]
         /\ Parsed \in SUBSET cmd.batch
  BY DEF TypeOK, CommandType, Parsed

\* A step that changes only the phase, the kind and the failed files keeps the
\* command's type.
LEMMA CommandGoesOn ==
  ASSUME TypeOK, cmd # None, NEW phase, NEW kind, NEW failed \in SUBSET cmd.batch,
         phase \in {"reserved", "parsed", "publishing", "won"},
         kind \in {"pending", "generation", "failures"}
  PROVE  [cmd EXCEPT !.phase = phase, !.kind = kind, !.failed = failed]
           \in CommandType(cmd.batch)
  BY DEF TypeOK, CommandType

\* What an accepted batch assigns is a source id.
LEMMA AssignedType ==
  ASSUME TypeOK, NEW batch \in SUBSET Places, NEW bytes, NEW action,
         Accepts(sources, batch, bytes, action), NEW p \in batch
  PROVE  Assigned(sources, batch, bytes, action, p) \in SourceIds
<1> DEFINE s == Assigned(sources, batch, bytes, action, p)
<1>1. s \in Exact(sources, p) \/ s = SourceId(p)
        \/ SameBytes(sources, batch, bytes, p) = {s}
  BY AssignedIs
<1>2. Exact(sources, p) \subseteq DOMAIN sources
        /\ SameBytes(sources, batch, bytes, p) \subseteq DOMAIN sources
  BY DEF Exact, SameBytes
<1>3. DOMAIN sources \subseteq SourceIds /\ SourceId(p) \in SourceIds
  BY DEF TypeOK, SourceIds
<1> QED BY <1>1, <1>2, <1>3

LEMMA TypeInit == Init => TypeOK
  BY MaxAttemptsAssumption DEF Init, TypeOK, SourceType, SummaryType

\* Reports of a batch are reports.
LEMMA ReportedType ==
  ASSUME TypeOK, cmd # None,
         NEW outcome \in [cmd.batch -> {"success", "failure", "interrupted"}]
  PROVE  Reported(outcome) \in [SourceIds -> [Numbers -> ReportType \cup {None}]]
<1>1. ASSUME NEW p \in cmd.batch PROVE Report(p, outcome[p]) \in ReportType
  BY CommandFields DEF Report, ReportType
<1>2. ASSUME NEW s \in SourceIds, NEW n \in Numbers
      PROVE  (IF \E p \in cmd.batch : Owns(p, s) /\ cmd.number[p] = n
              THEN LET p == CHOOSE q \in cmd.batch : Owns(q, s) /\ cmd.number[q] = n
                   IN  Report(p, outcome[p])
              ELSE reports[s][n]) \in ReportType \cup {None}
  <2>1. reports[s][n] \in ReportType \cup {None}
    BY DEF TypeOK
  <2>2. ASSUME \E p \in cmd.batch : Owns(p, s) /\ cmd.number[p] = n
        PROVE  (CHOOSE q \in cmd.batch : Owns(q, s) /\ cmd.number[q] = n)
                 \in cmd.batch
    BY <2>2
  <2> QED BY <1>1, <2>1, <2>2
<1> QED BY <1>2 DEF Reported

\* The outcomes of a batch, won or lost.
LEMMA OutcomesType ==
  ASSUME TypeOK, cmd # None
  PROVE  /\ Win \in [cmd.batch -> {"success", "failure", "interrupted"}]
         /\ Loss \in [cmd.batch -> {"success", "failure", "interrupted"}]
  BY DEF Win, Loss

\* What a generation installs has the type of what it replaces.
LEMMA InstalledType ==
  ASSUME TypeOK, cmd # None
  PROVE  /\ NextSummary \in [SourceIds -> SummaryType \cup {None}]
         /\ NextSnapshot \in [SourceIds -> 0 .. MaxAttempts]
         /\ DOMAIN NextSources \subseteq SourceIds
         /\ \A s \in DOMAIN NextSources : NextSources[s] \in SourceType
<1> USE CommandFields
<1>1. ASSUME NEW s \in SourceIds, \E p \in Parsed : Owns(p, s)
      PROVE  /\ (CHOOSE p \in Parsed : Owns(p, s)) \in cmd.batch
             /\ cmd.number[CHOOSE p \in Parsed : Owns(p, s)] \in Numbers
  BY <1>1
<1>2. Numbers \subseteq 0 .. MaxAttempts
  BY DEF Numbers
<1>3. ASSUME NEW n \in 0 .. MaxAttempts
      PROVE  [ready |-> TRUE, current |-> n] \in SummaryType
  BY DEF SummaryType
<1>4. NextSummary \in [SourceIds -> SummaryType \cup {None}]
  BY <1>1, <1>2, <1>3, BuiltIs DEF NextSummary, TypeOK
<1>5. NextSnapshot \in [SourceIds -> 0 .. MaxAttempts]
  BY <1>1, <1>2 DEF NextSnapshot, TypeOK
<1> DEFINE ids == {cmd.id[p] : p \in Parsed}
<1>6. ids \subseteq SourceIds
  OBVIOUS
<1>7. DOMAIN NextSources = DOMAIN sources \cup ids
  BY DEF NextSources
<1>8. ASSUME NEW s \in ids
      PROVE  NextSources[s] \in SourceType
  <2> DEFINE p == CHOOSE q \in Parsed : Owns(q, s)
  <2>1. p \in Parsed
    BY <1>8 DEF Owns
  <2>2. NextSources[s] = [place |-> p, revision |-> cmd.revision[p],
                          contract |-> cmd.contract[p], facts |-> cmd.number[p]]
    BY <1>8 DEF NextSources
  <2> HIDE DEF p
  <2> QED BY <2>1, <2>2 DEF SourceType
<1>9. ASSUME NEW s \in DOMAIN sources, s \notin ids
      PROVE  NextSources[s] = sources[s]
  BY <1>9 DEF NextSources
<1> HIDE DEF ids
<1> QED BY <1>4, <1>5, <1>6, <1>7, <1>8, <1>9 DEF TypeOK

-------------------------------------------------------------------------------
(***************************************************************************)
(* The invariant holds initially and every step keeps it.                  *)
(***************************************************************************)

LEMMA SoundInit == Init => Sound
<1> SUFFICES ASSUME Init PROVE Sound
  OBVIOUS
<1>1. TypeOK
  BY TypeInit
<1>2. ASSUME NEW s \in SourceIds PROVE Used(s) = {} /\ Successes(s) = {}
  BY DEF Init, Used, Successes
<1>3. ASSUME NEW s \in SourceIds PROVE RecordAgrees(s)
  BY <1>2 DEF Init, RecordAgrees, Readable, BuiltSummary
<1>4. cmd = None /\ DOMAIN sources = {}
  BY DEF Init
<1> QED
  BY <1>1, <1>3, <1>4
  DEF Sound, OneSourcePerPlace, OneRecordEach, PlanHeld, NumbersReserved,
      Agreement, Won

\* What is on disk stays as it is.
LEMMA DataUnchanged ==
  ASSUME UNCHANGED <<sources, reports, files>>, NEW s
  PROVE  /\ Used(s)' = Used(s)
         /\ RecordAgrees(s)' <=> RecordAgrees(s)
<1>1. /\ sources' = sources /\ reports' = reports
      /\ snapshot' = snapshot /\ summary' = summary
  BY DEF files
<1>2. Used(s)' = Used(s)
  BY <1>1 DEF Used
<1>3. Successes(s)' = Successes(s)
  BY <1>1, <1>2 DEF Successes
<1>4. BuiltSummary(s)' = BuiltSummary(s)
  BY <1>3 DEF BuiltSummary
<1>5. Readable(s)' <=> Readable(s)
  BY <1>1, <1>2, <1>4 DEF Readable
<1>6. ReadyRowsAgree(s)' <=> ReadyRowsAgree(s)
  BY <1>1, <1>4, <1>5 DEF ReadyRowsAgree
<1> QED BY <1>1, <1>2, <1>3, <1>4, <1>5, <1>6 DEF RecordAgrees

LEMMA ReserveStep ==
  ASSUME Sound, NEW action \in Actions, NEW batch \in SUBSET Places,
         NEW revision \in [batch -> Revisions],
         NEW contract \in [batch -> Contracts],
         Reserve(action, batch, revision, contract)
  PROVE  Sound'
<1> DEFINE id == [p \in batch |-> Assigned(sources, batch, revision, action, p)]
           number == [p \in batch |-> NextNumber(id[p])]
<1>1. /\ TypeOK /\ cmd = None /\ UNCHANGED <<sources, reports, files>>
      /\ sources' = sources /\ reports' = reports
      /\ snapshot' = snapshot /\ summary' = summary
      /\ Accepts(sources, batch, revision, action)
      /\ \A p \in batch : NextNumber(id[p]) # 0
  BY DEF Sound, Reserve, Preflight, Planned, files
<1>2. id \in [batch -> SourceIds]
  BY <1>1, AssignedType
<1>3. cmd' = [phase |-> "reserved", kind |-> "pending", action |-> action,
              batch |-> batch, revision |-> revision, contract |-> contract,
              id |-> id, number |-> number, failed |-> {}]
  BY DEF Reserve, Preflight, Planned
<1>4. \A s \in SourceIds : RecordAgrees(s)
  BY <1>1 DEF Sound, Agreement, Awaits, Won
<1>5. \A p \in batch :
         /\ number[p] \in Numbers
         /\ Used(id[p]) = {n \in Numbers : n < number[p]}
  BY <1>1, <1>2, <1>4, NextIs DEF RecordAgrees, Readable
<1>6. \A p, q \in batch : id[p] = id[q] => p = q
  BY <1>1, AssignedDistinct
<1>7. \A p \in batch : id[p] = Assigned(sources, batch, revision, action, p)
  OBVIOUS
<1>8. number \in [batch -> Numbers]
  BY <1>5
<1> HIDE DEF id, number
<1>9. /\ cmd'.phase = "reserved" /\ cmd'.kind = "pending" /\ cmd'.batch = batch
      /\ cmd'.action = action /\ cmd'.revision = revision
      /\ cmd'.id = id /\ cmd'.number = number
  BY <1>3
<1>10. TypeOK'
  <2>1. cmd' \in CommandType(batch)
    BY <1>2, <1>3, <1>8 DEF CommandType
  <2> QED BY <1>1, <1>9, <2>1 DEF TypeOK
<1>11. OneSourcePerPlace'
  BY <1>1 DEF Sound, OneSourcePerPlace
<1>12. OneRecordEach'
  BY <1>6, <1>9 DEF OneRecordEach
<1>13. PlanHeld'
  BY <1>1, <1>7, <1>9 DEF PlanHeld
<1>14. NumbersReserved'
  BY <1>1, <1>5, <1>9, DataUnchanged DEF NumbersReserved
<1>15. Agreement'
  BY <1>1, <1>4, <1>9, DataUnchanged DEF Agreement, Won
<1> QED BY <1>10, <1>11, <1>12, <1>13, <1>14, <1>15 DEF Sound

\* A step that only carries the command on, before its commit.
LEMMA GoesOn ==
  ASSUME Sound, cmd # None, cmd.phase \in {"reserved", "parsed"},
         UNCHANGED <<sources, reports, files>>,
         cmd' \in CommandType(cmd.batch),
         cmd'.action = cmd.action, cmd'.revision = cmd.revision,
         cmd'.id = cmd.id, cmd'.number = cmd.number,
         cmd'.phase \in {"parsed", "publishing"},
         cmd'.phase = "publishing" =>
           \/ cmd'.failed = cmd.batch /\ cmd'.kind # "generation"
           \/ /\ cmd'.kind = "generation"
              /\ Accepts(sources, cmd.batch \ cmd'.failed, cmd.revision, cmd.action)
              /\ cmd.action = "import" =>
                   \A p \in cmd.batch \ cmd'.failed : cmd.id[p] \notin DOMAIN sources
  PROVE  Sound'
<1>1. /\ sources' = sources /\ reports' = reports
      /\ snapshot' = snapshot /\ summary' = summary
  BY DEF files
<1>2. cmd'.batch = cmd.batch
  BY DEF CommandType
<1>3. TypeOK'
  BY <1>1, <1>2 DEF Sound, TypeOK
<1>4. OneSourcePerPlace'
  BY <1>1 DEF Sound, OneSourcePerPlace
<1>5. OneRecordEach'
  BY <1>2 DEF Sound, OneRecordEach
<1>6. PlanHeld'
  BY <1>1, <1>2 DEF Sound, PlanHeld, Parsed
<1>7. NumbersReserved'
  BY <1>1, <1>2, DataUnchanged DEF Sound, NumbersReserved
<1>8. Agreement'
  BY <1>1, DataUnchanged DEF Sound, Agreement, Awaits, Won
<1> QED BY <1>3, <1>4, <1>5, <1>6, <1>7, <1>8 DEF Sound

LEMMA ParseStep ==
  ASSUME Sound, NEW failed, Parse(failed)
  PROVE  Sound'
<1>1. TypeOK /\ cmd # None /\ cmd.phase = "reserved" /\ failed \in SUBSET cmd.batch
        /\ UNCHANGED <<sources, reports, files>> /\ cmd \in CommandType(cmd.batch)
  BY DEF Sound, Parse, TypeOK
<1>2. CASE failed = cmd.batch
  <2>1. cmd' = [cmd EXCEPT !.phase = "publishing", !.kind = "failures",
                           !.failed = failed]
    BY <1>2 DEF Parse, FixedFailures
  <2>2. cmd' \in CommandType(cmd.batch)
    BY <1>1, <2>1, CommandGoesOn
  <2>3. /\ cmd'.action = cmd.action /\ cmd'.revision = cmd.revision
        /\ cmd'.id = cmd.id /\ cmd'.number = cmd.number
        /\ cmd'.phase = "publishing" /\ cmd'.kind = "failures"
        /\ cmd'.failed = cmd.batch
    BY <1>1, <1>2, <2>1 DEF CommandType
  <2> QED BY <1>1, <2>2, <2>3, GoesOn
<1>3. CASE failed # cmd.batch
  <2>1. cmd' = [cmd EXCEPT !.phase = "parsed", !.failed = failed]
    BY <1>3 DEF Parse
  <2>2. cmd' \in CommandType(cmd.batch)
    BY <1>1, <2>1 DEF CommandType
  <2>3. /\ cmd'.action = cmd.action /\ cmd'.revision = cmd.revision
        /\ cmd'.id = cmd.id /\ cmd'.number = cmd.number
        /\ cmd'.phase = "parsed"
    BY <1>1, <2>1 DEF CommandType
  <2> QED BY <1>1, <2>2, <2>3, GoesOn
<1> QED BY <1>2, <1>3

LEMMA PublishStep ==
  ASSUME Sound, Publish
  PROVE  Sound'
<1>1. /\ TypeOK /\ cmd # None /\ cmd.phase = "parsed"
      /\ cmd \in CommandType(cmd.batch)
      /\ UNCHANGED <<sources, reports, files>>
      /\ cmd' = [cmd EXCEPT !.phase = "publishing", !.kind = "generation"]
  BY DEF Sound, Publish, TypeOK
<1>2. cmd' \in CommandType(cmd.batch)
  BY <1>1 DEF CommandType
<1>3. /\ cmd'.action = cmd.action /\ cmd'.revision = cmd.revision
      /\ cmd'.id = cmd.id /\ cmd'.number = cmd.number
      /\ cmd'.phase = "publishing" /\ cmd'.kind = "generation"
      /\ cmd'.failed = cmd.failed
  BY <1>1 DEF CommandType
<1>4. /\ Accepts(sources, cmd.batch \ cmd.failed, cmd.revision, cmd.action)
      /\ cmd.action = "import" =>
           \A p \in cmd.batch \ cmd.failed : cmd.id[p] \notin DOMAIN sources
  BY DEF Publish, Resolves, Parsed
<1> QED BY <1>1, <1>2, <1>3, <1>4, GoesOn

LEMMA RejectStep ==
  ASSUME Sound, Reject
  PROVE  Sound'
<1>1. /\ TypeOK /\ cmd # None /\ cmd.phase = "parsed"
      /\ cmd \in CommandType(cmd.batch)
      /\ UNCHANGED <<sources, reports, files>>
      /\ cmd' = [cmd EXCEPT !.phase = "publishing", !.kind = "failures",
                            !.failed = cmd.batch]
  BY DEF Sound, Reject, FixedFailures, TypeOK
<1>2. cmd' \in CommandType(cmd.batch)
  BY <1>1, CommandGoesOn
<1>3. /\ cmd'.action = cmd.action /\ cmd'.revision = cmd.revision
      /\ cmd'.id = cmd.id /\ cmd'.number = cmd.number
      /\ cmd'.phase = "publishing" /\ cmd'.kind = "failures"
      /\ cmd'.failed = cmd.batch
  BY <1>1 DEF CommandType
<1> QED BY <1>1, <1>2, <1>3, GoesOn

\* What a generation installs for each source: its file's, or what was there.
LEMMA NextAt ==
  ASSUME TypeOK, OneRecordEach, cmd # None
  PROVE  /\ \A p \in Parsed :
              /\ NextSnapshot[cmd.id[p]] = cmd.number[p]
              /\ NextSummary[cmd.id[p]]
                   = [ready |-> TRUE, current |-> cmd.number[p]]
              /\ cmd.id[p] \in DOMAIN NextSources
              /\ NextSources[cmd.id[p]]
                   = [place |-> p, revision |-> cmd.revision[p],
                      contract |-> cmd.contract[p], facts |-> cmd.number[p]]
         /\ \A s \in SourceIds : ~ (\E p \in Parsed : Owns(p, s)) =>
              /\ NextSnapshot[s] = snapshot[s]
              /\ NextSummary[s] = summary[s] \/ NextSummary[s] = BuiltSummary(s)
              /\ s \in DOMAIN NextSources <=> s \in DOMAIN sources
              /\ s \in DOMAIN sources => NextSources[s] = sources[s]
<1> USE CommandFields
<1> DEFINE ids == {cmd.id[p] : p \in Parsed}
<1>1. DOMAIN NextSources = DOMAIN sources \cup ids
  BY DEF NextSources
<1>2. ASSUME NEW p \in Parsed
      PROVE  /\ cmd.id[p] \in SourceIds /\ cmd.id[p] \in ids
             /\ \E q \in Parsed : Owns(q, cmd.id[p])
             /\ (CHOOSE q \in Parsed : Owns(q, cmd.id[p])) = p
  <2>1. \A q \in Parsed : Owns(q, cmd.id[p]) <=> q = p
    BY DEF OneRecordEach, Owns
  <2> QED BY <2>1
<1>3. ASSUME NEW p \in Parsed
      PROVE  /\ NextSnapshot[cmd.id[p]] = cmd.number[p]
             /\ NextSummary[cmd.id[p]]
                  = [ready |-> TRUE, current |-> cmd.number[p]]
             /\ cmd.id[p] \in DOMAIN NextSources
             /\ NextSources[cmd.id[p]]
                  = [place |-> p, revision |-> cmd.revision[p],
                     contract |-> cmd.contract[p], facts |-> cmd.number[p]]
  <2>1. NextSnapshot[cmd.id[p]] = cmd.number[p]
    BY <1>2 DEF NextSnapshot
  <2>2. NextSummary[cmd.id[p]] = [ready |-> TRUE, current |-> cmd.number[p]]
    BY <1>2 DEF NextSummary
  <2>3. cmd.id[p] \in DOMAIN NextSources
    BY <1>1, <1>2
  <2>4. NextSources[cmd.id[p]]
          = [place |-> p, revision |-> cmd.revision[p],
             contract |-> cmd.contract[p], facts |-> cmd.number[p]]
    BY <1>2 DEF NextSources
  <2> QED BY <2>1, <2>2, <2>3, <2>4
<1>4. ASSUME NEW s \in SourceIds, ~ (\E p \in Parsed : Owns(p, s))
      PROVE  /\ NextSnapshot[s] = snapshot[s]
             /\ NextSummary[s] = summary[s] \/ NextSummary[s] = BuiltSummary(s)
             /\ s \in DOMAIN NextSources <=> s \in DOMAIN sources
             /\ s \in DOMAIN sources => NextSources[s] = sources[s]
  <2>1. s \notin ids
    BY <1>4 DEF Owns
  <2>2. NextSnapshot[s] = snapshot[s]
    BY <1>4 DEF NextSnapshot
  <2>3. NextSummary[s] = summary[s] \/ NextSummary[s] = BuiltSummary(s)
    BY <1>4 DEF NextSummary
  <2>4. s \in DOMAIN sources => NextSources[s] = sources[s]
    BY <2>1 DEF NextSources
  <2> QED BY <1>1, <2>1, <2>2, <2>3, <2>4
<1> QED BY <1>3, <1>4

\* The files that parsed still get the records reserved for them.
LEMMA PartStands ==
  ASSUME Sound, cmd # None, cmd.phase # "won",
         Accepts(sources, Parsed, cmd.revision, cmd.action), NEW p \in Parsed
  PROVE  cmd.id[p] = Assigned(sources, Parsed, cmd.revision, cmd.action, p)
<1>1. Parsed \in SUBSET cmd.batch /\ p \in cmd.batch
  BY CommandFields DEF Sound
<1>2. cmd.id[p] = Assigned(sources, cmd.batch, cmd.revision, cmd.action, p)
        /\ Accepts(sources, cmd.batch, cmd.revision, cmd.action)
  BY <1>1 DEF Sound, PlanHeld
<1> QED BY <1>1, <1>2, AssignedStands

LEMMA CommitStep ==
  ASSUME Sound, Commit
  PROVE  Sound'
<1>1. TypeOK /\ cmd # None /\ cmd.phase = "publishing" /\ OneRecordEach
        /\ cmd \in CommandType(cmd.batch)
        /\ reports' = reports /\ summary' = NextSummary
        /\ cmd' = [cmd EXCEPT !.phase = "won"]
  BY DEF Sound, Commit, TypeOK
<1>2. /\ cmd'.batch = cmd.batch /\ cmd'.action = cmd.action
      /\ cmd'.revision = cmd.revision /\ cmd'.contract = cmd.contract
      /\ cmd'.id = cmd.id /\ cmd'.number = cmd.number
      /\ cmd'.failed = cmd.failed /\ cmd'.kind = cmd.kind
      /\ cmd'.phase = "won" /\ cmd' \in CommandType(cmd.batch)
  BY <1>1 DEF CommandType
<1>11. cmd' # None /\ Won'
  <2>1. cmd' # None
    BY <1>1, <1>2, CommandFields, NoneAssumption
  <2> QED BY <1>2, <2>1 DEF Won
<1>3. Parsed' = Parsed /\ \A p, s : Owns(p, s)' <=> Owns(p, s)
  BY <1>2 DEF Parsed, Owns
<1>4. /\ NextSummary \in [SourceIds -> SummaryType \cup {None}]
      /\ NextSnapshot \in [SourceIds -> 0 .. MaxAttempts]
      /\ DOMAIN NextSources \subseteq SourceIds
      /\ \A s \in DOMAIN NextSources : NextSources[s] \in SourceType
  BY <1>1, InstalledType
<1>5. \A s \in SourceIds : RecordAgrees(s)
  BY <1>1 DEF Sound, Agreement, Awaits, Won
<1>6. OneRecordEach'
  BY <1>1, <1>2 DEF OneRecordEach
<1>7. NumbersReserved'
  BY <1>1, <1>2 DEF Sound, NumbersReserved, Used
<1>8. PlanHeld'
  BY <1>1, <1>2 DEF Sound, PlanHeld
<1>9. CASE cmd.kind = "generation"
  <2>1. snapshot' = NextSnapshot /\ sources' = NextSources
    BY <1>9 DEF Commit
  <2>2. TypeOK'
    BY <1>1, <1>2, <1>4, <2>1 DEF TypeOK
  <2>3. \A p \in Parsed : Installed(p)'
    <3> SUFFICES ASSUME NEW p \in Parsed PROVE Installed(p)'
      OBVIOUS
    <3>1. /\ snapshot'[cmd.id[p]] = cmd.number[p]
          /\ summary'[cmd.id[p]] = [ready |-> TRUE, current |-> cmd.number[p]]
          /\ cmd.id[p] \in DOMAIN sources'
          /\ sources'[cmd.id[p]]
               = [place |-> p, revision |-> cmd.revision[p],
                  contract |-> cmd.contract[p], facts |-> cmd.number[p]]
      BY <1>1, <2>1, NextAt
    <3> QED BY <1>2, <3>1 DEF Installed
  <2>4. ASSUME NEW s \in SourceIds, ~ (\E p \in Parsed : Owns(p, s))
        PROVE  RecordAgrees(s)'
    BY <1>1, <1>5, <2>1, <2>4, NextAt, Unchanged
  <2>5. Agreement'
    BY <1>11, <1>3, <2>3, <2>4 DEF Agreement, Awaits
  <2>6. /\ Accepts(sources, Parsed, cmd.revision, cmd.action)
        /\ \A p \in Parsed :
              cmd.id[p] = Assigned(sources, Parsed, cmd.revision, cmd.action, p)
    BY <1>1, <1>9, PartStands DEF Sound, PlanHeld
  <2>7. ASSUME NEW p \in Parsed, NEW t \in DOMAIN sources,
               sources[t].place = p
        PROVE  t = cmd.id[p]
    <3>1. t \in Exact(sources, p)
      BY <2>7 DEF Exact
    <3>2. cmd.id[p] \in Exact(sources, p)
      BY <2>6, <3>1, AssignedIs
    <3>3. cmd.id[p] \in DOMAIN sources /\ sources[cmd.id[p]].place = p
      BY <3>2 DEF Exact
    <3> QED BY <2>7, <3>3 DEF Sound, OneSourcePerPlace
  <2>8. \A s \in DOMAIN sources' :
           \/ \E p \in Parsed : s = cmd.id[p] /\ sources'[s].place = p
           \/ /\ s \in DOMAIN sources /\ sources'[s] = sources[s]
              /\ \A p \in Parsed : s # cmd.id[p]
    <3> SUFFICES ASSUME NEW s \in DOMAIN sources'
                 PROVE  \/ \E p \in Parsed : s = cmd.id[p] /\ sources'[s].place = p
                        \/ /\ s \in DOMAIN sources /\ sources'[s] = sources[s]
                           /\ \A p \in Parsed : s # cmd.id[p]
      OBVIOUS
    <3>1. s \in SourceIds
      BY <1>4, <2>1
    <3>2. ASSUME NEW p \in Parsed, s = cmd.id[p]
          PROVE  sources'[s].place = p
      <4>1. sources'[s]
              = [place |-> p, revision |-> cmd.revision[p],
                 contract |-> cmd.contract[p], facts |-> cmd.number[p]]
        BY <1>1, <2>1, <3>2, NextAt
      <4> QED BY <4>1
    <3>3. ASSUME \A p \in Parsed : s # cmd.id[p]
          PROVE  s \in DOMAIN sources /\ sources'[s] = sources[s]
      <4>1. ~ (\E p \in Parsed : Owns(p, s))
        BY <3>3 DEF Owns
      <4> QED BY <1>1, <2>1, <3>1, <4>1, NextAt
    <3> QED BY <3>2, <3>3
  <2>9. OneSourcePerPlace'
    BY <2>7, <2>8 DEF Sound, OneSourcePerPlace
  <2> QED BY <1>6, <1>7, <1>8, <2>2, <2>5, <2>9 DEF Sound
<1>10. CASE cmd.kind # "generation"
  <2>1. snapshot' = snapshot /\ sources' = sources /\ cmd.failed = cmd.batch
    BY <1>1, <1>10 DEF Commit, Sound, PlanHeld
  <2>2. Parsed = {}
    BY <2>1 DEF Parsed
  <2>3. TypeOK'
    BY <1>1, <1>2, <1>4, <2>1 DEF TypeOK
  <2>4. ASSUME NEW s \in SourceIds PROVE RecordAgrees(s)'
    BY <1>1, <1>5, <2>1, <2>2, NextAt, Unchanged
  <2>5. Agreement'
    BY <1>3, <2>2, <2>4 DEF Agreement
  <2>6. OneSourcePerPlace'
    BY <2>1 DEF Sound, OneSourcePerPlace
  <2> QED BY <1>6, <1>7, <1>8, <2>3, <2>5, <2>6 DEF Sound
<1> QED BY <1>9, <1>10

\* Writing the reports of a batch adds one report to each of its records.
LEMMA ReportedAt ==
  ASSUME TypeOK, OneRecordEach, cmd # None, NEW outcome
  PROVE  /\ \A p \in cmd.batch :
              Reported(outcome)[cmd.id[p]]
                = [reports[cmd.id[p]] EXCEPT
                     ![cmd.number[p]] = Report(p, outcome[p])]
         /\ \A s \in SourceIds : ~ (\E p \in cmd.batch : Owns(p, s)) =>
              Reported(outcome)[s] = reports[s]
<1>1. ASSUME NEW s \in SourceIds PROVE reports[s] \in [Numbers -> ReportType \cup {None}]
  BY DEF TypeOK
<1>2. ASSUME NEW p \in cmd.batch
      PROVE  Reported(outcome)[cmd.id[p]]
               = [reports[cmd.id[p]] EXCEPT
                    ![cmd.number[p]] = Report(p, outcome[p])]
  <2>1. cmd.id[p] \in SourceIds /\ cmd.number[p] \in Numbers
    BY CommandFields
  <2>2. \A q \in cmd.batch : Owns(q, cmd.id[p]) <=> q = p
    BY DEF OneRecordEach, Owns
  <2>3. \A n \in Numbers :
           (\E q \in cmd.batch : Owns(q, cmd.id[p]) /\ cmd.number[q] = n)
             <=> n = cmd.number[p]
    BY <2>2
  <2>4. ASSUME NEW n \in Numbers, n = cmd.number[p]
        PROVE  (CHOOSE q \in cmd.batch :
                   Owns(q, cmd.id[p]) /\ cmd.number[q] = n) = p
    BY <2>2, <2>4
  <2>5. \A n \in Numbers :
           Reported(outcome)[cmd.id[p]][n]
             = IF n = cmd.number[p] THEN Report(p, outcome[p])
               ELSE reports[cmd.id[p]][n]
    <3> SUFFICES ASSUME NEW n \in Numbers
                 PROVE  Reported(outcome)[cmd.id[p]][n]
                          = IF n = cmd.number[p] THEN Report(p, outcome[p])
                            ELSE reports[cmd.id[p]][n]
      OBVIOUS
    <3> DEFINE q0 == CHOOSE q \in cmd.batch :
                        Owns(q, cmd.id[p]) /\ cmd.number[q] = n
    <3>1. Reported(outcome)[cmd.id[p]][n]
            = IF \E q \in cmd.batch : Owns(q, cmd.id[p]) /\ cmd.number[q] = n
              THEN Report(q0, outcome[q0])
              ELSE reports[cmd.id[p]][n]
      BY <2>1 DEF Reported
    <3>2. n = cmd.number[p] => q0 = p
      BY <2>4
    <3> HIDE DEF q0
    <3> QED BY <2>3, <3>1, <3>2
  <2>6. /\ DOMAIN (Reported(outcome)[cmd.id[p]]) = Numbers
        /\ Reported(outcome)[cmd.id[p]]
             = [n \in Numbers |-> Reported(outcome)[cmd.id[p]][n]]
    BY <2>1 DEF Reported
  <2> QED BY <1>1, <2>1, <2>5, <2>6
<1>3. ASSUME NEW s \in SourceIds, ~ (\E p \in cmd.batch : Owns(p, s))
      PROVE  Reported(outcome)[s] = reports[s]
  BY <1>1, <1>3 DEF Reported
<1> QED BY <1>2, <1>3

\* A record whose installed success gets its report agrees.
LEMMA SuccessAgrees ==
  ASSUME TypeOK, cmd # None, NEW p \in cmd.batch, Installed(p),
         NEW s, s = cmd.id[p], NEW n, n = cmd.number[p],
         Used(s) = {m \in Numbers : m < n},
         reports'[s] = [reports[s] EXCEPT ![n] = Report(p, "success")],
         UNCHANGED <<sources, snapshot, summary>>
  PROVE  RecordAgrees(s)'
<1>1. s \in SourceIds /\ n \in Numbers /\ n \in Nat
      /\ reports[s] \in [Numbers -> ReportType \cup {None}]
  BY CommandFields, MaxAttemptsAssumption DEF TypeOK, Numbers
<1>2. Report(p, "success") \in ReportType /\ Report(p, "success") # None
  <2>1. Report(p, "success") \in ReportType
    BY CommandFields DEF Report, ReportType
  <2> QED BY <2>1, NoneAssumption
<1>3. /\ reports'[s][n] = Report(p, "success")
      /\ Report(p, "success").outcome = "success"
      /\ Report(p, "success").revision = cmd.revision[p]
      /\ Report(p, "success").contract = cmd.contract[p]
  BY <1>1 DEF Report
<1>4. /\ snapshot'[s] = n /\ summary'[s] = [ready |-> TRUE, current |-> n]
      /\ s \in DOMAIN sources'
      /\ sources'[s].revision = cmd.revision[p]
      /\ sources'[s].contract = cmd.contract[p]
      /\ sources'[s].facts = n
  BY DEF Installed
<1>5. Used(s) = {m \in Numbers : m < n}
      /\ reports'[s] = [reports[s] EXCEPT ![n] = Report(p, "success")]
  OBVIOUS
<1>6. Used(s)' = Used(s) \cup {n}
  BY <1>1, <1>2, <1>5 DEF Used
<1>7. n \in Successes(s)'
  BY <1>3, <1>6 DEF Successes
<1>8. \A m \in Successes(s)' : m <= n
  <2>1. \A m \in Numbers : m \in Nat
    BY MaxAttemptsAssumption DEF Numbers
  <2>2. Successes(s)' \subseteq Numbers /\ \A m \in Successes(s)' : m < n \/ m = n
    BY <1>1, <1>5, <1>6 DEF Successes
  <2> TAKE m \in Successes(s)'
  <2>3. m \in Nat /\ (m < n \/ m = n)
    BY <2>1, <2>2
  <2> QED BY <1>1, <2>3
<1>9. Newest(Successes(s)') = n
  <2>1. Successes(s)' \in SUBSET Numbers
    BY <1>1, <1>5, <1>6 DEF Successes
  <2>2. Newest(Successes(s)') \in Successes(s)' /\ n <= Newest(Successes(s)')
    BY <1>7, <2>1, NewestIs
  <2>3. Newest(Successes(s)') \in Nat
    BY <2>1, <2>2, MaxAttemptsAssumption DEF Numbers
  <2> QED BY <1>1, <1>8, <2>2, <2>3
<1>10. BuiltSummary(s)' = [ready |-> TRUE, current |-> n]
  BY <1>7, <1>9 DEF BuiltSummary
<1>11. \A k \in Used(s)' : \A m \in 1 .. k : m \in Used(s)'
  <2> SUFFICES ASSUME NEW k \in Used(s)', NEW m \in 1 .. k
               PROVE  m \in Used(s)'
    OBVIOUS
  <2>1. k \in Numbers /\ k <= n
    BY <1>1, <1>5, <1>6 DEF Numbers
  <2>2. m \in Numbers /\ m <= n
    BY <1>1, <2>1, MaxAttemptsAssumption DEF Numbers
  <2>3. m \in Nat
    BY <2>2, MaxAttemptsAssumption DEF Numbers
  <2> QED BY <1>1, <1>5, <1>6, <2>2, <2>3
<1>12. Readable(s)'
  BY <1>4, <1>10, <1>11 DEF Readable
<1>13. ReadyRowsAgree(s)'
  BY <1>3, <1>4, <1>10, <1>12 DEF ReadyRowsAgree
<1>14. summary'[s] # None /\ summary'[s] = BuiltSummary(s)'
  <2>1. summary'[s] \in SummaryType
    BY <1>1, <1>4, MaxAttemptsAssumption DEF SummaryType, Numbers
  <2> QED BY <1>4, <1>10, <2>1, NoneAssumption
<1> QED BY <1>4, <1>7, <1>12, <1>13, <1>14 DEF RecordAgrees

\* A record that gets the report of a failure or of an interruption agrees.
LEMMA OtherAgrees ==
  ASSUME TypeOK, cmd # None, NEW p \in cmd.batch,
         NEW s, s = cmd.id[p], NEW n, n = cmd.number[p], RecordAgrees(s),
         Used(s) = {m \in Numbers : m < n},
         NEW outcome \in {"failure", "interrupted"},
         reports'[s] = [reports[s] EXCEPT ![n] = Report(p, outcome)],
         UNCHANGED <<sources, snapshot, summary>>
  PROVE  RecordAgrees(s)'
<1>1. s \in SourceIds /\ n \in Numbers
  BY CommandFields
<1>2. Report(p, outcome) \in ReportType /\ Report(p, outcome).outcome # "success"
  BY CommandFields DEF Report, ReportType
<1> QED BY <1>1, <1>2, FailureKeeps

LEMMA CloseStep ==
  ASSUME Sound, Close
  PROVE  Sound'
<1>1. /\ TypeOK /\ OneRecordEach /\ cmd # None /\ cmd.phase = "won" /\ Won
      /\ reports' = Reported(Win) /\ cmd' = None
      /\ sources' = sources /\ snapshot' = snapshot /\ summary' = summary
  BY DEF Sound, Close, files, Won
<1>2. TypeOK'
  BY <1>1, ReportedType, OutcomesType DEF TypeOK
<1>3. OneSourcePerPlace'
  BY <1>1 DEF Sound, OneSourcePerPlace
<1>4. OneRecordEach' /\ PlanHeld' /\ NumbersReserved'
  BY <1>1 DEF OneRecordEach, PlanHeld, NumbersReserved
<1>5. ASSUME NEW s \in SourceIds, NEW p \in cmd.batch, Owns(p, s)
      PROVE  RecordAgrees(s)'
  <2>1. s = cmd.id[p] /\ Used(s) = {m \in Numbers : m < cmd.number[p]}
    BY <1>1, <1>5 DEF Sound, NumbersReserved, Owns
  <2>2. reports'[s] = [reports[s] EXCEPT ![cmd.number[p]] = Report(p, Win[p])]
    BY <1>1, <2>1, ReportedAt
  <2>3. CASE p \in cmd.failed
    <3>1. ~ Awaits(s)
      <4>1. Parsed \subseteq cmd.batch /\ p \notin Parsed
        BY <2>3 DEF Parsed
      <4> QED BY <1>1, <2>1, <4>1 DEF Awaits, Owns, OneRecordEach
    <3>2. RecordAgrees(s)
      BY <1>1, <3>1 DEF Sound, Agreement
    <3>3. Win[p] \in {"failure", "interrupted"}
      BY <2>3 DEF Win
    <3>4. UNCHANGED <<sources, snapshot, summary>>
      BY <1>1
    <3> DEFINE outcome == Win[p]
               n == cmd.number[p]
    <3>5. /\ Used(s) = {m \in Numbers : m < n}
          /\ reports'[s] = [reports[s] EXCEPT ![n] = Report(p, outcome)]
          /\ outcome \in {"failure", "interrupted"} /\ n = cmd.number[p]
      BY <2>1, <2>2, <3>3
    <3>6. TypeOK /\ cmd # None /\ s = cmd.id[p]
      BY <1>1, <2>1
    <3> HIDE DEF outcome, n
    <3> QED BY <3>2, <3>4, <3>5, <3>6, OtherAgrees
  <2>4. CASE p \notin cmd.failed
    <3>1. Installed(p)
      BY <1>1, <2>4 DEF Sound, Agreement, Parsed
    <3>2. Win[p] = "success"
      BY <2>4 DEF Win
    <3> QED BY <1>1, <2>1, <2>2, <3>1, <3>2, SuccessAgrees
  <2> QED BY <2>3, <2>4
<1>6. ASSUME NEW s \in SourceIds, ~ (\E p \in cmd.batch : Owns(p, s))
      PROVE  RecordAgrees(s)'
  <2>1. ~ Awaits(s)
    BY <1>6 DEF Awaits, Parsed
  <2>2. RecordAgrees(s) /\ reports'[s] = reports[s]
    BY <1>1, <1>6, <2>1, ReportedAt DEF Sound, Agreement
  <2> QED BY <1>1, <2>2, Unchanged
<1>7. Agreement'
  BY <1>1, <1>5, <1>6 DEF Agreement, Won
<1> QED BY <1>2, <1>3, <1>4, <1>7 DEF Sound

LEMMA LoseStep ==
  ASSUME Sound, Lose
  PROVE  Sound'
<1>1. /\ TypeOK /\ OneRecordEach /\ cmd # None /\ cmd.phase # "won"
      /\ reports' = Reported(Loss) /\ cmd' = None
      /\ sources' = sources /\ snapshot' = snapshot /\ summary' = summary
  BY DEF Sound, Lose, files
<1>2. TypeOK'
  BY <1>1, ReportedType, OutcomesType DEF TypeOK
<1>3. OneSourcePerPlace'
  BY <1>1 DEF Sound, OneSourcePerPlace
<1>4. OneRecordEach' /\ PlanHeld' /\ NumbersReserved'
  BY <1>1 DEF OneRecordEach, PlanHeld, NumbersReserved
<1>5. \A s \in SourceIds : RecordAgrees(s)
  BY <1>1 DEF Sound, Agreement, Awaits, Won
<1>6. ASSUME NEW s \in SourceIds, NEW p \in cmd.batch, Owns(p, s)
      PROVE  RecordAgrees(s)'
  <2>1. s = cmd.id[p] /\ Used(s) = {m \in Numbers : m < cmd.number[p]}
    BY <1>1, <1>6 DEF Sound, NumbersReserved, Owns
  <2>2. reports'[s] = [reports[s] EXCEPT ![cmd.number[p]] = Report(p, Loss[p])]
    BY <1>1, <2>1, ReportedAt
  <2>3. Loss[p] \in {"failure", "interrupted"}
    BY DEF Loss
  <2> QED BY <1>1, <1>5, <2>1, <2>2, <2>3, OtherAgrees
<1>7. ASSUME NEW s \in SourceIds, ~ (\E p \in cmd.batch : Owns(p, s))
      PROVE  RecordAgrees(s)'
  <2>1. reports'[s] = reports[s]
    BY <1>1, <1>7, ReportedAt
  <2> QED BY <1>1, <1>5, <2>1, Unchanged
<1>8. Agreement'
  BY <1>1, <1>6, <1>7 DEF Agreement, Won
<1> QED BY <1>2, <1>3, <1>4, <1>8 DEF Sound

LEMMA RepairStep ==
  ASSUME Sound, RepairSummaries
  PROVE  Sound'
<1>1. /\ TypeOK /\ cmd = None /\ cmd' = None
      /\ sources' = sources /\ reports' = reports /\ snapshot' = snapshot
      /\ summary' = [s \in SourceIds |->
                       IF Used(s) = {} THEN summary[s] ELSE BuiltSummary(s)]
  BY DEF Sound, RepairSummaries
<1>2. summary' \in [SourceIds -> SummaryType \cup {None}]
  BY <1>1, BuiltIs DEF TypeOK
<1>3. TypeOK'
  BY <1>1, <1>2 DEF TypeOK
<1>4. OneSourcePerPlace'
  BY <1>1 DEF Sound, OneSourcePerPlace
<1>5. OneRecordEach' /\ PlanHeld' /\ NumbersReserved'
  BY <1>1 DEF OneRecordEach, PlanHeld, NumbersReserved
<1>6. ASSUME NEW s \in SourceIds PROVE RecordAgrees(s)'
  <2>1. RecordAgrees(s)
    BY <1>1 DEF Sound, Agreement, Awaits, Won
  <2>2. summary'[s] = summary[s] \/ summary'[s] = BuiltSummary(s)
    BY <1>1
  <2> QED BY <1>1, <2>1, <2>2, Unchanged
<1>7. Agreement'
  BY <1>1, <1>6 DEF Agreement, Won
<1> QED BY <1>3, <1>4, <1>5, <1>7 DEF Sound

LEMMA SoundStep == Sound /\ [Next]_vars => Sound'
<1> SUFFICES ASSUME Sound, [Next]_vars PROVE Sound'
  OBVIOUS
<1>1. ASSUME NEW action \in Actions, NEW batch \in SUBSET Places,
             NEW revision \in [batch -> Revisions],
             NEW contract \in [batch -> Contracts],
             Reserve(action, batch, revision, contract)
      PROVE  Sound'
  BY <1>1, ReserveStep
<1>2. ASSUME NEW failed \in SUBSET Places, Parse(failed) PROVE Sound'
  BY <1>2, ParseStep
<1>3. CASE Publish
  BY <1>3, PublishStep
<1>4. CASE Reject
  BY <1>4, RejectStep
<1>5. CASE Commit
  BY <1>5, CommitStep
<1>6. CASE Close
  BY <1>6, CloseStep
<1>7. CASE Lose
  BY <1>7, LoseStep
<1>8. CASE RepairSummaries
  BY <1>8, RepairStep
<1>9. CASE UNCHANGED vars
  <2>1. /\ UNCHANGED <<sources, reports, files>> /\ cmd' = cmd
        /\ sources' = sources /\ reports' = reports
        /\ snapshot' = snapshot /\ summary' = summary
    BY <1>9 DEF vars, files
  <2>2. Parsed' = Parsed /\ (Won' <=> Won)
          /\ \A p, s : Owns(p, s)' <=> Owns(p, s)
    BY <2>1 DEF Parsed, Won, Owns
  <2>3. TypeOK' /\ OneSourcePerPlace' /\ OneRecordEach'
    BY <2>1 DEF Sound, TypeOK, OneSourcePerPlace, OneRecordEach
  <2>4. PlanHeld'
    BY <2>1, <2>2 DEF Sound, PlanHeld
  <2>5. NumbersReserved'
    BY <2>1 DEF Sound, NumbersReserved, Used
  <2>6. \A p : Installed(p)' <=> Installed(p)
    BY <2>1 DEF Installed
  <2>7. Agreement'
    BY <2>1, <2>2, <2>6, DataUnchanged DEF Sound, Agreement, Awaits
  <2> QED BY <2>3, <2>4, <2>5, <2>7 DEF Sound
<1> QED
  BY <1>1, <1>2, <1>3, <1>4, <1>5, <1>6, <1>7, <1>8, <1>9 DEF Next

\* The inductive invariant holds of every behaviour of the import command.
THEOREM Soundness == Spec => []Sound
<1>1. Init => Sound
  BY SoundInit
<1>2. Sound /\ [Next]_vars => Sound'
  BY SoundStep
<1> QED BY <1>1, <1>2, PTL DEF Spec

\* Every variable keeps its type: in particular no attempt number is reserved
\* beyond the largest.  (next_attempt_number)
THEOREM TypeCorrect == Spec => []TypeOK
<1>1. Sound => TypeOK
  BY DEF Sound
<1> QED BY <1>1, Soundness, PTL

\* Index, histories and snapshots agree whenever no commit waits for its
\* reports, for any files, any batches and any number of stops.
\* (_load_ready_source_rows, _audit_durable_authority_agreement)
THEOREM RecordsAgree == Spec => []DurableAgreement
<1>1. Sound => DurableAgreement
  <2> SUFFICES ASSUME Sound, cmd = None \/ cmd.phase # "won"
               PROVE  /\ \A s \in SourceIds : Readable(s)
                      /\ DOMAIN sources = {s \in SourceIds : Successes(s) # {}}
                      /\ \A s \in DOMAIN sources : ReadyRowsAgree(s)
    BY DEF DurableAgreement
  <2>1. \A s \in SourceIds : RecordAgrees(s)
    BY DEF Sound, Agreement, Awaits, Won
  <2>2. DOMAIN sources \subseteq SourceIds
    BY DEF Sound, TypeOK
  <2> QED BY <2>1, <2>2 DEF RecordAgrees
<1> QED BY <1>1, Soundness, PTL

\* Every summary is the one its record implies between two commands.
\* (build_summary)
THEOREM SummariesAgree == Spec => []SummaryAgrees
<1>1. Sound => SummaryAgrees
  BY DEF Sound, SummaryAgrees, Agreement, Awaits, Won, RecordAgrees
<1> QED BY <1>1, Soundness, PTL

\* However files are replaced, moved and imported, a place has one source.
\* (resolve_sources)
THEOREM PlacesExclusive == Spec => []OneSourcePerPlace
<1>1. Sound => OneSourcePerPlace
  BY DEF Sound
<1> QED BY <1>1, Soundness, PTL

\* No two files of a batch are reserved in one record.  (resolve_sources)
THEOREM RecordsExclusive == Spec => []OneRecordEach
<1>1. Sound => OneRecordEach
  BY DEF Sound
<1> QED BY <1>1, Soundness, PTL

\* All durable facts agree, for any files, any batches and any number of stops:
\* index, histories and snapshots, summaries, places and reserved records.
\* (import_workspace)
THEOREM FactsAgree == Spec => []DurableFactsAgree
<1>1. DurableAgreement /\ SummaryAgrees /\ OneSourcePerPlace /\ OneRecordEach
        => DurableFactsAgree
  BY DEF DurableFactsAgree
<1> QED BY <1>1, RecordsAgree, SummariesAgree, PlacesExclusive, RecordsExclusive, PTL

\* What remains of a batch after parsing never resolves to other records.
\* (import_workspace, durable_state_conflict)
THEOREM PlansStand == Spec => []PlanStands
<1>1. Sound => PlanStands
  BY PartStands DEF PlanStands
<1> QED BY <1>1, Soundness, PTL

\* No report is ever replaced.  (next_attempt_number)
THEOREM HistoriesKept == Spec => HistoryKept
<1>1. Sound /\ [Next]_vars =>
        [\A s \in SourceIds, n \in Numbers :
            reports[s][n] # None => reports'[s][n] = reports[s][n]]_vars
  <2> SUFFICES ASSUME Sound, [Next]_vars, NEW s \in SourceIds, NEW n \in Numbers,
                      reports[s][n] # None
               PROVE  reports'[s][n] = reports[s][n]
    OBVIOUS
  <2>1. ASSUME NEW outcome, cmd # None, reports' = Reported(outcome)
        PROVE  reports'[s][n] = reports[s][n]
    <3>1. TypeOK /\ OneRecordEach /\ n \in Used(s)
            /\ reports[s] \in [Numbers -> ReportType \cup {None}]
      BY DEF Sound, Used, TypeOK
    <3>2. ASSUME NEW p \in cmd.batch, Owns(p, s)
          PROVE  reports'[s][n] = reports[s][n]
      <4>1. cmd.id[p] = s /\ Used(s) = {m \in Numbers : m < cmd.number[p]}
        BY <2>1, <3>2 DEF Sound, NumbersReserved, Owns
      <4>2. n # cmd.number[p] /\ cmd.number[p] \in Numbers
        BY <2>1, <3>1, <4>1, CommandFields, MaxAttemptsAssumption DEF Numbers
      <4>3. reports'[s]
              = [reports[s] EXCEPT ![cmd.number[p]] = Report(p, outcome[p])]
        BY <2>1, <3>1, <4>1, ReportedAt
      <4> QED BY <3>1, <4>2, <4>3
    <3>3. CASE ~ (\E p \in cmd.batch : Owns(p, s))
      BY <2>1, <3>1, <3>3, ReportedAt
    <3> QED BY <3>2, <3>3
  <2>2. CASE Close
    BY <2>1, <2>2 DEF Close
  <2>3. CASE Lose
    BY <2>1, <2>3 DEF Lose
  <2>4. CASE reports' = reports
    BY <2>4
  <2>5. Close \/ Lose \/ reports' = reports
    BY DEF Next, Reserve, Parse, Publish, Reject, Commit, RepairSummaries, vars
  <2> QED BY <2>2, <2>3, <2>4, <2>5
<1> QED BY <1>1, Soundness, PTL DEF Spec, HistoryKept

\* A source moves only together with its bytes.  (resolve_sources)
THEOREM MovesKeepBytes == Spec => MovesWithItsBytes
<1> DEFINE Moves ==
      \A s \in DOMAIN sources :
         /\ s \in DOMAIN sources'
         /\ sources'[s].place # sources[s].place
              => sources'[s].revision = sources[s].revision
<1>1. Sound /\ [Next]_vars => Moves
  <2> SUFFICES ASSUME Sound, [Next]_vars PROVE Moves
    OBVIOUS
  <2>1. CASE sources' = sources
    BY <2>1
  <2>2. CASE cmd # None /\ cmd.phase = "publishing" /\ cmd.kind = "generation"
             /\ sources' = NextSources
    <3>1. /\ TypeOK /\ OneRecordEach
          /\ Accepts(sources, Parsed, cmd.revision, cmd.action)
          /\ cmd.action = "import" =>
                \A p \in Parsed : cmd.id[p] \notin DOMAIN sources
      BY <2>2 DEF Sound, PlanHeld
    <3> SUFFICES ASSUME NEW s \in DOMAIN sources
                 PROVE  /\ s \in DOMAIN sources'
                        /\ sources'[s].place # sources[s].place
                             => sources'[s].revision = sources[s].revision
      OBVIOUS
    <3>2. ASSUME NEW p \in Parsed, Owns(p, s)
          PROVE  /\ s \in DOMAIN sources'
                 /\ sources'[s].place # sources[s].place
                      => sources'[s].revision = sources[s].revision
      <4>1. cmd.id[p] = s
        BY <3>2 DEF Owns
      <4>2. s \in DOMAIN sources'
              /\ sources'[s] = [place |-> p, revision |-> cmd.revision[p],
                                contract |-> cmd.contract[p],
                                facts |-> cmd.number[p]]
        BY <2>2, <3>1, <4>1, NextAt
      <4>3. s = Assigned(sources, Parsed, cmd.revision, cmd.action, p)
        BY <2>2, <3>1, <4>1, PartStands
      <4>4. \/ s \in Exact(sources, p)
            \/ s \in SameBytes(sources, Parsed, cmd.revision, p)
        BY <3>1, <4>1, <4>3, AssignedIs
      <4> QED BY <4>2, <4>4 DEF Exact, SameBytes
    <3>3. CASE ~ (\E p \in Parsed : Owns(p, s))
      <4>1. s \in SourceIds
        BY <3>1 DEF TypeOK
      <4> QED BY <2>2, <3>1, <3>3, <4>1, NextAt
    <3> QED BY <3>2, <3>3
  <2>3. sources' = sources \/ (cmd # None /\ cmd.phase = "publishing"
          /\ cmd.kind = "generation" /\ sources' = NextSources)
    BY DEF Next, Reserve, Parse, Publish, Reject, Commit, Close, Lose,
           RepairSummaries, vars
  <2> QED BY <2>1, <2>2, <2>3
<1>2. Sound /\ [Next]_vars => [Moves]_vars
  BY <1>1
<1> QED BY <1>2, Soundness, PTL DEF Spec, MovesWithItsBytes

\* No attempt report is ever replaced, and a source moves only with its bytes.
THEOREM RecordsAlwaysStand == Spec => RecordsStand
BY HistoriesKept, MovesKeepBytes DEF RecordsStand

-------------------------------------------------------------------------------
(***************************************************************************)
(* Refinement: an import is one generation of module Generation.           *)
(***************************************************************************)

Reports  == SourceIds \X Numbers
Contents == ({"rows"} \X (0 .. MaxAttempts))
              \cup ({"facts"} \X (SummaryType \cup {None}))

\* The attempts that have the report of a success; AbsGen counts them.
Succeeded == {a \in Reports : AbsReports[a] = "success"}

LEMMA HoldsType ==
  ASSUME NEW shot \in [SourceIds -> 0 .. MaxAttempts],
         NEW sums \in [SourceIds -> SummaryType \cup {None}]
  PROVE  Holds(shot, sums) \in [FileOf -> Contents]
<1>1. ASSUME NEW f \in FileOf
      PROVE  (IF f[1] = "snapshot" THEN <<"rows", shot[f[2]]>>
              ELSE <<"facts", sums[f[2]]>>) \in Contents
  <2>1. f[2] \in SourceIds
    BY DEF FileOf
  <2>2. shot[f[2]] \in 0 .. MaxAttempts /\ sums[f[2]] \in SummaryType \cup {None}
    BY <2>1
  <2> QED BY <2>2 DEF Contents
<1> QED BY <1>1 DEF Holds

\* The place of a reserved attempt in the plan: its outcome, and only its own.
LEMMA ReservedAt ==
  ASSUME TypeOK, OneRecordEach, cmd # None,
         NEW outcome \in [cmd.batch -> {"success", "failure", "interrupted"}]
  PROVE  /\ Reserved(outcome) \in [Reports -> {"success", "failure", "interrupted"}]
         /\ \A p \in cmd.batch :
               /\ <<cmd.id[p], cmd.number[p]>> \in Reports
               /\ Reserved(outcome)[<<cmd.id[p], cmd.number[p]>>] = outcome[p]
<1>1. ASSUME NEW a \in Reports, \E p \in cmd.batch : Owns(p, a[1]) /\ cmd.number[p] = a[2]
      PROVE  (CHOOSE p \in cmd.batch : Owns(p, a[1]) /\ cmd.number[p] = a[2]) \in cmd.batch
  BY <1>1
<1>2. Reserved(outcome) \in [Reports -> {"success", "failure", "interrupted"}]
  BY <1>1 DEF Reserved, Reports
<1>3. ASSUME NEW p \in cmd.batch
      PROVE  /\ <<cmd.id[p], cmd.number[p]>> \in Reports
             /\ Reserved(outcome)[<<cmd.id[p], cmd.number[p]>>] = outcome[p]
  <2> DEFINE a == <<cmd.id[p], cmd.number[p]>>
  <2>1. a \in Reports /\ a[1] = cmd.id[p] /\ a[2] = cmd.number[p]
    BY CommandFields DEF Reports
  <2>2. \A q \in cmd.batch : (Owns(q, a[1]) /\ cmd.number[q] = a[2]) <=> q = p
    BY <2>1 DEF OneRecordEach, Owns
  <2>3. (CHOOSE q \in cmd.batch : Owns(q, a[1]) /\ cmd.number[q] = a[2]) = p
    BY <2>2
  <2>4. \E q \in cmd.batch : Owns(q, a[1]) /\ cmd.number[q] = a[2]
    BY <2>2
  <2> HIDE DEF a
  <2> QED BY <2>1, <2>3, <2>4 DEF Reserved, Reports, a
<1> QED BY <1>2, <1>3

\* What a command intends is a plan, whatever it has come to.
LEMMA PlanSound ==
  Sound => AbsPlan \in Abs!PlanType /\ (cmd # None => Abs!IsPlan(AbsPlan))
<1> SUFFICES ASSUME Sound
             PROVE  AbsPlan \in Abs!PlanType /\ (cmd # None => Abs!IsPlan(AbsPlan))
  OBVIOUS
<1>1. TypeOK /\ OneRecordEach
  BY DEF Sound
<1>2. AbsContent \in [FileOf -> Contents]
  BY <1>1, HoldsType DEF AbsContent, TypeOK
<1>3. CASE cmd = None
  BY <1>2, <1>3 DEF AbsPlan, Abs!PlanType, Abs!Docs, Contents
<1>4. CASE cmd # None
  <2> DEFINE lost == [p \in cmd.batch |-> IF p \in cmd.failed
                                          THEN "failure" ELSE "interrupted"]
             win  == IF cmd.phase \in {"publishing", "won"} THEN Win ELSE Loss
             lose == IF cmd.phase = "won" THEN lost ELSE Loss
             new  == IF cmd.phase # "publishing" THEN AbsContent
                     ELSE Holds(IF cmd.kind = "generation" THEN NextSnapshot ELSE snapshot,
                                NextSummary)
             attempts == {<<cmd.id[p], cmd.number[p]>> : p \in cmd.batch}
  <2>1. AbsPlan = [new |-> new, attempts |-> attempts,
                   win |-> Reserved(win), lose |-> Reserved(lose)]
    BY <1>4 DEF AbsPlan
  <2>2. lost \in [cmd.batch -> {"success", "failure", "interrupted"}]
    OBVIOUS
  <2>3. /\ win \in [cmd.batch -> {"success", "failure", "interrupted"}]
        /\ lose \in [cmd.batch -> {"success", "failure", "interrupted"}]
    BY <1>1, <1>4, <2>2, OutcomesType
  <2>4. \A p \in cmd.batch : <<win[p], lose[p]>> \in Abs!Endings
    BY DEF Win, Loss, Abs!Endings
  <2>5. new \in [FileOf -> Contents]
    <3>1. snapshot \in [SourceIds -> 0 .. MaxAttempts]
      BY <1>1 DEF TypeOK
    <3> QED BY <1>1, <1>2, <1>4, <3>1, InstalledType, HoldsType
  <2> HIDE DEF win, lose, new
  <2>6. /\ Reserved(win) \in [Reports -> {"success", "failure", "interrupted"}]
        /\ Reserved(lose) \in [Reports -> {"success", "failure", "interrupted"}]
        /\ attempts \in SUBSET Reports
    BY <1>1, <1>4, <2>3, ReservedAt
  <2>7. AbsPlan \in Abs!PlanType
    BY <2>1, <2>5, <2>6 DEF Abs!PlanType, Abs!Docs, Contents, Reports
  <2>8. \A a \in attempts : <<Reserved(win)[a], Reserved(lose)[a]>> \in Abs!Endings
    BY <1>1, <1>4, <2>3, <2>4, ReservedAt
  <2> HIDE DEF attempts
  <2> QED BY <1>4, <2>1, <2>7, <2>8 DEF Abs!IsPlan
<1> QED BY <1>3, <1>4

LEMMA PlanSoundNext ==
  Sound' => (AbsPlan \in Abs!PlanType /\ (cmd # None => Abs!IsPlan(AbsPlan)))'
BY PlanSound, PTL

\* The reports of a batch appear together, and nothing else changes.
LEMMA ReportsAppear ==
  ASSUME TypeOK, OneRecordEach, cmd # None,
         NEW outcome \in [cmd.batch -> {"success", "failure", "interrupted"}],
         reports' = Reported(outcome)
  PROVE  AbsReports' = [a \in Reports |->
            IF a \notin {<<cmd.id[p], cmd.number[p]>> : p \in cmd.batch}
            THEN AbsReports[a] ELSE Reserved(outcome)[a]]
<1> DEFINE attempts == {<<cmd.id[p], cmd.number[p]>> : p \in cmd.batch}
<1>1. ASSUME NEW a \in Reports
      PROVE  AbsReports'[a] = IF a \notin attempts THEN AbsReports[a]
                              ELSE Reserved(outcome)[a]
  <2>1. a[1] \in SourceIds /\ a[2] \in Numbers /\ a = <<a[1], a[2]>>
    BY DEF Reports
  <2>2. AbsReports'[a] = IF reports'[a[1]][a[2]] = None THEN "none"
                         ELSE reports'[a[1]][a[2]].outcome
    BY DEF AbsReports, Reports
  <2>3. AbsReports[a] = IF reports[a[1]][a[2]] = None THEN "none"
                        ELSE reports[a[1]][a[2]].outcome
    BY DEF AbsReports, Reports
  <2>4. CASE a \in attempts
    <3>1. PICK p \in cmd.batch : a = <<cmd.id[p], cmd.number[p]>>
      BY <2>4
    <3>2. reports[a[1]] \in [Numbers -> ReportType \cup {None}]
      BY <2>1 DEF TypeOK
    <3>3. reports'[a[1]][a[2]] = Report(p, outcome[p])
      <4>1. a[1] = cmd.id[p] /\ a[2] = cmd.number[p]
        BY <3>1
      <4>2. reports'[cmd.id[p]]
              = [reports[cmd.id[p]] EXCEPT ![cmd.number[p]] = Report(p, outcome[p])]
        BY ReportedAt
      <4> QED BY <2>1, <3>2, <4>1, <4>2
    <3>4. Report(p, outcome[p]) \in ReportType
            /\ Report(p, outcome[p]).outcome = outcome[p]
      BY CommandFields DEF Report, ReportType
    <3>5. Report(p, outcome[p]) # None
      BY <3>4, NoneAssumption
    <3> QED BY <2>2, <2>4, <3>1, <3>3, <3>4, <3>5, ReservedAt
  <2>5. CASE a \notin attempts
    <3>1. ~ \E p \in cmd.batch : Owns(p, a[1]) /\ cmd.number[p] = a[2]
      BY <2>1, <2>5 DEF Owns
    <3>2. reports'[a[1]][a[2]] = reports[a[1]][a[2]]
      BY <2>1, <3>1 DEF Reported
    <3> QED BY <2>2, <2>3, <2>5, <3>2
  <2> QED BY <2>4, <2>5
<1>2. AbsReports' = [a \in Reports |-> AbsReports'[a]]
  BY DEF AbsReports, Reports
<1> HIDE DEF attempts
<1> QED BY <1>1, <1>2 DEF attempts

LEMMA Counted ==
  ASSUME TypeOK
  PROVE  /\ IsFiniteSet(Succeeded) /\ Cardinality(Succeeded) \in Nat
         /\ cmd # None => IsFiniteSet(Parsed) /\ Cardinality(Parsed) \in Nat
<1>1. SourceIds = Places
  BY DEF SourceIds, SourceId
<1>2. IsFiniteSet(Numbers)
  BY MaxAttemptsAssumption, FS_Interval DEF Numbers
<1>3. IsFiniteSet(Reports)
  BY <1>1, <1>2, PlacesAssumption, FS_Product DEF Reports
<1>4. IsFiniteSet(Succeeded)
  BY <1>3, FS_Subset DEF Succeeded
<1>5. cmd # None => IsFiniteSet(Parsed)
  BY CommandFields, PlacesAssumption, FS_Subset
<1> QED BY <1>4, <1>5, FS_CardinalityType

LEMMA AbsInit == Init => Abs!Init
<1> SUFFICES ASSUME Init PROVE Abs!Init
  OBVIOUS
<1>1. TypeOK /\ Sound
  BY TypeInit, SoundInit
<1>2. cmd = None /\ \A s \in SourceIds, n \in Numbers : reports[s][n] = None
  BY DEF Init
<1>3. AbsReports = [a \in Reports |-> "none"]
  <2>1. \A a \in Reports : reports[a[1]][a[2]] = None
    BY <1>2 DEF Reports
  <2> QED BY <2>1 DEF AbsReports, Reports
<1>4. AbsGen \in Nat
  <2>1. AbsGen = Cardinality(Succeeded) + 0
    BY <1>2 DEF AbsGen, Succeeded, Reports
  <2> QED BY <1>1, <2>1, Counted
<1>5. AbsContent \in [FileOf -> Contents]
  BY <1>1, HoldsType DEF AbsContent, TypeOK
<1>6. AbsOpen = "none" /\ AbsPlan \in Abs!PlanType
  BY <1>1, <1>2, PlanSound DEF AbsOpen
<1> QED BY <1>3, <1>4, <1>5, <1>6 DEF Abs!Init, Contents, Reports

\* A command that is carried on before its commit begins or revises its plan.
LEMMA CarriedOnAbs ==
  ASSUME Sound, Sound', UNCHANGED <<sources, reports, files>>,
         cmd # None => cmd.phase # "won", cmd' # None, cmd'.phase # "won",
         cmd # None => /\ cmd'.batch = cmd.batch
                       /\ cmd'.id = cmd.id /\ cmd'.number = cmd.number
  PROVE  Abs!Begin \/ Abs!Revise
<1>1. /\ AbsContent' = AbsContent /\ AbsReports' = AbsReports
      /\ AbsOpen' = "open"
  BY DEF files, AbsContent, AbsReports, AbsOpen
<1>2. AbsGen' = AbsGen
  BY <1>1 DEF AbsGen
<1>3. Abs!IsPlan(AbsPlan')
  BY PlanSoundNext
<1>4. AbsPlan'.attempts = {<<cmd'.id[p], cmd'.number[p]>> : p \in cmd'.batch}
  BY DEF AbsPlan
<1>5. CASE cmd = None
  <2>1. ASSUME NEW p \in cmd'.batch
        PROVE  AbsReports[<<cmd'.id[p], cmd'.number[p]>>] = "none"
    <3>1. cmd'.id[p] \in SourceIds /\ cmd'.number[p] \in Numbers
      BY DEF Sound, TypeOK, CommandType
    <3>2. {n \in Numbers : reports'[cmd'.id[p]][n] # None}
            = {n \in Numbers : n < cmd'.number[p]}
      BY DEF Sound, NumbersReserved, Used
    <3>3. ~ (cmd'.number[p] < cmd'.number[p])
      BY <3>1, MaxAttemptsAssumption DEF Numbers
    <3>4. reports[cmd'.id[p]][cmd'.number[p]] = None
      BY <3>1, <3>2, <3>3
    <3> QED BY <3>1, <3>4 DEF AbsReports
  <2>2. AbsOpen = "none"
    BY <1>5 DEF AbsOpen
  <2> QED BY <1>1, <1>2, <1>3, <1>4, <2>1, <2>2 DEF Abs!Begin
<1>6. CASE cmd # None
  <2>1. AbsOpen = "open" /\ AbsPlan'.attempts = AbsPlan.attempts
    BY <1>4, <1>6 DEF AbsOpen, AbsPlan
  <2> QED BY <1>1, <1>2, <1>3, <2>1 DEF Abs!Revise
<1> QED BY <1>5, <1>6

\* Installing the files of a generation, or the summaries of its failures, is
\* the commit.
LEMMA CommitAbs ==
  ASSUME Sound, Commit
  PROVE  Abs!Commit
<1>1. /\ TypeOK /\ OneRecordEach /\ cmd # None /\ cmd.phase = "publishing"
      /\ reports' = reports /\ summary' = NextSummary
      /\ snapshot' = IF cmd.kind = "generation" THEN NextSnapshot ELSE snapshot
      /\ cmd' = [cmd EXCEPT !.phase = "won"]
  BY DEF Sound, Commit
<1>2. /\ cmd' # None /\ cmd'.phase = "won" /\ cmd'.batch = cmd.batch
      /\ cmd'.id = cmd.id /\ cmd'.number = cmd.number /\ cmd'.failed = cmd.failed
  <2>1. cmd \in CommandType(cmd.batch) /\ cmd.batch \in SUBSET Places
    BY <1>1 DEF TypeOK
  <2>2. cmd' \in CommandType(cmd.batch)
    BY <1>1, <2>1 DEF CommandType
  <2>3. cmd' # None
    BY <2>1, <2>2, NoneAssumption
  <2> QED BY <1>1, <2>1, <2>3 DEF CommandType
<1>3. AbsOpen = "open" /\ AbsOpen' = "won"
  BY <1>1, <1>2 DEF AbsOpen
<1>4. AbsContent' = AbsPlan.new
  BY <1>1 DEF AbsContent, AbsPlan
<1>5. AbsReports' = AbsReports
  BY <1>1 DEF AbsReports
<1>6. AbsPlan' = AbsPlan
  <2> DEFINE lost == [p \in cmd.batch |-> IF p \in cmd.failed
                                          THEN "failure" ELSE "interrupted"]
             attempts == {<<cmd.id[p], cmd.number[p]>> : p \in cmd.batch}
  <2>1. Win' = Win /\ Loss = lost
    BY <1>1, <1>2 DEF Win, Loss
  <2>2. Reserved(Win)' = Reserved(Win) /\ Reserved(lost)' = Reserved(lost)
    <3>1. lost' = lost
      BY <1>2
    <3> HIDE DEF lost
    <3> QED BY <1>2, <2>1, <3>1 DEF Reserved, Owns
  <2>3. AbsPlan = [new |-> AbsPlan.new, attempts |-> attempts,
                   win |-> Reserved(Win), lose |-> Reserved(lost)]
    BY <1>1, <2>1 DEF AbsPlan
  <2>4. AbsPlan' = [new |-> AbsContent', attempts |-> attempts,
                    win |-> Reserved(Win)', lose |-> Reserved(lost)']
    BY <1>2 DEF AbsPlan
  <2> QED BY <1>4, <2>1, <2>2, <2>3, <2>4
<1>7. /\ AbsGen \in Nat /\ AbsGen' \in Nat /\ AbsGen <= AbsGen'
      /\ AbsGen' = AbsGen => Parsed = {}
  <2>1. AbsGen = Cardinality(Succeeded) + 0
    BY <1>1 DEF AbsGen, Succeeded, Reports
  <2>2. AbsGen' = Cardinality(Succeeded) + Cardinality(Parsed)
    BY <1>2, <1>5 DEF AbsGen, Succeeded, Reports, Parsed
  <2> QED BY <1>1, <2>1, <2>2, Counted, FS_EmptySet
<1>8. Parsed = {} => \A a \in AbsPlan.attempts : AbsPlan.win[a] # "success"
  <2>1. SUFFICES ASSUME Parsed = {}, NEW p \in cmd.batch
                 PROVE  AbsPlan.win[<<cmd.id[p], cmd.number[p]>>] # "success"
    BY <1>1 DEF AbsPlan
  <2>2. Win[p] = "failure"
    BY <2>1 DEF Parsed, Win
  <2>3. AbsPlan.win = Reserved(Win)
    BY <1>1 DEF AbsPlan
  <2> QED BY <1>1, <2>2, <2>3, OutcomesType, ReservedAt
<1> QED BY <1>3, <1>4, <1>5, <1>6, <1>7, <1>8 DEF Abs!Commit

\* The successes of a batch that won are counted once, before and after their
\* reports are written.
LEMMA CountKept ==
  ASSUME Sound, Close
  PROVE  AbsGen' = AbsGen
<1>1. /\ TypeOK /\ OneRecordEach /\ cmd # None /\ cmd.phase = "won"
      /\ reports' = Reported(Win) /\ cmd' = None
  BY DEF Sound, Close
<1> DEFINE added == {<<cmd.id[p], cmd.number[p]>> : p \in Parsed}
           name  == [p \in Parsed |-> <<cmd.id[p], cmd.number[p]>>]
<1>2. Parsed \in SUBSET cmd.batch /\ \A p \in cmd.batch : p \in Parsed <=> Win[p] = "success"
  BY DEF Parsed, Win
<1>3. Win \in [cmd.batch -> {"success", "failure", "interrupted"}]
  BY <1>1, OutcomesType
<1>4. AbsReports' = [a \in Reports |->
            IF a \notin {<<cmd.id[p], cmd.number[p]>> : p \in cmd.batch}
            THEN AbsReports[a] ELSE Reserved(Win)[a]]
  BY <1>1, <1>3, ReportsAppear
<1>5. ASSUME NEW p \in cmd.batch
      PROVE  /\ <<cmd.id[p], cmd.number[p]>> \in Reports
             /\ Reserved(Win)[<<cmd.id[p], cmd.number[p]>>] = Win[p]
             /\ AbsReports[<<cmd.id[p], cmd.number[p]>>] = "none"
  <2>1. cmd.id[p] \in SourceIds /\ cmd.number[p] \in Numbers
    BY <1>1, CommandFields
  <2>2. Used(cmd.id[p]) = {n \in Numbers : n < cmd.number[p]}
    BY <1>1 DEF Sound, NumbersReserved
  <2>3. cmd.number[p] \notin Used(cmd.id[p])
    BY <2>1, <2>2, MaxAttemptsAssumption DEF Numbers
  <2>4. reports[cmd.id[p]][cmd.number[p]] = None
    BY <2>1, <2>3 DEF Used
  <2> QED BY <1>1, <1>3, <2>1, <2>4, ReservedAt DEF AbsReports
<1>6. Succeeded' = Succeeded \cup added
  <2>1. ASSUME NEW a \in Reports
        PROVE  AbsReports'[a] = "success" <=> a \in Succeeded \/ a \in added
    <3>1. CASE \E p \in cmd.batch : a = <<cmd.id[p], cmd.number[p]>>
      <4>1. PICK p \in cmd.batch : a = <<cmd.id[p], cmd.number[p]>>
        BY <3>1
      <4>2. AbsReports'[a] = Win[p] /\ AbsReports[a] = "none"
        BY <1>4, <1>5, <4>1
      <4>3. a \in added <=> p \in Parsed
        BY <1>1, <1>2, <4>1 DEF OneRecordEach
      <4> QED BY <1>2, <4>2, <4>3 DEF Succeeded
    <3>2. CASE ~ \E p \in cmd.batch : a = <<cmd.id[p], cmd.number[p]>>
      <4>1. AbsReports'[a] = AbsReports[a] /\ a \notin added
        BY <1>2, <1>4, <3>2
      <4> QED BY <4>1 DEF Succeeded
    <3> QED BY <3>1, <3>2
  <2>2. added \subseteq Reports
    BY <1>2, <1>5
  <2> HIDE DEF added
  <2> QED BY <2>1, <2>2 DEF Succeeded, Reports
<1>7. Succeeded \cap added = {}
  BY <1>2, <1>5 DEF Succeeded
<1>8. IsFiniteSet(added) /\ Cardinality(added) = Cardinality(Parsed)
  <2>1. name \in [Parsed -> added] /\ \A x \in added : \E p \in Parsed : name[p] = x
    OBVIOUS
  <2>2. IsInjective(name)
    <3>1. \A p, q \in Parsed : name[p] = name[q] => p = q
      BY <1>1, <1>2 DEF OneRecordEach
    <3> QED BY <3>1 DEF IsInjective
  <2>3. name \in Bijection(Parsed, added)
    BY <2>1, <2>2 DEF Bijection, Injection, Surjection
  <2>4. IsFiniteSet(Parsed)
    BY <1>1, Counted
  <2> HIDE DEF added, name
  <2> QED BY <2>3, <2>4, FS_Bijection DEF ExistsBijection
<1> HIDE DEF added, name
<1>9. Cardinality(Succeeded \cup added) = Cardinality(Succeeded) + Cardinality(Parsed)
  <2>1. /\ IsFiniteSet(Succeeded) /\ Cardinality(Succeeded) \in Nat
        /\ Cardinality(Parsed) \in Nat
    BY <1>1, Counted
  <2>2. Cardinality(Succeeded \cup added)
          = Cardinality(Succeeded) + Cardinality(added) - Cardinality({})
    BY <1>7, <1>8, <2>1, FS_Union
  <2> QED BY <1>8, <2>1, <2>2, FS_EmptySet
<1>10. AbsGen = Cardinality(Succeeded) + Cardinality(Parsed)
  BY <1>1 DEF AbsGen, Succeeded, Reports
<1>11. AbsGen' = Cardinality(Succeeded') + 0
  BY <1>1 DEF AbsGen, Succeeded, Reports
<1> QED BY <1>1, <1>6, <1>9, <1>10, <1>11, Counted

\* Writing the reports of a command that won, or that doctor settled, closes it.
LEMMA CloseAbs ==
  ASSUME Sound, Sound', Close \/ Lose
  PROVE  Abs!Close
<1> DEFINE outcome == IF cmd.phase = "won" THEN Win ELSE Loss
           attempts == {<<cmd.id[p], cmd.number[p]>> : p \in cmd.batch}
<1>1. /\ TypeOK /\ OneRecordEach /\ cmd # None /\ cmd' = None
      /\ reports' = Reported(outcome)
      /\ snapshot' = snapshot /\ summary' = summary
  BY DEF Sound, Close, Lose, files
<1>2. outcome \in [cmd.batch -> {"success", "failure", "interrupted"}]
  BY <1>1, OutcomesType
<1>3. AbsReports' = [a \in Reports |-> IF a \notin attempts THEN AbsReports[a]
                                      ELSE Reserved(outcome)[a]]
  BY <1>1, <1>2, ReportsAppear
<1>4. /\ AbsPlan.attempts = attempts
      /\ AbsOpen = "won" => Reserved(outcome) = AbsPlan.win
      /\ AbsOpen # "won" => Reserved(outcome) = AbsPlan.lose
      /\ AbsOpen # "none" /\ AbsOpen' = "none"
  BY <1>1 DEF AbsPlan, AbsOpen
<1>5. AbsContent' = AbsContent
  BY <1>1 DEF AbsContent
<1>6. AbsPlan' \in Abs!PlanType
  BY PlanSoundNext
<1>7. AbsGen' = AbsGen
  <2>1. CASE Lose
    <3>1. cmd.phase # "won" /\ outcome = Loss
      BY <2>1 DEF Lose
    <3>2. \A p \in cmd.batch : /\ <<cmd.id[p], cmd.number[p]>> \in Reports
                               /\ Reserved(Loss)[<<cmd.id[p], cmd.number[p]>>] # "success"
      BY <1>1, OutcomesType, ReservedAt DEF Loss
    <3>3. \A p \in cmd.batch : AbsReports[<<cmd.id[p], cmd.number[p]>>] # "success"
      <4>1. SUFFICES ASSUME NEW p \in cmd.batch
                     PROVE  AbsReports[<<cmd.id[p], cmd.number[p]>>] = "none"
        OBVIOUS
      <4>2. cmd.id[p] \in SourceIds /\ cmd.number[p] \in Numbers
        BY <1>1, CommandFields
      <4>3. Used(cmd.id[p]) = {n \in Numbers : n < cmd.number[p]}
        BY <1>1 DEF Sound, NumbersReserved
      <4>4. cmd.number[p] \notin Used(cmd.id[p])
        BY <4>2, <4>3, MaxAttemptsAssumption DEF Numbers
      <4>5. reports[cmd.id[p]][cmd.number[p]] = None
        BY <4>2, <4>4 DEF Used
      <4> QED BY <4>2, <4>5 DEF AbsReports
    <3>4. \A a \in Reports : AbsReports'[a] = "success" <=> AbsReports[a] = "success"
      BY <1>3, <3>1, <3>2, <3>3
    <3>5. Succeeded' = Succeeded
      BY <3>4 DEF Succeeded, Reports
    <3> QED BY <1>1, <3>1, <3>5 DEF AbsGen, Succeeded, Reports
  <2>2. CASE Close
    BY <2>2, CountKept
  <2> QED BY <2>1, <2>2
<1> HIDE DEF outcome, attempts
<1> QED BY <1>3, <1>4, <1>5, <1>6, <1>7 DEF Abs!Close, Reports

LEMMA AbsStep ==
  Sound /\ Sound' /\ [Next]_vars => [Abs!Next \/ RepairSummaries]_(Abs!vars)
<1> SUFFICES ASSUME Sound, Sound', [Next]_vars
             PROVE  Abs!Next \/ RepairSummaries \/ UNCHANGED Abs!vars
  OBVIOUS
<1>1. ASSUME NEW action \in Actions, NEW batch \in SUBSET Places,
             NEW revision \in [batch -> Revisions], NEW contract \in [batch -> Contracts],
             Reserve(action, batch, revision, contract)
      PROVE  Abs!Begin \/ Abs!Revise
  <2>1. /\ cmd = None /\ UNCHANGED <<sources, reports, files>>
        /\ cmd'.phase = "reserved" /\ cmd'.batch = batch
        /\ cmd' = Planned(action, batch, revision, contract,
                          Preflight(action, batch, revision))
    BY <1>1 DEF Reserve, Planned
  <2>2. cmd' # None
    <3>1. cmd' \in CommandType(batch)
      <4>1. Preflight(action, batch, revision) \in [batch -> SourceIds]
        BY <1>1, AssignedType DEF Reserve, Preflight, Sound
      <4>2. \A p \in batch : NextNumber(Preflight(action, batch, revision)[p]) \in Numbers
        <5>1. \A s \in SourceIds : RecordAgrees(s)
          BY <2>1 DEF Sound, Agreement, Awaits, Won
        <5> QED BY <1>1, <4>1, <5>1, NextIs DEF Reserve, RecordAgrees, Readable
      <4> QED BY <2>1, <4>1, <4>2 DEF Planned, CommandType
    <3> QED BY <3>1, NoneAssumption
  <2> QED BY <2>1, <2>2, CarriedOnAbs
<1>2. ASSUME \/ \E failed \in SUBSET Places : Parse(failed)
             \/ Publish \/ Reject
      PROVE  Abs!Begin \/ Abs!Revise
  <2>1. cmd # None /\ cmd.phase \in {"reserved", "parsed"} /\ TypeOK
          /\ UNCHANGED <<sources, reports, files>>
    BY <1>2 DEF Sound, Parse, Publish, Reject
  <2>2. PICK phase \in {"parsed", "publishing"},
             kind \in {"pending", "generation", "failures"},
             failed \in SUBSET cmd.batch :
               cmd' = [cmd EXCEPT !.phase = phase, !.kind = kind, !.failed = failed]
    <3>1. cmd \in CommandType(cmd.batch)
      BY <2>1 DEF TypeOK
    <3> DEFINE On(phase, kind, failed) ==
                 [cmd EXCEPT !.phase = phase, !.kind = kind, !.failed = failed]
    <3>2. /\ cmd.kind \in {"pending", "generation", "failures"}
          /\ cmd.failed \in SUBSET cmd.batch
          /\ cmd.batch \in SUBSET cmd.batch
      BY <3>1 DEF CommandType
    <3>3. ASSUME NEW failed \in SUBSET cmd.batch
          PROVE  /\ [cmd EXCEPT !.phase = "parsed", !.failed = failed]
                      = On("parsed", cmd.kind, failed)
                 /\ [cmd EXCEPT !.phase = "publishing", !.kind = "generation"]
                      = On("publishing", "generation", cmd.failed)
      BY <3>1 DEF CommandType
    <3>4. ASSUME NEW failed \in SUBSET cmd.batch
          PROVE  FixedFailures(failed) = On("publishing", "failures", failed)
      BY DEF FixedFailures
    <3>5. ASSUME NEW failed \in SUBSET Places, Parse(failed)
          PROVE  /\ failed \in SUBSET cmd.batch
                 /\ \/ cmd' = FixedFailures(failed)
                    \/ cmd' = [cmd EXCEPT !.phase = "parsed", !.failed = failed]
      BY <3>5 DEF Parse
    <3>6. Publish => cmd' = [cmd EXCEPT !.phase = "publishing", !.kind = "generation"]
      BY DEF Publish
    <3>7. Reject => cmd' = FixedFailures(cmd.batch)
      BY DEF Reject
    <3> HIDE DEF On
    <3> SUFFICES \E phase \in {"parsed", "publishing"},
                    kind \in {"pending", "generation", "failures"},
                    failed \in SUBSET cmd.batch : cmd' = On(phase, kind, failed)
      BY Zenon DEF On
    <3>8. CASE \E failed \in SUBSET Places : Parse(failed)
      <4>1. PICK failed \in SUBSET Places : Parse(failed)
        BY <3>8
      <4>2. failed \in SUBSET cmd.batch
        BY <4>1, <3>5
      <4>3. CASE cmd' = FixedFailures(failed)
        <5>1. cmd' = On("publishing", "failures", failed)
          BY <4>2, <4>3, <3>4
        <5> QED BY <4>2, <5>1
      <4>4. CASE cmd' = [cmd EXCEPT !.phase = "parsed", !.failed = failed]
        <5>1. cmd' = On("parsed", cmd.kind, failed)
          BY <4>2, <4>4, <3>3, Zenon
        <5> QED BY <3>2, <4>2, <5>1
      <4> QED BY <4>1, <4>3, <4>4, <3>5
    <3>9. CASE Publish
      <4>1. cmd' = On("publishing", "generation", cmd.failed)
        BY <3>2, <3>3, <3>6, <3>9, Zenon
      <4> QED BY <3>2, <4>1
    <3>10. CASE Reject
      <4>1. cmd' = On("publishing", "failures", cmd.batch)
        BY <3>2, <3>4, <3>7, <3>10
      <4> QED BY <3>2, <4>1
    <3> QED BY <1>2, <3>8, <3>9, <3>10
  <2>3. /\ cmd'.phase # "won" /\ cmd'.batch = cmd.batch
        /\ cmd'.id = cmd.id /\ cmd'.number = cmd.number
    BY <2>1, <2>2 DEF TypeOK, CommandType
  <2>4. cmd' # None
    <3>1. cmd' \in CommandType(cmd.batch)
      BY <2>1, <2>2, CommandGoesOn
    <3> QED BY <2>1, <3>1, NoneAssumption DEF TypeOK
  <2> QED BY <2>1, <2>3, <2>4, CarriedOnAbs
<1>3. Commit => Abs!Commit
  BY CommitAbs
<1>4. Close \/ Lose => Abs!Close
  BY CloseAbs
<1>5. CASE UNCHANGED vars
  <2>1. /\ sources' = sources /\ reports' = reports /\ snapshot' = snapshot
        /\ summary' = summary /\ cmd' = cmd
    BY <1>5 DEF vars, files
  <2>2. \A s : BuiltSummary(s)' = BuiltSummary(s)
    BY <2>1 DEF BuiltSummary, Successes, Used
  <2>3. AbsReports' = AbsReports /\ AbsContent' = AbsContent /\ AbsOpen' = AbsOpen
    BY <2>1 DEF AbsReports, AbsContent, AbsOpen
  <2>4. Parsed' = Parsed /\ Win' = Win /\ Loss' = Loss
          /\ \A out : Reserved(out)' = Reserved(out)
    BY <2>1 DEF Parsed, Win, Loss, Reserved, Owns
  <2>5. NextSnapshot' = NextSnapshot /\ NextSummary' = NextSummary
    BY <2>1, <2>2, <2>4 DEF NextSnapshot, NextSummary, Owns
  <2>6. AbsGen' = AbsGen
    BY <2>1, <2>3, <2>4 DEF AbsGen
  <2>7. AbsPlan' = AbsPlan
    BY <2>1, <2>3, <2>4, <2>5 DEF AbsPlan
  <2> QED BY <2>3, <2>6, <2>7 DEF Abs!vars
<1> QED BY <1>1, <1>2, <1>3, <1>4, <1>5 DEF Next, Abs!Next

\* An import, with the failures of its files and wherever it stops, is one
\* atomic generation: snapshots, summaries and index at once, then one truthful
\* report per attempt.  Only doctor's repair of summaries comes between two.
\* (import_workspace)
THEOREM Refinement == Spec => PublishesAtomically
<1>1. Sound /\ Sound' /\ [Next]_vars => [Abs!Next \/ RepairSummaries]_(Abs!vars)
  BY AbsStep
<1> QED BY <1>1, AbsInit, Soundness, PTL DEF Spec, PublishesAtomically
===============================================================================
