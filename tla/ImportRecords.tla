----------------------------- MODULE ImportRecords ----------------------------
(***************************************************************************)
(* Import records and the import command: import_workspace of              *)
(* honeymoney/workspace_commands.py with honeymoney/import_records.py.     *)
(*                                                                         *)
(* A command resolves its batch against the index, reserves one attempt    *)
(* number per file, parses the files, resolves those that parsed again and *)
(* publishes.  It holds the workspace lock throughout, and module          *)
(* Publication shows that a publication is installed whole or not at all:  *)
(* Commit installs, Close writes the reports, Lose is what doctor leaves   *)
(* of a command that stopped before it committed.                          *)
(***************************************************************************)
EXTENDS Naturals, FiniteSets, SourceIdentity

CONSTANTS
    Places,         \* places a statement file can be found at (namespaces)
    Revisions,      \* contents of statement files
    Contracts,      \* parser contracts
    MaxAttempts,    \* the largest attempt number: 99,999,999
    None            \* no report, no summary

Actions   == {"import", "replace", "reset"}
SourceIds == {SourceId(p) : p \in Places}
Numbers   == 1 .. MaxAttempts

ASSUME MaxAttemptsAssumption == MaxAttempts \in Nat \ {0}

\* A workspace has a statement at finitely many places.
ASSUME PlacesAssumption == IsFiniteSet(Places)

VARIABLES
    sources,    \* the index: source -> [place, revision, contract, facts]
    reports,    \* source, attempt number -> attempt report, or None
    snapshot,   \* source -> the attempt whose rows transactions.csv holds, or 0
    summary,    \* source -> summary.json, or None
    cmd         \* the command in progress

files == <<snapshot, summary>>
vars  == <<sources, reports, snapshot, summary, cmd>>

(***************************************************************************)
(* Rows are named by the attempt that normalized them: "facts" are the     *)
(* record ids the index holds active, and equal digests are equal names.   *)
(***************************************************************************)
SourceType == [place : Places, revision : Revisions, contract : Contracts,
               facts : Numbers]
ReportType == [outcome : {"success", "failure", "interrupted"},
               revision : Revisions, contract : Contracts]
SummaryType == [ready : BOOLEAN, current : 0 .. MaxAttempts]
CommandType(batch) ==
    [phase : {"reserved", "parsed", "publishing", "won"},
     kind  : {"pending", "generation", "failures"}, action : Actions,
     batch : {batch}, revision : [batch -> Revisions],
     contract : [batch -> Contracts], id : [batch -> SourceIds],
     number : [batch -> Numbers], failed : SUBSET batch]

ASSUME NoneAssumption ==
    /\ None \notin ReportType \cup SummaryType
    /\ \A batch \in SUBSET Places : None \notin CommandType(batch)

TypeOK ==
    /\ DOMAIN sources \subseteq SourceIds
    /\ \A s \in DOMAIN sources : sources[s] \in SourceType
    /\ reports \in [SourceIds -> [Numbers -> ReportType \cup {None}]]
    /\ snapshot \in [SourceIds -> 0 .. MaxAttempts]
    /\ summary \in [SourceIds -> SummaryType \cup {None}]
    /\ cmd # None => cmd.batch \subseteq Places /\ cmd \in CommandType(cmd.batch)

\* A workspace as setup leaves it.
Init ==
    /\ sources = [s \in {} |-> None]
    /\ reports = [s \in SourceIds |-> [n \in Numbers |-> None]]
    /\ snapshot = [s \in SourceIds |-> 0]
    /\ summary = [s \in SourceIds |-> None]
    /\ cmd = None

-------------------------------------------------------------------------------
(***************************************************************************)
(* What the record on disk says.                                           *)
(***************************************************************************)

Used(s)      == {n \in Numbers : reports[s][n] # None}
Successes(s) == {n \in Used(s) : reports[s][n].outcome = "success"}
Newest(set)  == CHOOSE n \in set : \A m \in set : m <= n

\* next_attempt_number, 0 when the numbers are exhausted.
NextNumber(s) ==
    IF Used(s) = {} THEN 1
    ELSE IF Newest(Used(s)) = MaxAttempts THEN 0
    ELSE Newest(Used(s)) + 1

\* build_summary: the newest success is current.
BuiltSummary(s) ==
    IF Successes(s) = {} THEN [ready |-> FALSE, current |-> 0]
    ELSE [ready |-> TRUE, current |-> Newest(Successes(s))]

\* build_summary and read_transaction_snapshot do not raise.
Readable(s) ==
    /\ \A n \in Used(s) : \A m \in 1 .. n : m \in Used(s)
    /\ snapshot[s] = BuiltSummary(s).current

\* _load_ready_source_rows for one source of the index.
ReadyRowsAgree(s) ==
    /\ Readable(s)
    /\ BuiltSummary(s).ready
    /\ LET current == BuiltSummary(s).current
       IN  /\ reports[s][current].revision = sources[s].revision
           /\ reports[s][current].contract = sources[s].contract
           /\ sources[s].facts = snapshot[s]

-------------------------------------------------------------------------------
(***************************************************************************)
(* The command.                                                            *)
(***************************************************************************)

Parsed == cmd.batch \ cmd.failed

\* A plain import of a place the index knows.
PlainRepeat(action, batch) == action = "import" /\ Claimed(sources, batch) # {}

\* The record each file of the batch goes to, from the index alone.
Preflight(action, batch, revision) ==
    [p \in batch |-> Assigned(sources, batch, revision, action, p)]

\* No two files of a batch share a record (OneRecordEach), so each gets its
\* record's next number.
Planned(action, batch, revision, contract, id) ==
    [phase |-> "reserved", kind |-> "pending",
     action |-> action, batch |-> batch, revision |-> revision,
     contract |-> contract, id |-> id,
     number |-> [p \in batch |-> NextNumber(id[p])], failed |-> {}]

\* Everything up to reserve_publication, checked before and again under the
\* lock: no repeat, a batch that resolves, a number left in every record.
Reserve(action, batch, revision, contract) ==
    LET id == Preflight(action, batch, revision)
    IN  /\ cmd = None
        /\ batch # {}
        /\ ~ PlainRepeat(action, batch)
        /\ Accepts(sources, batch, revision, action)
        /\ \A p \in batch : NextNumber(id[p]) # 0
        /\ cmd' = Planned(action, batch, revision, contract, id)
        /\ UNCHANGED <<sources, reports, files>>

\* Known failures are all that is published: their summaries and reports.
FixedFailures(failed) ==
    [cmd EXCEPT !.phase = "publishing", !.kind = "failures", !.failed = failed]

\* Every file is parsed; if all fail, only their failures are published.
Parse(failed) ==
    /\ cmd # None /\ cmd.phase = "reserved"
    /\ failed \subseteq cmd.batch
    /\ cmd' = IF failed = cmd.batch THEN FixedFailures(failed)
              ELSE [cmd EXCEPT !.phase = "parsed", !.failed = failed]
    /\ UNCHANGED <<sources, reports, files>>

Resolves ==
    /\ \A s \in DOMAIN sources : ReadyRowsAgree(s)
    /\ Accepts(sources, Parsed, cmd.revision, cmd.action)
    /\ cmd.action = "import" =>
          \A p \in Parsed : cmd.id[p] \notin DOMAIN sources
    /\ \A p \in Parsed :
          Assigned(sources, Parsed, cmd.revision, cmd.action, p) = cmd.id[p]

\* The ready rows agree with the index, the files that parsed resolve on their
\* own and to the records reserved for them, and no record is new twice.
Publish ==
    /\ cmd # None /\ cmd.phase = "parsed"
    /\ Resolves
    /\ cmd' = [cmd EXCEPT !.phase = "publishing", !.kind = "generation"]
    /\ UNCHANGED <<sources, reports, files>>

\* Resolution, derivation or planning raised: every reserved attempt becomes a
\* known failure.  Any of them may raise for reasons outside this module.
Reject ==
    /\ cmd # None /\ cmd.phase = "parsed"
    /\ cmd' = FixedFailures(cmd.batch)
    /\ UNCHANGED <<sources, reports, files>>

-------------------------------------------------------------------------------
(***************************************************************************)
(* Publication.                                                            *)
(***************************************************************************)

Owns(p, s) == cmd.id[p] = s

NextSnapshot ==
    [s \in SourceIds |->
       IF \E p \in Parsed : Owns(p, s)
       THEN cmd.number[CHOOSE p \in Parsed : Owns(p, s)] ELSE snapshot[s]]

\* A success is ready; a failure rebuilds the summary from what is there.
NextSummary ==
    [s \in SourceIds |->
       IF \E p \in Parsed : Owns(p, s)
       THEN [ready |-> TRUE,
             current |-> cmd.number[CHOOSE p \in Parsed : Owns(p, s)]]
       ELSE IF \E p \in cmd.failed : Owns(p, s) THEN BuiltSummary(s)
       ELSE summary[s]]

NextSources ==
    LET ids == {cmd.id[p] : p \in Parsed}
    IN  [s \in DOMAIN sources \cup ids |->
           IF s \notin ids THEN sources[s]
           ELSE LET p == CHOOSE q \in Parsed : Owns(q, s)
                IN  [place |-> p, revision |-> cmd.revision[p],
                     contract |-> cmd.contract[p], facts |-> cmd.number[p]]]

Report(p, outcome) ==
    [outcome |-> outcome, revision |-> cmd.revision[p],
     contract |-> cmd.contract[p]]

\* The reports of the batch are written, each with its outcome.
Reported(outcome) ==
    [s \in SourceIds |-> [n \in Numbers |->
       IF \E p \in cmd.batch : Owns(p, s) /\ cmd.number[p] = n
       THEN LET p == CHOOSE q \in cmd.batch : Owns(q, s) /\ cmd.number[q] = n
            IN  Report(p, outcome[p])
       ELSE reports[s][n]]]

\* The generation wins: its files and, for a success, the index are installed.
Commit ==
    /\ cmd # None /\ cmd.phase = "publishing"
    /\ summary' = NextSummary
    /\ snapshot' = IF cmd.kind = "generation" THEN NextSnapshot ELSE snapshot
    /\ sources' = IF cmd.kind = "generation" THEN NextSources ELSE sources
    /\ cmd' = [cmd EXCEPT !.phase = "won"]
    /\ UNCHANGED reports

Win == [p \in cmd.batch |-> IF p \in cmd.failed THEN "failure" ELSE "success"]

\* Mutant: a parse that succeeded is a success although nothing was installed.
LossByParse ==
    [p \in cmd.batch |->
       IF cmd.phase # "publishing" THEN "interrupted"
       ELSE IF p \in cmd.failed THEN "failure" ELSE "success"]

\* A known failure is one whether or not the generation wins.
Loss ==
    [p \in cmd.batch |->
       IF cmd.phase = "publishing" /\ p \in cmd.failed THEN "failure"
       ELSE "interrupted"]

Close ==
    /\ cmd # None /\ cmd.phase = "won"
    /\ reports' = Reported(Win)
    /\ cmd' = None
    /\ UNCHANGED <<sources, files>>

\* Mutant: the summaries of a command that stopped stay behind.
LoseSummaries ==
    /\ cmd # None /\ cmd.phase # "won"
    /\ reports' = Reported(Loss)
    /\ cmd' = None
    /\ summary' = IF cmd.phase = "publishing" THEN NextSummary ELSE summary
    /\ UNCHANGED <<sources, snapshot>>

\* The command stopped before its commit and doctor settled the journal.
Lose ==
    /\ cmd # None /\ cmd.phase # "won"
    /\ reports' = Reported(Loss)
    /\ cmd' = None
    /\ UNCHANGED <<sources, files>>

\* doctor --fix rebuilds every summary that is missing or out of date, when
\* nothing it cannot repair is wrong.
RepairSummaries ==
    /\ cmd = None
    /\ \A s \in SourceIds : Readable(s)
    /\ \A s \in DOMAIN sources : ReadyRowsAgree(s)
    /\ summary' = [s \in SourceIds |->
                     IF Used(s) = {} THEN summary[s] ELSE BuiltSummary(s)]
    /\ summary' # summary
    /\ UNCHANGED <<sources, reports, snapshot, cmd>>

Next ==
    \/ \E action \in Actions, batch \in SUBSET Places :
          \E revision \in [batch -> Revisions], contract \in [batch -> Contracts] :
             Reserve(action, batch, revision, contract)
    \/ \E failed \in SUBSET Places : Parse(failed)
    \/ Publish
    \/ Reject
    \/ Commit
    \/ Close
    \/ Lose
    \/ RepairSummaries

Spec == Init /\ [][Next]_vars

-------------------------------------------------------------------------------
(***************************************************************************)
(* Properties.                                                             *)
(***************************************************************************)

\* Before a commit and after the reports, index, histories and snapshots tell
\* one story: numbers without a gap, the snapshot of the newest success, the
\* index's revision, contract and active records those of that success, and a
\* source in the index exactly when its record has a success.  It is what
\* _load_ready_source_rows demands before every import and what doctor audits
\* (_audit_durable_authority_agreement), whatever commands failed or stopped.
DurableAgreement ==
    cmd = None \/ cmd.phase # "won" =>
        /\ \A s \in SourceIds : Readable(s)
        /\ DOMAIN sources = {s \in SourceIds : Successes(s) # {}}
        /\ \A s \in DOMAIN sources : ReadyRowsAgree(s)

\* A summary, where there is one, is the one doctor would build, and a record
\* that was ever ready has one.  (import_workspace's summary targets,
\* _prepare_failed_source_attempts)
SummaryAgrees ==
    cmd = None =>
        \A s \in SourceIds :
            IF summary[s] = None THEN Successes(s) = {}
            ELSE summary[s] = BuiltSummary(s)

\* No two sources of the index claim one place, however often files were
\* replaced, moved and imported again.  (resolve_sources, validate_manifest)
OneSourcePerPlace ==
    \A s, t \in DOMAIN sources : sources[s].place = sources[t].place => s = t

\* The files of a batch go to different records, so no attempt number is
\* reserved twice.  (resolve_sources, _plan_source_attempts)
OneRecordEach ==
    cmd # None =>
        \A p, q \in cmd.batch : cmd.id[p] = cmd.id[q] => p = q

\* The facts of a workspace agree with each other: index, histories and
\* snapshots, summaries, places, and the records of one batch.
DurableFactsAgree ==
    DurableAgreement /\ SummaryAgrees /\ OneSourcePerPlace /\ OneRecordEach

\* When some files fail to parse, the rest resolve on their own either to the
\* records their attempts were reserved in or not at all: the check that raises
\* durable_state_conflict after parsing never sees another record.
PlanStands ==
    cmd # None /\ cmd.phase = "parsed" =>
        \A p \in Parsed :
            Accepts(sources, Parsed, cmd.revision, cmd.action) =>
                Assigned(sources, Parsed, cmd.revision, cmd.action, p) = cmd.id[p]

\* A report, once written, is never replaced.  (next_attempt_number)
HistoryKept ==
    [][ \A s \in SourceIds, n \in Numbers :
          reports[s][n] # None => reports'[s][n] = reports[s][n] ]_vars

\* A source stays in the index, and is found at another place only together
\* with the very bytes it had.  (resolve_sources, "accepted rename")
MovesWithItsBytes ==
    [][ \A s \in DOMAIN sources :
          /\ s \in DOMAIN sources'
          /\ sources'[s].place # sources[s].place
               => sources'[s].revision = sources[s].revision ]_vars

\* What the workspace has recorded of a statement is never rewritten: not its
\* history, and not where its bytes came from.
RecordsStand == HistoryKept /\ MovesWithItsBytes

(***************************************************************************)
(* An import is one generation of module Generation: snapshots, summaries  *)
(* and the index together, then one report per attempt.                    *)
(***************************************************************************)
FileOf == {"snapshot", "summary"} \X SourceIds
Holds(shot, sums) ==
    [f \in FileOf |-> IF f[1] = "snapshot" THEN <<"rows", shot[f[2]]>>
                      ELSE <<"facts", sums[f[2]]>>]
AbsContent == Holds(snapshot, summary)
AbsReports ==
    [a \in SourceIds \X Numbers |->
       IF reports[a[1]][a[2]] = None THEN "none" ELSE reports[a[1]][a[2]].outcome]
AbsGen ==
    Cardinality({a \in SourceIds \X Numbers : AbsReports[a] = "success"})
      + (IF cmd # None /\ cmd.phase = "won" THEN Cardinality(Parsed) ELSE 0)
AbsOpen == IF cmd = None THEN "none" ELSE IF cmd.phase = "won" THEN "won" ELSE "open"
Reserved(outcome) ==
    [a \in SourceIds \X Numbers |->
       IF \E p \in cmd.batch : Owns(p, a[1]) /\ cmd.number[p] = a[2]
       THEN outcome[CHOOSE p \in cmd.batch : Owns(p, a[1]) /\ cmd.number[p] = a[2]]
       ELSE "interrupted"]
AbsPlan ==
    IF cmd = None
    THEN [new |-> AbsContent, attempts |-> {},
          win |-> [a \in SourceIds \X Numbers |-> "interrupted"],
          lose |-> [a \in SourceIds \X Numbers |-> "interrupted"]]
    ELSE [new |-> IF cmd.phase # "publishing" THEN AbsContent
                  ELSE Holds(IF cmd.kind = "generation" THEN NextSnapshot ELSE snapshot,
                             NextSummary),
          attempts |-> {<<cmd.id[p], cmd.number[p]>> : p \in cmd.batch},
          win |-> Reserved(IF cmd.phase \in {"publishing", "won"} THEN Win ELSE Loss),
          lose |-> Reserved(IF cmd.phase = "won"
                            THEN [p \in cmd.batch |-> IF p \in cmd.failed
                                    THEN "failure" ELSE "interrupted"] ELSE Loss)]

Abs == INSTANCE Generation WITH
         Files <- FileOf,
         Content <- ({"rows"} \X (0 .. MaxAttempts))
                      \cup ({"facts"} \X (SummaryType \cup {None})),
         Attempts <- SourceIds \X Numbers,
         content <- AbsContent, gen <- AbsGen, reports <- AbsReports,
         open <- AbsOpen, plan <- AbsPlan

\* Every import, with its failures and stops, is one atomic generation; only
\* doctor's repair of summaries comes between two.  (import_workspace)
PublishesAtomically ==
    Abs!Init /\ [][Abs!Next \/ RepairSummaries]_(Abs!vars)
===============================================================================
