---------------------------- MODULE WorkspaceAudit ----------------------------
(***************************************************************************)
(* What doctor finds in a workspace and what it plans to repair: the       *)
(* audit's findings and build_repair_plan of doctor.py, as operators over  *)
(* the files as they are when they are read.                               *)
(*                                                                         *)
(* A file's value is what the audit can tell of its bytes.  The files of a *)
(* record (its directory, attempts and snapshot) are one item, and so are  *)
(* the files of a view.  A proof is a keyed digest of the bytes it is of,  *)
(* so it is those bytes here; a correction is the record its row is of.    *)
(***************************************************************************)
EXTENDS Naturals, FiniteSets

CONSTANTS
    Records,        \* sources that can have an import record
    Periods,        \* periods of views
    PeriodOf,       \* record -> the period of its transactions
    MaxFindings,    \* _MAX_FINDINGS
    Missing,        \* there is no such file
    Damaged,        \* bytes that no command wrote
    Torn,           \* a snapshot that disagrees with the record's last success
    Newer,          \* bytes of a newer release
    None            \* nothing

ASSUME AuditAssumption ==
    /\ PeriodOf \in [Records -> Periods]
    /\ MaxFindings \in Nat \ {0}
    /\ None \notin Records
    /\ Missing \notin {Damaged, Torn, Newer}
    /\ \A mark \in {Missing, Damaged, Torn, Newer} : mark \notin Nat

Config      == <<"config">>
Rules       == <<"rules">>          \* stands for mappings and rates too
Corrections == <<"corrections">>
Index       == <<"index">>
Root        == <<"root">>
Internal    == <<"internal">>       \* .honeymoney
Container   == <<"container">>      \* .honeymoney/import-records
Views       == <<"views">>
Leftover    == <<"leftover">>       \* bytes in .honeymoney/publication
Stray       == <<"stray">>          \* an entry doctor does not know
Lock        == <<"lock">>
Journal     == <<"journal">>
Record(r)   == <<"record", r>>
Summary(r)  == <<"summary", r>>
ViewOf(p)   == <<"view", p>>

Inputs      == {Config, Rules, Corrections}
Directories == {Root, Internal, Container, Views}
Items ==
    Inputs \cup Directories \cup {Index, Leftover, Stray}
    \cup {Record(r) : r \in Records} \cup {Summary(r) : r \in Records}
    \cup {ViewOf(p) : p \in Periods}

(***************************************************************************)
(* A workspace w is its files, those that others may read, and those that  *)
(* are links:                                                              *)
(*    w.file  [Items -> values]   w.loose, w.links  SUBSET Items           *)
(* A record's value is the number of its last success (0: none yet), a     *)
(* summary's the number it was built from.  The configuration is "plain",  *)
(* "model" (the local model may be used), "profile" (it names one more     *)
(* profile) or "outside" (it names an input outside the workspace).        *)
(***************************************************************************)
There(w, i) == w.file[i] # Missing
Found(code, path) == [code |-> code, path |-> path]
Codes(findings) == {f.code : f \in findings}

\* _audit_private_mode: a hard link is as bad as a symbolic one.
Modes(w, items) ==
    {Found("managed_metadata_invalid", i) :
        i \in {j \in items : There(w, j) /\ j \in w.loose \ w.links}}

Linked(w, items) == {Found("managed_path_unsafe", i) : i \in items \cap w.links}

-------------------------------------------------------------------------------
(***************************************************************************)
(* What the durable facts prove.                                           *)
(***************************************************************************)
Sound(value) == value \in 0 .. 9        \* a history and snapshot that agree
Ready(w, r)  == Record(r) \notin w.links /\ w.file[Record(r)] \in 1 .. 9

\* The index as load_compatible_workspace_index returns it.
IndexOf(w) ==
    IF Index \in w.links \/ w.file[Index] \in {Missing, Damaged, Newer}
    THEN None ELSE w.file[Index]

Indexed(index) == {r \in Records : index.rev[r] # 0}
Registered(index) == DOMAIN index.views
Rederivable(index) == ~ index.model

\* _resolved_config
ConfigOf(w) ==
    IF Config \in w.links \/ w.file[Config] \in {Missing, Damaged}
    THEN None ELSE w.file[Config]

\* _input_proof_paths is empty if a configured path is unsafe.
PathsSafe(w, config) ==
    config # "outside" /\ {Rules, Corrections} \cap w.links = {}

\* The view of a period, as the records and the inputs give it; answer says
\* that the local model had a part in it.
Content(w, p, answer) ==
    [rows |-> {<<r, w.file[Record(r)]>> :
                 r \in {s \in Records : Ready(w, s) /\ PeriodOf[s] = p}},
     inputs |-> [i \in Inputs |-> w.file[i]],
     answer |-> answer]

\* The index's manifest is the one that the records give.
RevisionsAgree(w, index) ==
    \A r \in Records : index.rev[r] = IF Ready(w, r) THEN w.file[Record(r)] ELSE 0

-------------------------------------------------------------------------------
(***************************************************************************)
(* The audit, in the three instants at which it reads.                     *)
(***************************************************************************)

\* Every target of the journal holds its old or its new bytes.
Settleable(w, journal) ==
    \A i \in DOMAIN journal.new :
       /\ i \notin w.links
       /\ w.file[i] \in {journal.old[i], journal.new[i]}

\* _publication_winner
Winner(w, journal) ==
    IF Index \in DOMAIN journal.new /\ w.file[Index] = journal.new[Index]
    THEN "new" ELSE "old"

\* The lock and the journal come first and may end the audit.
Head(w, lock, journal, locked) ==
    LET stale == IF lock = "stale" THEN {Found("stale_lock", Lock)} ELSE {}
        ends(f) == [found |-> f, ends |-> TRUE]
    IN  IF {Root, Internal} \cap w.links # {} THEN ends(Linked(w, {Root, Internal}))
        ELSE IF lock \in {"command", "doctor"} /\ ~ locked
        THEN ends({Found("workspace_busy", Lock)})
        ELSE IF lock = "unknown" THEN ends({Found("lock_owner_unknown", Lock)})
        ELSE IF journal = None THEN [found |-> stale, ends |-> FALSE]
        ELSE ends(stale \cup {Found(IF Settleable(w, journal)
                                     THEN "publication_recovery_required"
                                     ELSE "publication_state_invalid", Journal)})

ConfigFindings(w) ==
    Linked(w, {Config}) \cup Modes(w, {Config, Root, Internal})
    \cup IF Config \notin w.links /\ ConfigOf(w) = None
         THEN {Found("workspace_input_invalid", Config)} ELSE {}

\* Corrections are validated later, against the index.
InputFindings(w) ==
    IF ConfigOf(w) = None THEN {}
    ELSE (IF PathsSafe(w, ConfigOf(w)) THEN {}
          ELSE {Found("managed_path_unsafe", Config)})
         \cup Modes(w, {Rules, Corrections})
         \cup IF Rules \notin w.links /\ w.file[Rules] = Damaged
              THEN {Found("workspace_input_invalid", Rules)} ELSE {}

ContainerFindings(w) ==
    Linked(w, {Container}) \cup Modes(w, {Container})
    \cup IF There(w, Container) THEN {}
         ELSE {Found("managed_metadata_invalid", Container)}

IndexFindings(w) ==
    Linked(w, {Index}) \cup Modes(w, {Index})
    \cup IF Index \notin w.links /\ IndexOf(w) = None
         THEN {Found(IF w.file[Index] = Newer THEN "newer_honeymoney_required"
                     ELSE "workspace_index_invalid", Index)} ELSE {}

\* Mutant: a summary that reads well is taken for the record's.
RecordFindingReadable(w, r) ==
    LET value == w.file[Record(r)]
    IN  IF value = Damaged THEN {Found("attempt_history_invalid", Record(r))}
        ELSE IF value = Newer THEN {Found("newer_honeymoney_required", Record(r))}
        ELSE IF value = Torn THEN {Found("import_record_invalid", Record(r))}
        ELSE Modes(w, {Summary(r)})
             \cup IF w.file[Summary(r)] # Damaged THEN {}
                  ELSE {Found("summary_invalid", Summary(r))}

\* A record with a damaged history is not looked into any further.
RecordFinding(w, r) ==
    LET value == w.file[Record(r)]
    IN  IF value = Damaged THEN {Found("attempt_history_invalid", Record(r))}
        ELSE IF value = Newer THEN {Found("newer_honeymoney_required", Record(r))}
        ELSE IF value = Torn THEN {Found("import_record_invalid", Record(r))}
        ELSE Modes(w, {Summary(r)})
             \cup IF w.file[Summary(r)] = value THEN {}
                  ELSE {Found("summary_invalid", Summary(r))}

RecordFindings(w) ==
    UNION {Modes(w, {Record(r)})
           \cup (IF {Record(r), Summary(r)} \cap w.links # {}
                 THEN Linked(w, {Record(r), Summary(r)})
                 ELSE RecordFinding(w, r))
           : r \in {s \in Records : There(w, Record(s)) /\ Container \notin w.links}}

EntryFindings(w) ==
    (IF There(w, Leftover) THEN {Found("publication_state_invalid", Leftover)} ELSE {})
    \cup IF There(w, Stray)
         THEN (IF Stray \in w.links THEN Linked(w, {Stray})
               ELSE {Found("unknown_managed_entry", Stray)})
         ELSE {}

\* _audit_durable_authority_agreement
AgreementFindings(w) ==
    LET index == IndexOf(w)
        ready == {r \in Records : Ready(w, r) /\ Summary(r) \notin w.links}
    IN  IF index = None THEN {}
        ELSE {Found("durable_state_conflict",
                    IF There(w, Record(r)) /\ Record(r) \notin w.links
                    THEN Record(r) ELSE Index) :
                r \in {s \in ready \cup Indexed(index) :
                         /\ s \in ready => index.rev[s] # w.file[Record(s)]
                         /\ w.file[Record(s)] \notin {Damaged, Torn}}}

\* The second instant: all but proofs, corrections and views.
DurableFindings(w) ==
    ConfigFindings(w) \cup InputFindings(w) \cup ContainerFindings(w)
    \cup IndexFindings(w) \cup RecordFindings(w) \cup EntryFindings(w)
    \cup AgreementFindings(w)

\* How many inputs a configuration names: the proofs must be of as many.
Named(config) == IF config = "profile" THEN 1 ELSE 0

\* _audit_input_proofs, with the index and configuration read before.
ProofFindings(w, index, config) ==
    IF config = None \/ ~ PathsSafe(w, config) THEN {}
    ELSE IF index.proofs = None
    THEN IF Indexed(index) = {} /\ Registered(index) = {} THEN {}
         ELSE {Found("workspace_index_invalid", Index)}
    ELSE {Found("full_rebuild_required", i) :
            i \in {j \in Inputs : w.file[j] # index.proofs[j]}}
         \cup IF Named(config) = Named(index.proofs[Config]) THEN {}
              ELSE {Found("workspace_index_invalid", Index)}

\* _valid_corrections_rows
CorrectionsValid(value, index) ==
    value # Damaged /\ value \subseteq Indexed(index)

CorrectionFindings(w, index, config) ==
    IF config \in {None, "outside"} \/ Corrections \in w.links
       \/ ~ There(w, Corrections) \/ CorrectionsValid(w.file[Corrections], index)
    THEN {} ELSE {Found("corrections_invalid", Corrections)}

\* Codes after which views are not derived.
DerivationBlockers ==
    {"attempt_history_invalid", "corrections_invalid", "durable_state_conflict",
     "full_rebuild_required", "import_record_invalid", "managed_path_unsafe",
     "publication_state_invalid", "workspace_input_invalid"}

\* _rederive_registered_views reads the workspace once more and compares what
\* it derives with the proofs of the index that was read before.
DerivedAsRegistered(w, index) ==
    /\ IndexOf(w) # None
    /\ RevisionsAgree(w, IndexOf(w))
    /\ \A p \in Registered(index) : Content(w, p, FALSE) = index.views[p]

\* _audit_unknown_view_entries
UnknownViews(w, index) ==
    {Found("unknown_managed_entry", ViewOf(p)) :
       p \in {q \in Periods \ Registered(index) : There(w, ViewOf(q))}}

\* _audit_one_registered_view
ViewFindings(w, index) ==
    UnknownViews(w, index) \cup Modes(w, {Views})
    \cup UNION {IF ViewOf(p) \in w.links THEN Linked(w, {ViewOf(p)})
                ELSE Modes(w, {ViewOf(p)})
                     \cup IF w.file[ViewOf(p)] = index.views[p] THEN {}
                          ELSE {Found("generated_view_invalid", ViewOf(p))}
                : p \in Registered(index)}

RegisteredViewFindings(w, index, found) ==
    IF Views \in w.links THEN Linked(w, {Views})
    ELSE IF ~ Rederivable(index) THEN ViewFindings(w, index)
    ELSE IF Codes(found) \cap DerivationBlockers # {} THEN {}
    ELSE IF DerivedAsRegistered(w, index) THEN ViewFindings(w, index)
    ELSE {Found("durable_state_conflict", Index)}

\* The third instant, with what was found and read at the second.
DerivedFindings(w, found, index, config) ==
    IF index = None THEN found
    ELSE LET f == found \cup ProofFindings(w, index, config)
                        \cup CorrectionFindings(w, index, config)
         IN  f \cup RegisteredViewFindings(w, index, f)

\* The whole audit of a workspace that stands still.
Findings(w, lock, journal) ==
    LET head == Head(w, lock, journal, FALSE)
    IN  IF head.ends THEN head.found
        ELSE DerivedFindings(w, head.found \cup DurableFindings(w),
                             IndexOf(w), ConfigOf(w))

-------------------------------------------------------------------------------
(***************************************************************************)
(* The report and the repair plan.                                         *)
(***************************************************************************)

\* The codes in the order in which findings are reported.
CodeOrder ==
    <<"attempt_history_invalid", "corrections_invalid", "durable_state_conflict",
      "full_rebuild_required", "generated_view_invalid", "import_record_invalid",
      "lock_owner_unknown", "managed_metadata_invalid", "managed_path_unsafe",
      "newer_honeymoney_required", "publication_recovery_required",
      "publication_state_invalid", "stale_lock", "summary_invalid",
      "unknown_managed_entry", "workspace_busy", "workspace_index_invalid",
      "workspace_input_invalid">>

Rank(code) == CHOOSE n \in DOMAIN CodeOrder : CodeOrder[n] = code

\* _audit_result keeps the first findings; the order of paths under one code
\* is the order of names, any order here.
Reports(findings) ==
    IF Cardinality(findings) <= MaxFindings THEN {findings}
    ELSE {kept \in SUBSET findings :
            /\ Cardinality(kept) = MaxFindings
            /\ \A f \in kept, g \in findings \ kept : Rank(f.code) <= Rank(g.code)}

HardCodes ==
    {"workspace_busy", "lock_owner_unknown", "publication_state_invalid",
     "workspace_input_invalid", "workspace_index_invalid", "import_record_invalid",
     "attempt_history_invalid", "corrections_invalid", "durable_state_conflict",
     "managed_path_unsafe", "newer_honeymoney_required"}

Blocked(report) == Codes(report) \cap HardCodes # {}

Action(kind, path, content) == [kind |-> kind, path |-> path, content |-> content]

\* build_summary from the record, as it is read now.
SummaryActions(w, report) ==
    {Action("rebuild_summary", f.path, w.file[Record(f.path[2])]) :
       f \in {g \in report : /\ g.code = "summary_invalid"
                             /\ Sound(w.file[Record(g.path[2])])}}

\* A file is written again with the bytes it has now; a directory is not.
ModeActions(w, report) ==
    {IF There(w, f.path) THEN Action("set_private_mode", f.path, w.file[f.path])
     ELSE Action("create_private_directory", f.path, "there") :
       f \in {g \in report : /\ g.code = "managed_metadata_invalid"
                             /\ g.path \notin w.links
                             /\ There(w, g.path) \/ g.path = Container}}

\* Mutant: the derived view is installed whatever the index has registered.
ViewActionsUnproved(w, report) ==
    {Action("rebuild_generated_view", f.path, Content(w, f.path[2], FALSE)) :
       f \in {g \in report : g.code = "generated_view_invalid"}}

\* Only a view that comes out as registered is installed.
ViewActions(w, report) ==
    IF IndexOf(w) = None \/ ~ Rederivable(IndexOf(w)) THEN {}
    ELSE {Action("rebuild_generated_view", f.path, Content(w, f.path[2], FALSE)) :
            f \in {g \in report :
                     /\ g.code = "generated_view_invalid"
                     /\ g.path[2] \in Registered(IndexOf(w))
                     /\ Content(w, g.path[2], FALSE) = IndexOf(w).views[g.path[2]]}}

\* Mutant: what can be repaired is planned whatever else was found.
PlanUnblocked(w, report) ==
    IF "publication_recovery_required" \in Codes(report)
    THEN {Action("settle_retained_publication", Journal, None)}
    ELSE {Action("remove_stale_lock", f.path, None) :
            f \in {g \in report : g.code = "stale_lock"}}
         \cup SummaryActions(w, report) \cup ModeActions(w, report)
         \cup ViewActions(w, report)

\* build_repair_plan
Plan(w, report) ==
    IF Blocked(report) THEN {}
    ELSE IF "publication_recovery_required" \in Codes(report)
    THEN {Action("settle_retained_publication", Journal, None)}
    ELSE {Action("remove_stale_lock", f.path, None) :
            f \in {g \in report : g.code = "stale_lock"}}
         \cup SummaryActions(w, report) \cup ModeActions(w, report)
         \cup ViewActions(w, report)

Kinds(plan) == {a.kind : a \in plan}

\* A mode is set by writing the file again; what is rebuilt is not written so.
FileTargets(plan) ==
    {a \in plan : /\ a.kind # "remove_stale_lock"
                  /\ a.path \notin Directories
                  /\ a.kind = "set_private_mode" =>
                       \A b \in plan : b.path = a.path => b.kind = "set_private_mode"}

\* A directory that is there is only made private.
DirectoryTargets(plan) == {a \in plan : a.path \in Directories}

Applied(w, plan) ==
    LET targets == FileTargets(plan) \cup DirectoryTargets(plan)
    IN  [w EXCEPT !.file = [i \in Items |->
                              IF \E a \in targets : a.path = i
                              THEN (CHOOSE a \in targets : a.path = i).content
                              ELSE @[i]],
                  !.loose = @ \ {a.path : a \in plan}]
===============================================================================
