-------------------------------- MODULE Doctor --------------------------------
(***************************************************************************)
(* doctor --fix beside commands, stops and a user: fix_workspace,          *)
(* _settle_repair_plan and _apply_repair_plan of doctor.py.                *)
(*                                                                         *)
(* An audit reads the workspace in three instants; the plan reads it once  *)
(* more.  Publication models how one generation is installed; here a       *)
(* command installs its files, then the index, then drops the journal, and *)
(* may stop in between.  WorkspaceViews and ImportRecords model what the   *)
(* commands do; here they import one record or rebuild every view.         *)
(***************************************************************************)
EXTENDS WorkspaceAudit

CONSTANTS
    Edits,          \* what a user may save: pairs of an item and its value
    Harm,           \* what may happen to an idle workspace, likewise
    Loosened,       \* items whose mode may be changed
    Replaced,       \* items that may be replaced by links
    MaxEach,        \* bound on touches (edits, harm, modes, links), on stops of
                    \* processes, on commands and on runs of doctor --fix
    MaxAll          \* bound on all of them together

VARIABLES
    ws,         \* the workspace
    lock,       \* "absent", "command", "doctor", "stale" or "unknown"
    journal,    \* the retained journal, or None
    command,    \* the running command, or None
    doctor,     \* the running doctor
    result,     \* how the last run ended; None once anything happens after it
    quiet,      \* history: nothing but doctor has moved since its run began
    used        \* bounds: touches, stops, commands, runs

vars == <<ws, lock, journal, command, doctor, result, quiet, used>>

Idle == [pc |-> "idle", audit |-> "none", found |-> {}, index |-> None,
         config |-> None, report |-> {}, plan |-> {}]

NewIndex(gen, rev, proofs, views, model) ==
    [gen |-> gen, rev |-> rev, proofs |-> proofs, views |-> views, model |-> model]

EmptyIndex ==
    NewIndex(0, [r \in Records |-> 0], None, [p \in {} |-> None], FALSE)

\* An index as a command or doctor writes it: its views are those that its
\* revisions and its inputs give.
Consistent(index) ==
    /\ index = NewIndex(index.gen, index.rev, index.proofs, index.views, index.model)
    /\ index.gen \in Nat /\ index.rev \in [Records -> Nat] /\ index.model \in BOOLEAN
    /\ index.proofs = None \/ index.proofs = [i \in Inputs |-> index.proofs[i]]
    /\ index.views =
         [p \in {PeriodOf[r] : r \in Indexed(index)} |->
            [rows |-> {<<r, index.rev[r]>> : r \in {s \in Indexed(index) : PeriodOf[s] = p}},
             inputs |-> index.proofs, answer |-> index.model]]

\* A user edits inputs and views.  A record, with its summary in it, may be
\* damaged but is not removed; an index that is put back was once written.
ASSUME DoctorAssumption ==
    /\ \A e \in Edits : e[1] \in Inputs \cup {ViewOf(p) : p \in Periods}
    /\ \A h \in Harm :
         /\ h[1] \in Items
         /\ \A r \in Records : h[1] = Record(r) => h[2] # Missing
         /\ h[1] = Index =>
              h[2] \in {Missing, Damaged, Newer} \/ Consistent(h[2])

\* A workspace as `honeymoney setup` leaves it.
Fresh ==
    [file |-> [i \in Items |->
                 IF i = Config THEN "plain" ELSE IF i = Rules THEN "v1"
                 ELSE IF i = Corrections THEN {}
                 ELSE IF i \in Directories \ {Views} THEN "there"
                 ELSE IF i = Index THEN EmptyIndex ELSE Missing],
     loose |-> {}, links |-> {}]

Init ==
    /\ ws = Fresh /\ lock = "absent" /\ journal = None
    /\ command = None /\ doctor = Idle
    /\ result = None /\ quiet = TRUE
    /\ used = [touches |-> 0, stops |-> 0, commands |-> 0, runs |-> 0]

Use(what) ==
    /\ used[what] < MaxEach
    /\ used.touches + used.stops + used.commands + used.runs < MaxAll
    /\ used' = [used EXCEPT ![what] = @ + 1]

\* Somebody other than doctor moves.
Disturb == quiet' = FALSE /\ result' = None

-------------------------------------------------------------------------------
(***************************************************************************)
(* Commands.                                                               *)
(***************************************************************************)

\* load_workspace and what every writer checks first.
Accepts(w) ==
    /\ {Root, Internal, Container, Index, Views} \cap w.links = {}
    /\ There(w, Container)
    /\ IndexOf(w) # None /\ ConfigOf(w) # None /\ PathsSafe(w, ConfigOf(w))
    /\ w.file[Rules] # Damaged
    /\ There(w, Corrections) => CorrectionsValid(w.file[Corrections], IndexOf(w))
    /\ RevisionsAgree(w, IndexOf(w))

\* _require_current_input_proofs
ProofsCurrent(w) ==
    LET proofs == IndexOf(w).proofs
    IN  proofs # None => \A i \in Inputs : proofs[i] = w.file[i]

\* The index of the next generation, from what w holds.
NextIndex(w) ==
    LET model == w.file[Config] = "model"
        rev   == [r \in Records |-> IF Ready(w, r) THEN w.file[Record(r)] ELSE 0]
    IN  NewIndex(IndexOf(w).gen + 1, rev, [i \in Inputs |-> w.file[i]],
                 [p \in {PeriodOf[r] : r \in {s \in Records : rev[s] # 0}} |->
                    Content(w, p, model)],
                 model)

\* The files of the next generation; only a full rebuild writes views that are
\* registered already.
NextFiles(w, full) ==
    LET old     == IndexOf(w)
        new     == NextIndex(w)
        written == {p \in Registered(new) :
                      full \/ p \notin Registered(old) \/ new.views[p] # old.views[p]}
    IN  [i \in Items |->
           IF i = Index THEN new
           ELSE IF i = Views /\ Registered(new) # {} THEN "there"
           ELSE IF i \in {ViewOf(p) : p \in written} THEN new.views[i[2]]
           ELSE w.file[i]]

\* The record as an import leaves it: a first success or one more.
Imported(w, r) ==
    LET n == IF w.file[Record(r)] = Missing THEN 1 ELSE w.file[Record(r)] + 1
    IN  [w EXCEPT !.file[Record(r)] = n, !.file[Summary(r)] = n]

\* The journal of a publication: its targets with their old and new bytes, and
\* the record that has an attempt reserved.
Publishing(old, new, record) ==
    LET changed == {i \in Items : old[i] # new[i]}
    IN  [old |-> [i \in changed |-> old[i]], new |-> [i \in changed |-> new[i]],
         reserved |-> record]

\* Files that are written are private.
Written(w, file) ==
    [w EXCEPT !.file = file, !.loose = @ \ {i \in Items : w.file[i] # file[i]}]

Begin(record, retained) ==
    /\ command = None /\ lock = "absent" /\ journal = None
    /\ Use("commands")
    /\ Accepts(ws)
    /\ lock' = "command" /\ journal' = retained
    /\ command' = [step |-> "held", record |-> record]
    /\ Disturb /\ UNCHANGED <<ws, doctor>>

\* An import or a replacement reserves its attempt; the journal retains that.
BeginImport(r) ==
    /\ {Record(r), Summary(r)} \cap ws.links = {}
    /\ ws.file[Record(r)] \in {Missing, 0, 1}
    /\ Accepts(ws) /\ ProofsCurrent(ws)
    /\ Begin(r, [old |-> <<>>, new |-> <<>>, reserved |-> r])

BeginRebuild == Begin(None, None)

\* The files of a generation are installed before its index.
Install ==
    /\ command # None /\ command.step = "held" /\ Accepts(ws)
    /\ LET r == command.record
           w == IF r = None THEN ws ELSE Imported(ws, r)
           new == NextFiles(w, r = None)
       IN  /\ journal' = Publishing(ws.file, new, r)
           /\ DOMAIN journal'.new \cap ws.links = {}
           /\ ws' = Written(ws, [new EXCEPT ![Index] = ws.file[Index]])
    /\ command' = [command EXCEPT !.step = "installed"]
    /\ Disturb /\ UNCHANGED <<lock, doctor, used>>

InstallIndex ==
    /\ command # None /\ command.step = "installed"
    /\ ws' = Written(ws, [ws.file EXCEPT ![Index] = journal.new[Index]])
    /\ command' = [command EXCEPT !.step = "committed"]
    /\ Disturb /\ UNCHANGED <<lock, journal, doctor, used>>

Leave == lock' = "absent" /\ journal' = None /\ command' = None

End ==
    /\ command # None /\ command.step = "committed"
    /\ Leave /\ Disturb /\ UNCHANGED <<ws, doctor, used>>

\* A reserved attempt that came to nothing, in the record's history.
Interrupted(file, r) ==
    IF r = None \/ file[Record(r)] # Missing THEN file
    ELSE [file EXCEPT ![Record(r)] = 0]

\* A command that fails publishes its failed attempt and the summary.
Fail ==
    /\ command # None /\ command.step = "held"
    /\ Leave
    /\ LET r == command.record
           file == Interrupted(ws.file, r)
       IN  ws' = IF r = None THEN ws
                 ELSE Written(ws, [file EXCEPT ![Summary(r)] = file[Record(r)]])
    /\ Disturb /\ UNCHANGED <<doctor, used>>

\* A command is killed: its journal stays, and its lock, which may not name its
\* owner yet.
Stop ==
    /\ command # None /\ Use("stops")
    /\ \/ lock' = "stale"
       \/ (command.step = "held" /\ journal = None /\ lock' = "unknown")
    /\ command' = None
    /\ Disturb /\ UNCHANGED <<ws, journal, doctor>>

-------------------------------------------------------------------------------
(***************************************************************************)
(* The user, and what happens to files.                                    *)
(***************************************************************************)
Touch(file, loose, links) ==
    /\ Use("touches")
    /\ ws' = [file |-> file, loose |-> loose, links |-> links]
    /\ ws' # ws
    /\ Disturb /\ UNCHANGED <<lock, journal, command, doctor>>

\* An editor saves an input or a view at any moment.
Save(i, value) ==
    Touch([ws.file EXCEPT ![i] = value], ws.loose, ws.links)

\* A mode is changed at any moment.
Loosen(i) ==
    There(ws, i) /\ Touch(ws.file, ws.loose \cup {i}, ws.links)

\* Damage, a restored file or a link: no process runs.
AtRest == command = None /\ doctor.pc = "idle"

Hurt(i, value) ==
    /\ AtRest
    /\ i \in {Stray, Leftover} \/ There(ws, i)
    /\ i = Container => \A r \in Records : ~ There(ws, Record(r))
    /\ Touch([ws.file EXCEPT ![i] = value], ws.loose, ws.links)

Replace(i) ==
    AtRest /\ There(ws, i) /\ Touch(ws.file, ws.loose, ws.links \cup {i})

-------------------------------------------------------------------------------
(***************************************************************************)
(* Doctor.                                                                 *)
(***************************************************************************)
Step(pc, audit, report, plan) ==
    doctor' = [Idle EXCEPT !.pc = pc, !.audit = audit, !.report = report,
                           !.plan = plan]

Finish(report, raised) ==
    /\ doctor' = Idle
    /\ result' = [report |-> report, quiet |-> quiet, raised |-> raised]

Audit(which) == Step("head", which, {}, {}) /\ UNCHANGED result

\* fix_workspace begins with an audit.
Run ==
    /\ doctor.pc = "idle" /\ Use("runs")
    /\ Step("head", "before", {}, {})
    /\ quiet' = (command = None) /\ result' = None
    /\ UNCHANGED <<ws, lock, journal, command>>

Conclude(findings) ==
    \E report \in Reports(findings) :
       IF doctor.audit = "after" THEN Finish(report, FALSE)
       ELSE Step("plan", doctor.audit, report, {}) /\ UNCHANGED result

ReadHead ==
    /\ doctor.pc = "head"
    /\ \E head \in {Head(ws, lock, journal, doctor.audit = "locked")} :
         IF head.ends THEN Conclude(head.found)
         ELSE /\ doctor' = [doctor EXCEPT !.pc = "durable", !.found = head.found]
              /\ UNCHANGED result
    /\ UNCHANGED <<ws, lock, journal, command, quiet, used>>

ReadDurable ==
    /\ doctor.pc = "durable"
    /\ doctor' = [doctor EXCEPT !.pc = "derived",
                                !.found = @ \cup DurableFindings(ws),
                                !.index = IndexOf(ws), !.config = ConfigOf(ws)]
    /\ UNCHANGED <<ws, lock, journal, command, result, quiet, used>>

ReadDerived ==
    /\ doctor.pc = "derived"
    /\ \E f \in {DerivedFindings(ws, doctor.found, doctor.index, doctor.config)} :
         Conclude(f)
    /\ UNCHANGED <<ws, lock, journal, command, quiet, used>>

Settles(plan) == "settle_retained_publication" \in Kinds(plan)

\* What a plan that was made without the lock leads to.
GoOn(plan) ==
    IF Settles(plan) /\ doctor.audit = "before"
    THEN Step("settle", doctor.audit, {}, plan)
    ELSE Step("unlock", doctor.audit, {}, plan)

\* fix_workspace and the follow-up of _settle_repair_plan.
MakePlan ==
    /\ doctor.pc = "plan" /\ doctor.audit # "locked"
    /\ \E plan \in {Plan(ws, doctor.report)} :
         \/ plan # {} /\ GoOn(plan) /\ UNCHANGED result
         \/ plan = {} /\ doctor.audit = "before" /\ Audit("after")
         \/ plan = {} /\ doctor.audit = "recovered" /\ Finish(doctor.report, FALSE)
    /\ UNCHANGED <<ws, lock, journal, command, quiet, used>>

\* The plan is made again under the lock.
MakeLockedPlan ==
    /\ doctor.pc = "plan" /\ doctor.audit = "locked"
    /\ \E plan \in {Plan(ws, doctor.report)} :
         \/ plan = {} /\ lock' = "absent" /\ Audit("after")
         \/ /\ Settles(plan) /\ lock' = "absent"
            /\ Step("settle", "locked", {}, plan) /\ UNCHANGED result
         \/ /\ plan # {} /\ ~ Settles(plan)
            /\ Step("publish", "locked", {}, plan) /\ UNCHANGED <<lock, result>>
    /\ UNCHANGED <<ws, journal, command, quiet, used>>


\* _remove_proved_stale_lock, if that is planned, comes before all else.
RemoveStaleLock ==
    /\ doctor.pc = "unlock"
    /\ IF "remove_stale_lock" \notin Kinds(doctor.plan)
       THEN doctor' = [doctor EXCEPT !.pc = "acquire"] /\ UNCHANGED <<lock, result>>
       ELSE /\ lock' = IF lock = "stale" THEN "absent" ELSE lock
            /\ IF lock = "stale" /\ Kinds(doctor.plan) # {"remove_stale_lock"}
               THEN doctor' = [doctor EXCEPT !.pc = "acquire"] /\ UNCHANGED result
               ELSE Audit("after")
    /\ UNCHANGED <<ws, journal, command, quiet, used>>

\* A lock that is there raises.
Acquire ==
    /\ doctor.pc = "acquire"
    /\ IF lock = "absent" THEN lock' = "doctor" /\ Audit("locked")
       ELSE Finish({}, TRUE) /\ UNCHANGED lock
    /\ UNCHANGED <<ws, journal, command, quiet, used>>

\* The workspace with one repair generation published.
Repaired(w) ==
    LET r == Applied(w, doctor.plan)
    IN  [r EXCEPT !.file[Index] = [IndexOf(w) EXCEPT !.gen = @ + 1]]

\* publish_generation raises on an index that cannot be read, on a target that
\* is a link, and on two targets of one name: the index is always one.
Publishable ==
    /\ IndexOf(ws) # None
    /\ \A a \in doctor.plan : a.path # Index /\ a.path \notin ws.links

Publish ==
    /\ doctor.pc = "publish"
    /\ lock' = "absent"
    /\ IF Publishable THEN ws' = Repaired(ws) /\ Audit("after")
       ELSE Finish({}, TRUE) /\ UNCHANGED ws
    /\ UNCHANGED <<journal, command, quiet, used>>

\* The winner's bytes, and the interrupted attempt of a side that lost.
Settled ==
    LET j == journal
        new == Winner(ws, j) = "new"
        file == [i \in Items |->
                   IF i \notin DOMAIN j.new THEN ws.file[i]
                   ELSE IF new THEN j.new[i] ELSE j.old[i]]
    IN  [ws EXCEPT !.file = IF new THEN file ELSE Interrupted(file, j.reserved),
                   !.loose = @ \ DOMAIN j.new]

DropJournal == journal' = None

\* settle_retained_publication takes the lock itself, a stale one's place too.
Settle ==
    /\ doctor.pc = "settle"
    /\ IF lock \in {"command", "unknown"} \/ journal = None
       THEN /\ Audit("after")
            /\ lock' = IF lock = "stale" THEN "absent" ELSE lock
            /\ UNCHANGED <<ws, journal>>
       ELSE /\ lock' = "absent"
            /\ IF Settleable(ws, journal)
               THEN ws' = Settled /\ DropJournal /\ Audit("recovered")
               ELSE UNCHANGED <<ws, journal>> /\ Audit("after")
    /\ UNCHANGED <<command, quiet, used>>

\* Doctor is killed, possibly with its generation half installed.
DoctorStop ==
    /\ doctor.pc # "idle" /\ Use("stops")
    /\ lock' = IF lock = "doctor" THEN "stale" ELSE lock
    /\ doctor' = Idle
    /\ \/ UNCHANGED <<ws, journal>>
       \/ /\ doctor.pc = "publish" /\ Publishable
          /\ journal' = Publishing(ws.file, Repaired(ws).file, None)
          /\ ws' \in {ws, Repaired(ws),
                      [Repaired(ws) EXCEPT !.file[Index] = ws.file[Index]]}
    /\ result' = None /\ quiet' = FALSE
    /\ UNCHANGED command

DoctorStep ==
    \/ ReadHead \/ ReadDurable \/ ReadDerived \/ MakePlan \/ MakeLockedPlan
    \/ RemoveStaleLock \/ Acquire \/ Publish \/ Settle

Next ==
    \/ \E r \in Records : BeginImport(r)
    \/ BeginRebuild \/ Install \/ InstallIndex \/ End \/ Fail \/ Stop
    \/ \E e \in Edits : Save(e[1], e[2])
    \/ \E h \in Harm : Hurt(h[1], h[2])
    \/ \E i \in Loosened : Loosen(i)
    \/ \E i \in Replaced : Replace(i)
    \/ Run \/ DoctorStep \/ DoctorStop

Spec == Init /\ [][Next]_vars

\* A process that runs goes on.
FairSpec == Spec /\ WF_vars(DoctorStep)

-------------------------------------------------------------------------------
(***************************************************************************)
(* Properties.                                                             *)
(***************************************************************************)

\* The index, the records, the summaries, the inputs and the views agree, and
\* nothing is open to others, retained or held.
InOrder(w) ==
    LET index == IndexOf(w)
        there == {i \in Items : There(w, i)}
    IN  /\ lock = "absent" /\ journal = None
        /\ index # None /\ ConfigOf(w) # None
        /\ there \cap (w.links \cup w.loose) = {}
        /\ RevisionsAgree(w, index)
        /\ \A r \in Records :
             /\ There(w, Record(r)) => w.file[Summary(r)] = w.file[Record(r)]
             /\ Ready(w, r) => PeriodOf[r] \in Registered(index)
        /\ \A p \in Registered(index) :
             /\ w.file[ViewOf(p)] = index.views[p]
             /\ index.views[p] = Content(w, p, index.model)

\* A healthy verdict on a workspace that stood still means that its durable
\* facts, its summaries and its views agree, whichever check would have told.
\* (README.md, "Doctor audits the whole workspace")
HealthyMeansSound ==
    result # None /\ result.quiet /\ ~ result.raised /\ result.report = {}
      => InOrder(ws)

\* What doctor says it can repair.
Repairable(w, f) ==
    \/ f.code \in {"stale_lock", "summary_invalid", "managed_metadata_invalid",
                   "publication_recovery_required"}
    \/ f.code = "generated_view_invalid" /\ Rederivable(IndexOf(w))

\* An undisturbed run of doctor --fix leaves nothing that it could repair, or
\* damage that only a backup repairs, in whatever order it met lock, journal,
\* files and modes: no second run is needed.  The mode of the index itself is
\* left out, because a plan to repair it raises.  (docs/doctor.md, "With exact
\* proof, --fix may", "and runs the audit again")
SettledAtEnd ==
    result # None /\ result.quiet /\ Index \notin ws.loose =>
      LET left == Findings(ws, lock, journal)
      IN  /\ Blocked(left) \/ \A f \in left : ~ Repairable(ws, f)
          /\ ~ result.raised

\* No repair is published over hard damage that doctor has looked at.
\* (docs/doctor.md, "It refuses every repair when")
HardDamageRefused ==
    [][ doctor # doctor' /\ ws # ws' /\ journal = None /\ quiet =>
          ~ Blocked(Findings(ws, "absent", None)) ]_vars

\* Without a journal doctor writes only while no command runs, no record, and
\* only what the records and the index that are in place prove, whatever
\* commands and stops came between its first audit and its lock.  A file of the
\* user gets other bytes only where a mode repair had read them for its plan.
\* (docs/adr/0008, "It never guesses durable facts")
RepairsAreProved ==
    [][ doctor # doctor' /\ ws # ws' /\ journal = None =>
          /\ command = None
          /\ ws'.file[Index] \in {ws.file[Index], [ws.file[Index] EXCEPT !.gen = @ + 1]}
          /\ \A r \in Records :
               /\ ws'.file[Record(r)] = ws.file[Record(r)]
               /\ ws'.file[Summary(r)] \in {ws.file[Summary(r)], ws.file[Record(r)]}
          /\ \A i \in Inputs \cup {ViewOf(p) : p \in Periods} :
               \/ ws'.file[i] = ws.file[i]
               \/ Action("set_private_mode", i, ws'.file[i]) \in doctor.plan
               \/ \E p \in Registered(ws.file[Index]) :
                     i = ViewOf(p) /\ ws'.file[i] = ws.file[Index].views[p] ]_vars

\* Settlement leads to an audit, that to a repair, and that possibly to another
\* settlement; doctor ends nevertheless.
FixEnds == doctor.pc # "idle" ~> doctor.pc = "idle"

===============================================================================
