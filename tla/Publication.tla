------------------------------ MODULE Publication -----------------------------
(***************************************************************************)
(* The publication journal of honeymoney/workspace_publication.py.         *)
(*                                                                         *)
(* A command that holds the workspace lock reserves attempt numbers,       *)
(* writes a journal, retains old and new bytes, installs every target with *)
(* the workspace index last, finalizes the attempt reports and removes the *)
(* journal.  It can raise or be killed between any two steps; then only    *)
(* doctor --fix may touch the journal, and it may be killed as well.       *)
(*                                                                         *)
(* One step of the model is one step that a kill can separate from the     *)
(* next: the replacement, creation or removal of one name.  The order of   *)
(* equal steps (two files, two directories of one depth) is left open.     *)
(***************************************************************************)
EXTENDS Naturals, FiniteSets

CONSTANTS
    Files,          \* managed files other than the workspace index
    Index,          \* the workspace index, as a name among the targets
    Attempts,       \* attempt report names
    Dirs,           \* managed directories
    Above,          \* name -> the managed directories it lies in
    ViewDirs,       \* the directories cleanup prunes: views and its periods
    Bytes,          \* file contents
    Absent,         \* the content of a file that does not exist
    Plans,          \* what a command may publish: [files, new]
    FaultKinds,     \* the faults considered
    MaxFaults,      \* bound: faults in one behaviour
    MaxGenerations  \* bound: generations begun in one behaviour

Content == Bytes \cup {Absent}
Sides   == {"old", "new"}
Docs    == {"success", "failure", "interrupted"}

ASSUME NamesAssumption ==
    /\ Index \notin Files
    /\ Absent \notin Bytes
    /\ ViewDirs \subseteq Dirs
    /\ \A x \in Files \cup Attempts \cup Dirs :
          /\ Above[x] \subseteq Dirs \ {x}
          /\ \A d \in Above[x] : Above[d] \subseteq Above[x]

ASSUME PlansAssumption ==
    Plans \subseteq [files : SUBSET Files, new : [Files -> Content]]

ASSUME BoundsAssumption == MaxFaults \in Nat /\ MaxGenerations \in Nat

VARIABLES
    disk,       \* the installed files
    index,      \* the generation the installed workspace index names
    dirs,       \* the managed directories that exist
    report,     \* attempt -> its final document, or "none"
    temp,       \* attempt -> its staging document, "none" or "torn"
    journal,    \* the publication journal; phase "none" when there is none
    retained,   \* recovery copies that are complete: <<side, target>>
    issued,     \* generations begun so far
    lock,       \* "free", "held" or "stale" (its owner was killed)
    who,        \* the running owner: "none", "command" or "doctor"
    pc,         \* the owner's next step
    use,        \* the side the owner installs
    faults      \* faults so far

fileVars   == <<disk, index, dirs>>
reportVars == <<report, temp>>
ownerVars  == <<lock, who, use>>
vars == <<disk, index, dirs, report, temp, journal, retained, issued, lock,
          who, pc, use, faults>>

(***************************************************************************)
(* The journal.  "commit" is index_commit_sha256, "base" the old index     *)
(* digest of the index entry; digests stand for the generation they name.  *)
(* old and new are given for every file and agree on those that are no     *)
(* entries.                                                                *)
(***************************************************************************)
JournalType ==
    [phase    : {"none", "reserved", "staging", "prepared", "committed"},
     policy   : {"index", "fixed"},
     gen      : Nat,
     commit   : Nat,
     base     : Nat,
     files    : SUBSET Files,
     old      : [Files -> Content],
     new      : [Files -> Content],
     mkdirs   : SUBSET Dirs,
     attempts : SUBSET Attempts,
     win      : [Attempts -> Docs],
     lose     : [Attempts -> Docs]]

NoJournal ==
    [phase |-> "none", policy |-> "index", gen |-> 0, commit |-> 0, base |-> 0,
     files |-> {}, old |-> [f \in Files |-> Absent],
     new |-> [f \in Files |-> Absent], mkdirs |-> {}, attempts |-> {},
     win |-> [a \in Attempts |-> "interrupted"],
     lose |-> [a \in Attempts |-> "interrupted"]]

Retained == journal.phase # "none"

\* The generation proved to have won: _publication_winner.
Winner ==
    CASE journal.phase = "reserved"  -> "old"
      [] journal.phase = "committed" -> "new"
      [] journal.phase \notin {"reserved", "committed"} /\ journal.policy = "fixed" ->
            IF journal.phase = "prepared" THEN "new" ELSE "old"
      [] OTHER -> IF index = journal.commit THEN "new" ELSE "old"

\* The recovery copies the entries name.
Required ==
    {<<"old", f>> : f \in {g \in journal.files : journal.old[g] # Absent}}
      \cup {<<"new", f>> : f \in {g \in journal.files : journal.new[g] # Absent}}
      \cup (IF journal.policy = "index" /\ journal.phase # "reserved"
            THEN {<<"old", Index>>, <<"new", Index>>} ELSE {})

Want     == IF use = "new" THEN journal.new ELSE journal.old
WantIndex == IF journal.policy = "fixed" THEN index
             ELSE IF use = "new" THEN journal.commit ELSE journal.base
Ending(a) == IF use = "new" THEN journal.win[a] ELSE journal.lose[a]

\* A directory can be removed when nothing is in it.
Empty(d) ==
    /\ \A f \in Files : disk[f] # Absent => d \notin Above[f]
    /\ \A e \in dirs : d \notin Above[e]
    /\ \A a \in Attempts : (report[a] # "none" \/ temp[a] # "none") => d \notin Above[a]

TypeOK ==
    /\ disk \in [Files -> Content]
    /\ index \in Nat
    /\ dirs \subseteq Dirs
    /\ report \in [Attempts -> Docs \cup {"none"}]
    /\ temp \in [Attempts -> Docs \cup {"none", "torn"}]
    /\ journal \in JournalType
    /\ retained \subseteq (Sides \X (Files \cup {Index}))
    /\ issued \in Nat
    /\ lock \in {"free", "held", "stale"}
    /\ who \in {"none", "command", "doctor"}
    /\ pc \in {"idle", "ready", "reserved", "retain", "load", "install", "finalize",
               "mark", "cleanup", "prune", "unlink", "release"}
    /\ use \in Sides
    /\ faults \in Nat

\* A workspace as setup leaves it: an index, no records, no views.
Init ==
    /\ disk = [f \in Files |-> Absent]
    /\ dirs = {}
    /\ index = 0
    /\ report = [a \in Attempts |-> "none"]
    /\ temp = [a \in Attempts |-> "none"]
    /\ journal = NoJournal
    /\ retained = {}
    /\ issued = 0
    /\ lock = "free"
    /\ who = "none"
    /\ pc = "idle"
    /\ use = "old"
    /\ faults = 0

-------------------------------------------------------------------------------
(***************************************************************************)
(* The command.                                                            *)
(***************************************************************************)

\* WorkspaceLock.acquire by a command; load_workspace refuses to go on while
\* a journal is retained, before the lock and again under it.
AcquireLock ==
    /\ lock = "free"
    /\ ~Retained
    /\ lock' = "held" /\ who' = "command" /\ pc' = "ready"
    /\ UNCHANGED <<fileVars, reportVars, journal, retained, issued, use, faults>>

\* The directories missing above the targets that will exist and above the
\* attempt reports.
MissingDirs(files, new, attempts) ==
    (UNION {Above[x] : x \in {f \in files : new[f] # Absent} \cup attempts}) \ dirs

\* The attempts end as successes except those known to be parse failures.
WinDocs(attempts, failed) ==
    [a \in Attempts |-> IF a \in failed THEN "failure"
                        ELSE IF a \in attempts THEN "success" ELSE "interrupted"]
LoseDocs(attempts, failed) ==
    [a \in Attempts |-> IF a \in failed THEN "failure" ELSE "interrupted"]

NextGen == issued + 1

\* reserve_publication: the attempt numbers become durable before any work.
Reserve(attempts) ==
    /\ who = "command" /\ pc = "ready"
    /\ ~Retained
    /\ issued < MaxGenerations
    /\ attempts # {}
    /\ \A a \in attempts : report[a] = "none"
    /\ journal' = [NoJournal EXCEPT
                     !.phase = "reserved", !.gen = NextGen, !.commit = index,
                     !.base = index, !.old = disk, !.new = disk,
                     !.attempts = attempts]
    /\ issued' = NextGen
    /\ pc' = "reserved"
    /\ UNCHANGED <<fileVars, reportVars, ownerVars, retained, faults>>

\* The staging journal: entries record what the disk holds now and what each
\* target is to become; targets outside the entries keep what they hold.
Staging(policy, gen, files, new, attempts, failed) ==
    LET next == [f \in Files |-> IF f \in files THEN new[f] ELSE disk[f]]
    IN  [phase |-> "staging", policy |-> policy, gen |-> gen,
         commit |-> IF policy = "index" THEN gen ELSE index,
         base |-> index, files |-> files, old |-> disk, new |-> next,
         mkdirs |-> MissingDirs(files, next, attempts), attempts |-> attempts,
         win |-> WinDocs(attempts, failed), lose |-> LoseDocs(attempts, failed)]

\* publish_generation, as every command but import calls it: no attempts.
StageGeneration(p) ==
    /\ who = "command" /\ pc = "ready"
    /\ ~Retained
    /\ issued < MaxGenerations
    /\ journal' = Staging("index", NextGen, p.files, p.new, {}, {})
    /\ issued' = NextGen
    /\ pc' = "retain"
    /\ UNCHANGED <<fileVars, reportVars, ownerVars, retained, faults>>

\* publish_failed_attempts: known failures, no other target.
StageFailedAttempts(attempts) ==
    /\ who = "command" /\ pc = "ready"
    /\ ~Retained
    /\ issued < MaxGenerations
    /\ attempts # {}
    /\ \A a \in attempts : report[a] = "none"
    /\ journal' = Staging("fixed", NextGen, {}, disk, attempts, attempts)
    /\ issued' = NextGen
    /\ pc' = "retain"
    /\ UNCHANGED <<fileVars, reportVars, ownerVars, retained, faults>>

\* publish_reserved_generation: the reserved journal is enriched; some of the
\* attempts may be known parse failures.
StageReservedGeneration(p, failed) ==
    /\ who = "command" /\ pc = "reserved"
    /\ failed \subseteq journal.attempts
    /\ \A a \in journal.attempts : report[a] = "none"
    /\ journal' = Staging("index", journal.gen, p.files, p.new,
                          journal.attempts, failed)
    /\ pc' = "retain"
    /\ UNCHANGED <<fileVars, reportVars, ownerVars, retained, issued, faults>>

\* publish_reserved_failures: every attempt failed, the index is kept.
StageReservedFailures(p) ==
    /\ who = "command" /\ pc = "reserved"
    /\ index = journal.commit
    /\ \A a \in journal.attempts : report[a] = "none"
    /\ journal' = Staging("fixed", journal.gen, p.files, p.new,
                          journal.attempts, journal.attempts)
    /\ pc' = "retain"
    /\ UNCHANGED <<fileVars, reportVars, ownerVars, retained, issued, faults>>

\* _retain_entry: one complete recovery copy.
Retain(x) ==
    /\ who = "command" /\ pc = "retain"
    /\ x \in Required \ retained
    /\ retained' = retained \cup {x}
    /\ UNCHANGED <<fileVars, reportVars, ownerVars, journal, issued, pc, faults>>

\* Mutant: prepared before every recovery copy is written.
PrepareEarly ==
    /\ who = "command" /\ pc = "retain"
    /\ journal' = [journal EXCEPT !.phase = "prepared"]
    /\ use' = "new"
    /\ pc' = "install"
    /\ UNCHANGED <<fileVars, reportVars, retained, issued, lock, who, faults>>

\* All copies are flushed; the journal says so.
Prepare ==
    /\ who = "command" /\ pc = "retain"
    /\ Required \subseteq retained
    /\ journal' = [journal EXCEPT !.phase = "prepared"]
    /\ use' = "new"
    /\ pc' = "install"
    /\ UNCHANGED <<fileVars, reportVars, retained, issued, lock, who, faults>>

-------------------------------------------------------------------------------
(***************************************************************************)
(* Steps a command and doctor share: _install_generation_entries.  Forward *)
(* the order is directories, files, index; backward files, directories.    *)
(***************************************************************************)

MakeDirectory(d) ==
    /\ pc = "install" /\ use = "new"
    /\ d \in journal.mkdirs \ dirs
    /\ Above[d] \subseteq dirs
    /\ dirs' = dirs \cup {d}
    /\ UNCHANGED <<disk, index, reportVars, ownerVars, journal, retained, issued,
                   pc, faults>>

InstallFile(f) ==
    /\ pc = "install"
    /\ use = "new" => journal.mkdirs \subseteq dirs
    /\ f \in journal.files
    /\ disk[f] # Want[f]
    /\ Want[f] # Absent => <<use, f>> \in retained
    /\ disk' = [disk EXCEPT ![f] = Want[f]]
    /\ dirs' = IF Want[f] = Absent THEN dirs ELSE dirs \cup Above[f]
    /\ UNCHANGED <<index, reportVars, ownerVars, journal, retained, issued, pc,
                   faults>>

FilesInstalled == \A f \in journal.files : disk[f] = Want[f]
DirsInstalled  == IF use = "new" THEN journal.mkdirs \subseteq dirs
                  ELSE journal.mkdirs \cap dirs = {}

\* Backward, a created directory goes after everything below it.
NextRemoval(d) ==
    /\ pc = "install" /\ use = "old"
    /\ FilesInstalled
    /\ d \in journal.mkdirs \cap dirs
    /\ \A e \in journal.mkdirs \cap dirs : d \notin Above[e]

RemoveDirectory(d) ==
    /\ NextRemoval(d)
    /\ Empty(d)
    /\ dirs' = dirs \ {d}
    /\ UNCHANGED <<disk, index, reportVars, ownerVars, journal, retained, issued,
                   pc, faults>>

\* The last replacement of a generation is its commit point.
InstallIndex ==
    /\ pc = "install"
    /\ DirsInstalled /\ FilesInstalled
    /\ index # WantIndex
    /\ <<use, Index>> \in retained
    /\ index' = WantIndex
    /\ UNCHANGED <<disk, dirs, reportVars, ownerVars, journal, retained, issued,
                   pc, faults>>

\* Mutant: reports are finalized before the index is replaced.
InstalledBeforeIndex ==
    /\ pc = "install"
    /\ DirsInstalled /\ FilesInstalled
    /\ pc' = "finalize"
    /\ UNCHANGED <<fileVars, reportVars, ownerVars, journal, retained, issued,
                   faults>>

\* Mutant: reports are finalized before every file is installed.
InstalledBeforeFiles ==
    /\ pc = "install"
    /\ DirsInstalled
    /\ index = WantIndex
    /\ pc' = "finalize"
    /\ UNCHANGED <<fileVars, reportVars, ownerVars, journal, retained, issued,
                   faults>>

Installed ==
    /\ pc = "install"
    /\ DirsInstalled /\ FilesInstalled
    /\ index = WantIndex
    /\ pc' = "finalize"
    /\ UNCHANGED <<fileVars, reportVars, ownerVars, journal, retained, issued,
                   faults>>

-------------------------------------------------------------------------------
(***************************************************************************)
(* _finalize_attempts: stage the document, link it to its name, unlink the *)
(* staging name.  An existing report is never replaced.                    *)
(***************************************************************************)

NoStaging == \A b \in journal.attempts : temp[b] = "none"

MakeReportDirectory(a) ==
    /\ pc = "finalize"
    /\ a \in journal.attempts
    /\ ~ (Above[a] \subseteq dirs)
    /\ dirs' = dirs \cup Above[a]
    /\ UNCHANGED <<disk, index, reportVars, ownerVars, journal, retained, issued,
                   pc, faults>>

StagesReport(a) ==
    /\ pc = "finalize"
    /\ a \in journal.attempts
    /\ Above[a] \subseteq dirs
    /\ report[a] = "none"
    /\ NoStaging

\* Mutant: the winner's document is staged whoever won.
StageWinReport(a) ==
    /\ StagesReport(a)
    /\ temp' = [temp EXCEPT ![a] = journal.win[a]]
    /\ UNCHANGED <<fileVars, report, ownerVars, journal, retained, issued, pc,
                   faults>>

StageReport(a) ==
    /\ StagesReport(a)
    /\ temp' = [temp EXCEPT ![a] = Ending(a)]
    /\ UNCHANGED <<fileVars, report, ownerVars, journal, retained, issued, pc,
                   faults>>

LinkReport(a) ==
    /\ pc = "finalize"
    /\ a \in journal.attempts
    /\ Above[a] \subseteq dirs
    /\ report[a] = "none"
    /\ temp[a] = Ending(a)
    /\ report' = [report EXCEPT ![a] = temp[a]]
    /\ UNCHANGED <<fileVars, temp, ownerVars, journal, retained, issued, pc,
                   faults>>

UnlinkStaging(a) ==
    /\ pc = "finalize"
    /\ a \in journal.attempts
    /\ report[a] = Ending(a)
    /\ temp[a] = Ending(a)
    /\ temp' = [temp EXCEPT ![a] = "none"]
    /\ UNCHANGED <<fileVars, report, ownerVars, journal, retained, issued, pc,
                   faults>>

\* Mutant: cleanup may begin before every attempt has its report.
FinalizedEarly ==
    /\ pc = "finalize"
    /\ NoStaging
    /\ pc' = IF who = "command" THEN "mark" ELSE "cleanup"
    /\ UNCHANGED <<fileVars, reportVars, ownerVars, journal, retained, issued,
                   faults>>

\* Reports are final.  A command records the commit in the journal; doctor
\* goes straight to cleanup and leaves the journal's phase as it found it.
Finalized ==
    /\ pc = "finalize"
    /\ NoStaging
    /\ \A a \in journal.attempts : report[a] = Ending(a)
    /\ pc' = IF who = "command" THEN "mark" ELSE "cleanup"
    /\ UNCHANGED <<fileVars, reportVars, ownerVars, journal, retained, issued,
                   faults>>

MarkCommitted ==
    /\ pc = "mark"
    /\ journal' = [journal EXCEPT !.phase = "committed"]
    /\ pc' = "cleanup"
    /\ UNCHANGED <<fileVars, reportVars, ownerVars, retained, issued, faults>>

-------------------------------------------------------------------------------
(***************************************************************************)
(* _cleanup: recovery copies, then emptied view directories, then the      *)
(* journal.  The lock is released last.                                    *)
(***************************************************************************)

DropRetained(x) ==
    /\ pc = "cleanup"
    /\ x \in retained
    /\ retained' = retained \ {x}
    /\ UNCHANGED <<fileVars, reportVars, ownerVars, journal, issued, pc, faults>>

RetainedDropped ==
    /\ pc = "cleanup"
    /\ retained = {}
    /\ pc' = "prune"
    /\ UNCHANGED <<fileVars, reportVars, ownerVars, journal, retained, issued,
                   faults>>

\* View directories of the entries that hold no file any more; rmdir fails
\* silently on the others.
Touched == {d \in ViewDirs \cap dirs : \E f \in journal.files : d \in Above[f]}
Pruned  == {d \in Touched :
              /\ \A f \in Files : disk[f] # Absent => d \notin Above[f]
              /\ \A a \in Attempts : d \notin Above[a]
              /\ \A e \in dirs : d \in Above[e] => e \in Touched}

PruneViews ==
    /\ pc = "prune"
    /\ dirs' = dirs \ Pruned
    /\ pc' = "unlink"
    /\ UNCHANGED <<disk, index, reportVars, ownerVars, journal, retained, issued,
                   faults>>

DropJournal ==
    /\ pc = "unlink"
    /\ journal' = NoJournal
    /\ pc' = "release"
    /\ UNCHANGED <<fileVars, reportVars, ownerVars, retained, issued, faults>>

\* The owner leaves: the lock is free when it could run its exit, stale when
\* it was killed.
Leave(newLock) ==
    /\ lock' = newLock /\ who' = "none" /\ pc' = "idle" /\ use' = "old"

\* Also a command that ends without publishing.
ReleaseLock ==
    /\ pc \in {"ready", "release"}
    /\ Leave("free")
    /\ UNCHANGED <<fileVars, reportVars, journal, retained, issued, faults>>

-------------------------------------------------------------------------------
(***************************************************************************)
(* Doctor: settle_retained_publication.                                    *)
(***************************************************************************)

\* A stale lock is removed and the lock taken; module WorkspaceLock has the
\* steps of this.
SettleStart ==
    /\ lock \in {"free", "stale"}
    /\ Retained
    /\ lock' = "held" /\ who' = "doctor" /\ pc' = "load"
    /\ UNCHANGED <<fileVars, reportVars, journal, retained, issued, use, faults>>

\* _remove_proved_stale_lock, when nothing is retained.
RemoveStaleLock ==
    /\ lock = "stale"
    /\ ~Retained
    /\ lock' = "free"
    /\ UNCHANGED <<fileVars, reportVars, journal, retained, issued, who, pc, use,
                   faults>>

\* Mutant: the recovery copies are required of an unprepared journal as well.
JournalLoadsStrict == Required \subseteq retained

\* _load_journal and _validate_current_targets accept what they read.
JournalLoads == journal.phase = "prepared" => Required \subseteq retained

\* Mutant: only the index is compared with the journal.
IndexMatches ==
    /\ journal.policy = "fixed" \/ journal.phase = "reserved" =>
         index = journal.commit
    /\ journal.policy = "index" => index \in {journal.base, journal.commit}

TargetsMatch ==
    /\ journal.policy = "fixed" \/ journal.phase = "reserved" =>
         index = journal.commit
    /\ journal.policy = "index" => index \in {journal.base, journal.commit}
    /\ \A f \in journal.files : disk[f] \in {journal.old[f], journal.new[f]}

CommittedTargetsMatch ==
    journal.phase = "committed" =>
        /\ index = journal.commit
        /\ \A f \in journal.files : disk[f] = journal.new[f]
        /\ journal.mkdirs \subseteq dirs

Settleable == JournalLoads /\ TargetsMatch /\ CommittedTargetsMatch

Settle ==
    /\ pc = "load"
    /\ Settleable
    /\ use' = Winner
    /\ pc' = "install"
    /\ UNCHANGED <<fileVars, reportVars, journal, retained, issued, lock, who,
                   faults>>

\* The steps that raise: evidence that does not add up, a copy that is not
\* there, a directory that is not empty, staging bytes or a report that are
\* not the expected ones.
SettleRefused    == pc = "load" /\ ~Settleable
InstallBlocked   ==
    /\ pc = "install"
    /\ \E f \in journal.files :
          disk[f] # Want[f] /\ Want[f] # Absent /\ <<use, f>> \notin retained
RollbackBlocked  == \E d \in journal.mkdirs : NextRemoval(d) /\ ~Empty(d)
FinalizeBlocked  ==
    /\ pc = "finalize"
    /\ \E a \in journal.attempts :
          \/ report[a] \notin {"none", Ending(a)}
          \/ temp[a] \notin {"none", Ending(a)}

Refuse ==
    /\ SettleRefused \/ InstallBlocked \/ RollbackBlocked \/ FinalizeBlocked
    /\ Leave("free")
    /\ UNCHANGED <<fileVars, reportVars, journal, retained, issued, faults>>

-------------------------------------------------------------------------------
(***************************************************************************)
(* Faults.                                                                 *)
(***************************************************************************)

Fault(kind) ==
    /\ kind \in FaultKinds
    /\ faults < MaxFaults
    /\ faults' = faults + 1

\* The owner is killed between two steps.  Its lock stays behind.
Stop ==
    /\ \/ who = "command" /\ Fault("command_stop")
       \/ who = "doctor" /\ Fault("doctor_stop")
    /\ Leave("stale")
    /\ UNCHANGED <<fileVars, reportVars, journal, retained, issued>>

\* An operation raises.  Partly written files are unlinked, the journal is
\* retained and the lock released.
Fail ==
    /\ \/ who = "command" /\ Fault("command_error")
       \/ who = "doctor" /\ Fault("doctor_error")
    /\ Leave("free")
    /\ UNCHANGED <<fileVars, reportVars, journal, retained, issued>>

\* The owner is killed while _write_new writes a report's staging file.
StopInReport(a) ==
    /\ StagesReport(a)
    /\ Fault("torn_report")
    /\ temp' = [temp EXCEPT ![a] = "torn"]
    /\ Leave("stale")
    /\ UNCHANGED <<fileVars, report, journal, retained, issued>>

\* A target is edited or removed by hand while the journal is retained and
\* nobody runs.
ExternalEdit(f, c) ==
    /\ who = "none"
    /\ Retained
    /\ f \in journal.files
    /\ c # disk[f]
    /\ c # Absent => Above[f] \subseteq dirs
    /\ Fault("external_edit")
    /\ disk' = [disk EXCEPT ![f] = c]
    /\ UNCHANGED <<index, dirs, reportVars, ownerVars, journal, retained, issued,
                   pc>>
-------------------------------------------------------------------------------

Begin ==
    \/ AcquireLock
    \/ \E attempts \in SUBSET Attempts : Reserve(attempts)
    \/ \E p \in Plans : StageGeneration(p)
    \/ \E attempts \in SUBSET Attempts : StageFailedAttempts(attempts)
    \/ \E p \in Plans, failed \in SUBSET Attempts : StageReservedGeneration(p, failed)
    \/ \E p \in Plans : StageReservedFailures(p)

\* Attempts prepared, targets installed.
Work ==
    \/ \E x \in Sides \X (Files \cup {Index}) : Retain(x)
    \/ Prepare
    \/ \E d \in Dirs : MakeDirectory(d)
    \/ \E f \in Files : InstallFile(f)
    \/ \E d \in Dirs : RemoveDirectory(d)
    \/ InstallIndex
    \/ Installed

Finish ==
    \/ \E a \in Attempts : MakeReportDirectory(a)
    \/ \E a \in Attempts : StageReport(a)
    \/ \E a \in Attempts : LinkReport(a)
    \/ \E a \in Attempts : UnlinkStaging(a)
    \/ Finalized
    \/ MarkCommitted
    \/ \E x \in Sides \X (Files \cup {Index}) : DropRetained(x)
    \/ RetainedDropped
    \/ PruneViews
    \/ DropJournal
    \/ ReleaseLock

Recover == SettleStart \/ RemoveStaleLock \/ Settle \/ Refuse

FaultStep ==
    \/ Stop
    \/ Fail
    \/ \E a \in Attempts : StopInReport(a)
    \/ \E f \in Files, c \in Content : ExternalEdit(f, c)

Next == Begin \/ Work \/ Finish \/ Recover \/ FaultStep

Spec == Init /\ [][Next]_vars

(***************************************************************************)
(* Fairness.  A running owner goes on until it is done, raises or is       *)
(* killed, and a user who sees doctor's finding runs doctor --fix.  Nobody *)
(* has to begin a command.                                                 *)
(***************************************************************************)
OwnerStep == who # "none" /\ (Begin \/ Work \/ Finish \/ Settle \/ Refuse)

FairSpec ==
    /\ Spec
    /\ WF_vars(OwnerStep)
    /\ WF_vars(SettleStart)
    /\ WF_vars(RemoveStaleLock)

-------------------------------------------------------------------------------
(***************************************************************************)
(* Properties.                                                             *)
(***************************************************************************)

\* The journal is kept until the bytes that can still be needed are not: as
\* long as a prepared target differs from the winner's, the winner's copy of
\* it is retained.  (_retain_entry before the prepared phase; _cleanup last.)
WinnerRecoverable ==
    journal.phase = "prepared" =>
        \A f \in journal.files :
            LET side == IF Winner = "new" THEN journal.new ELSE journal.old
            IN  disk[f] # side[f] /\ disk[f] \in {journal.old[f], journal.new[f]}
                  => side[f] = Absent \/ <<Winner, f>> \in retained

\* No attempt of a generation that lost, or may still lose, has a success
\* report, and no attempt of one that won is reported interrupted unless that
\* is all that was ever reserved for it.  (_finalize_attempts after the
\* winner is known.)
ReportsTellTheTruth ==
    Retained =>
        \A a \in journal.attempts :
            report[a] # "none" =>
                report[a] = IF Winner = "new" THEN journal.win[a] ELSE journal.lose[a]

\* The owner reports and cleans up for the generation that won, and from the
\* first report on every target is the winner's, whatever was interrupted
\* before; it stays so until the journal goes.  (_finalize_attempts, _cleanup)
OwnerServesWinner ==
    pc \in {"finalize", "mark", "cleanup", "prune", "unlink"} =>
        /\ use = Winner
        /\ FilesInstalled
        /\ index = WantIndex

\* Doctor gives up only for the reasons named here.  Evidence does not add up
\* when a target was edited by hand or an earlier doctor had begun cleanup; a
\* directory cannot be removed when a report already lies in it; staging bytes
\* disagree when a kill tore them.  (settle_retained_publication)
RefusesOnlyOnEvidence ==
    /\ SettleRefused =>
          \/ \E f \in journal.files : disk[f] \notin {journal.old[f], journal.new[f]}
          \/ journal.phase = "committed" /\ \E f \in journal.files : disk[f] # journal.new[f]
          \/ journal.phase = "prepared" /\ ~ (Required \subseteq retained)
    /\ InstallBlocked =>
          journal.phase = "staging" /\ \E f \in journal.files : disk[f] # journal.old[f]
    /\ RollbackBlocked =>
          \E d \in journal.mkdirs, a \in journal.attempts :
             d \in Above[a] /\ (report[a] # "none" \/ temp[a] # "none")
    /\ FinalizeBlocked => \E a \in journal.attempts : temp[a] = "torn"

\* A generation that won stays the winner while its journal is retained, and
\* every file it names is written once: a step of doctor never undoes it.
\* (Runs check it as a part of ImplementsGeneration.)
WinnerIsFinal ==
    [][ (Retained /\ Winner = "new" /\ Retained')
          => Winner' = "new" /\ journal'.gen = journal.gen ]_vars

\* No step of a command or doctor replaces bytes it has not recorded: what an
\* owner's step overwrites is the journal's old or new content.
NoForeignBytesLost ==
    [][ \A f \in Files :
          (who # "none" /\ disk'[f] # disk[f])
            => disk[f] \in {journal.old[f], journal.new[f]} ]_vars

\* Whatever a stopped command leaves, journal or lock, the workspace becomes
\* usable again.  (settle_retained_publication, _remove_proved_stale_lock)
Usable == lock = "free" /\ ~Retained
EventuallyUsable == ~Usable ~> Usable

(***************************************************************************)
(* Publication implements Generation.  While a journal is retained, a      *)
(* reader may rely on the winner's bytes and on no report of its attempts; *)
(* dropping the journal must then change nothing but make reports visible. *)
(***************************************************************************)
AbsContent == IF ~Retained THEN disk
              ELSE IF Winner = "new" THEN journal.new ELSE journal.old
AbsReports == [a \in Attempts |->
                 IF Retained /\ a \in journal.attempts THEN "none" ELSE report[a]]
AbsOpen    == IF ~Retained THEN "none"
              ELSE IF Winner = "new" THEN "won" ELSE "open"
AbsPlan    == [new |-> journal.new, attempts |-> journal.attempts,
               win |-> journal.win, lose |-> journal.lose]

Abs == INSTANCE Generation WITH
         content <- AbsContent, gen <- index, reports <- AbsReports,
         open <- AbsOpen, plan <- AbsPlan

\* Every behaviour of the journal protocol, with its faults, is one of the
\* atomic specification: all targets of a generation or none, and each report
\* agrees with what happened to them.
ImplementsGeneration == Abs!Spec
===============================================================================
