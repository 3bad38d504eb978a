--------------------------- MODULE PublicationProofs --------------------------
(***************************************************************************)
(* Proofs about the publication journal, for every workspace, every set of *)
(* plans, any number of faults and any number of generations.              *)
(***************************************************************************)
EXTENDS Publication, TLAPS

-------------------------------------------------------------------------------
(***************************************************************************)
(* Types.                                                                  *)
(***************************************************************************)

\* What a staging journal is made of has the journal's type.
LEMMA StagingType ==
    ASSUME TypeOK,
           NEW policy \in {"index", "fixed"}, NEW gen \in Nat,
           NEW files \in SUBSET Files, NEW new \in [Files -> Content],
           NEW attempts \in SUBSET Attempts, NEW failed \in SUBSET Attempts
    PROVE  Staging(policy, gen, files, new, attempts, failed) \in JournalType
<1> DEFINE next == [f \in Files |-> IF f \in files THEN new[f] ELSE disk[f]]
<1>1. next \in [Files -> Content]
  BY DEF TypeOK
<1>2. MissingDirs(files, next, attempts) \in SUBSET Dirs
  <2>1. SUFFICES ASSUME NEW x \in files \cup attempts, NEW d \in Above[x]
                 PROVE  d \in Dirs
    BY DEF MissingDirs
  <2> QED
    BY <2>1, NamesAssumption
<1>3. WinDocs(attempts, failed) \in [Attempts -> Docs]
  BY DEF WinDocs, Docs
<1>4. LoseDocs(attempts, failed) \in [Attempts -> Docs]
  BY DEF LoseDocs, Docs
<1>5. (IF policy = "index" THEN gen ELSE index) \in Nat /\ index \in Nat
        /\ disk \in [Files -> Content]
  BY DEF TypeOK
<1> HIDE DEF next
<1> QED
  BY <1>1, <1>2, <1>3, <1>4, <1>5 DEF Staging, JournalType, next

LEMMA NoJournalType == NoJournal \in JournalType
BY DEF NoJournal, JournalType, Docs, Content

LEMMA TypeInit == Init => TypeOK
BY NoJournalType DEF Init, TypeOK, Content, Sides

LEMMA TypeStep == TypeOK /\ [Next]_vars => TypeOK'
<1> SUFFICES ASSUME TypeOK, [Next]_vars PROVE TypeOK'
  OBVIOUS
<1> USE DEF fileVars, reportVars, ownerVars
<1>1. CASE Begin
  <2>1. CASE AcquireLock
    BY <2>1 DEF AcquireLock, TypeOK
  <2>2. ASSUME NEW attempts \in SUBSET Attempts, Reserve(attempts) PROVE TypeOK'
    <3>1. NextGen \in Nat /\ index \in Nat /\ disk \in [Files -> Content]
      BY DEF NextGen, TypeOK
    <3>2. journal' \in JournalType
      BY <2>2, <3>1 DEF Reserve, NoJournal, JournalType, Docs
    <3> QED
      BY <2>2, <3>1, <3>2 DEF Reserve, TypeOK
  <2>3. ASSUME NEW p \in Plans, StageGeneration(p) PROVE TypeOK'
    <3>1. p.files \in SUBSET Files /\ p.new \in [Files -> Content]
      BY PlansAssumption
    <3>2. NextGen \in Nat
      BY DEF NextGen, TypeOK
    <3>3. journal' \in JournalType
      BY <2>3, <3>1, <3>2, StagingType DEF StageGeneration
    <3> QED
      BY <2>3, <3>2, <3>3 DEF StageGeneration, TypeOK
  <2>4. ASSUME NEW attempts \in SUBSET Attempts, StageFailedAttempts(attempts)
        PROVE  TypeOK'
    <3>1. NextGen \in Nat /\ disk \in [Files -> Content]
      BY DEF NextGen, TypeOK
    <3>2. journal' \in JournalType
      BY <2>4, <3>1, StagingType DEF StageFailedAttempts
    <3> QED
      BY <2>4, <3>1, <3>2 DEF StageFailedAttempts, TypeOK
  <2>5. ASSUME NEW p \in Plans, NEW failed \in SUBSET Attempts,
               StageReservedGeneration(p, failed)
        PROVE  TypeOK'
    <3>1. p.files \in SUBSET Files /\ p.new \in [Files -> Content]
      BY PlansAssumption
    <3>2. journal.gen \in Nat /\ journal.attempts \in SUBSET Attempts
      BY DEF TypeOK, JournalType
    <3>3. journal' \in JournalType
      BY <2>5, <3>1, <3>2, StagingType DEF StageReservedGeneration
    <3> QED
      BY <2>5, <3>3 DEF StageReservedGeneration, TypeOK
  <2>6. ASSUME NEW p \in Plans, StageReservedFailures(p) PROVE TypeOK'
    <3>1. p.files \in SUBSET Files /\ p.new \in [Files -> Content]
      BY PlansAssumption
    <3>2. journal.gen \in Nat /\ journal.attempts \in SUBSET Attempts
      BY DEF TypeOK, JournalType
    <3>3. journal' \in JournalType
      BY <2>6, <3>1, <3>2, StagingType DEF StageReservedFailures
    <3> QED
      BY <2>6, <3>3 DEF StageReservedFailures, TypeOK
  <2> QED
    BY <1>1, <2>1, <2>2, <2>3, <2>4, <2>5, <2>6 DEF Begin
<1>2. CASE Work
  <2>1. ASSUME NEW x \in Sides \X (Files \cup {Index}), Retain(x) PROVE TypeOK'
    BY <2>1 DEF Retain, TypeOK
  <2>2. CASE Prepare
    BY <2>2 DEF Prepare, TypeOK, JournalType, Sides
  <2>3. ASSUME NEW d \in Dirs, MakeDirectory(d) PROVE TypeOK'
    BY <2>3 DEF MakeDirectory, TypeOK
  <2>4. ASSUME NEW f \in Files, InstallFile(f) PROVE TypeOK'
    <3>1. Want \in [Files -> Content]
      BY DEF Want, TypeOK, JournalType
    <3>2. Above[f] \subseteq Dirs
      BY NamesAssumption
    <3> QED
      BY <2>4, <3>1, <3>2 DEF InstallFile, TypeOK
  <2>5. ASSUME NEW d \in Dirs, RemoveDirectory(d) PROVE TypeOK'
    BY <2>5 DEF RemoveDirectory, TypeOK
  <2>6. CASE InstallIndex
    <3>1. WantIndex \in Nat
      BY DEF WantIndex, TypeOK, JournalType
    <3> QED
      BY <2>6, <3>1 DEF InstallIndex, TypeOK
  <2>7. CASE Installed
    BY <2>7 DEF Installed, TypeOK
  <2> QED
    BY <1>2, <2>1, <2>2, <2>3, <2>4, <2>5, <2>6, <2>7 DEF Work
<1>3. CASE Finish
  <2>1. ASSUME NEW a \in Attempts, MakeReportDirectory(a) PROVE TypeOK'
    BY <2>1, NamesAssumption DEF MakeReportDirectory, TypeOK
  <2>2. ASSUME NEW a \in Attempts, StageReport(a) PROVE TypeOK'
    <3>1. Ending(a) \in Docs
      BY DEF Ending, TypeOK, JournalType
    <3> QED
      BY <2>2, <3>1 DEF StageReport, TypeOK
  <2>3. ASSUME NEW a \in Attempts, LinkReport(a) PROVE TypeOK'
    <3>1. Ending(a) \in Docs
      BY DEF Ending, TypeOK, JournalType
    <3> QED
      BY <2>3, <3>1 DEF LinkReport, TypeOK
  <2>4. ASSUME NEW a \in Attempts, UnlinkStaging(a) PROVE TypeOK'
    BY <2>4 DEF UnlinkStaging, TypeOK
  <2>5. CASE Finalized
    BY <2>5 DEF Finalized, TypeOK
  <2>6. CASE MarkCommitted
    BY <2>6 DEF MarkCommitted, TypeOK, JournalType
  <2>7. ASSUME NEW x \in Sides \X (Files \cup {Index}), DropRetained(x)
        PROVE  TypeOK'
    BY <2>7 DEF DropRetained, TypeOK
  <2>8. CASE RetainedDropped
    BY <2>8 DEF RetainedDropped, TypeOK
  <2>9. CASE PruneViews
    BY <2>9 DEF PruneViews, TypeOK
  <2>10. CASE DropJournal
    BY <2>10, NoJournalType DEF DropJournal, TypeOK
  <2>11. CASE ReleaseLock
    BY <2>11 DEF ReleaseLock, Leave, TypeOK, Sides
  <2> QED
    BY <1>3, <2>1, <2>2, <2>3, <2>4, <2>5, <2>6, <2>7, <2>8, <2>9, <2>10, <2>11
       DEF Finish
<1>4. CASE Recover
  <2>1. CASE SettleStart
    BY <2>1 DEF SettleStart, TypeOK
  <2>2. CASE RemoveStaleLock
    BY <2>2 DEF RemoveStaleLock, TypeOK
  <2>3. CASE Settle
    <3>1. Winner \in Sides
      BY DEF Winner, Sides
    <3> QED
      BY <2>3, <3>1 DEF Settle, TypeOK
  <2>4. CASE Refuse
    BY <2>4 DEF Refuse, Leave, TypeOK, Sides
  <2> QED
    BY <1>4, <2>1, <2>2, <2>3, <2>4 DEF Recover
<1>5. CASE FaultStep
  <2> USE BoundsAssumption DEF Fault, Leave, Sides
  <2>1. CASE Stop
    BY <2>1 DEF Stop, TypeOK
  <2>2. CASE Fail
    BY <2>2 DEF Fail, TypeOK
  <2>3. ASSUME NEW a \in Attempts, StopInReport(a) PROVE TypeOK'
    BY <2>3 DEF StopInReport, TypeOK
  <2>4. ASSUME NEW f \in Files, NEW c \in Content, ExternalEdit(f, c) PROVE TypeOK'
    BY <2>4 DEF ExternalEdit, TypeOK
  <2> QED
    BY <1>5, <2>1, <2>2, <2>3, <2>4 DEF FaultStep
<1>6. CASE UNCHANGED vars
  BY <1>6 DEF vars, TypeOK
<1> QED
  BY <1>1, <1>2, <1>3, <1>4, <1>5, <1>6 DEF Next

\* Every variable keeps its type.
THEOREM TypeCorrect == Spec => []TypeOK
BY TypeInit, TypeStep, PTL DEF Spec

-------------------------------------------------------------------------------
(***************************************************************************)
(* The inductive invariant.                                                *)
(***************************************************************************)

\* The steps after every target is installed.
PostInstall == {"finalize", "mark", "cleanup", "prune", "unlink"}

\* Where an owner is tells the phase its journal is in.
Control ==
    /\ who = "none" <=> pc = "idle"
    /\ who = "command" =>
          \/ pc \in {"ready", "release"} /\ journal.phase = "none"
          \/ pc = "reserved" /\ journal.phase = "reserved"
          \/ pc = "retain" /\ journal.phase = "staging"
          \/ /\ pc \in {"install", "finalize", "mark"}
             /\ journal.phase = "prepared"
             /\ use = "new"
          \/ /\ pc \in {"cleanup", "prune", "unlink"}
             /\ journal.phase = "committed"
             /\ use = "new"
    /\ who = "doctor" =>
          \/ /\ pc \in {"load", "install", "finalize", "cleanup", "prune", "unlink"}
             /\ journal.phase # "none"
          \/ pc = "release" /\ journal.phase = "none"

\* What the journal's digests say of the installed index, phase by phase.
IndexProof ==
    /\ index <= issued
    /\ Retained =>
          /\ journal.commit <= issued
          /\ journal.phase = "reserved" =>
                /\ journal.policy = "index"
                /\ index = journal.base /\ journal.commit = journal.base
                /\ journal.base < journal.gen /\ journal.gen <= issued
          /\ journal.policy = "fixed" =>
                index = journal.base /\ journal.commit = journal.base
          /\ journal.policy = "index" /\ journal.phase # "reserved" =>
                journal.base < journal.commit /\ index \in {journal.base, journal.commit}
          /\ journal.policy = "index" /\ journal.phase = "staging" =>
                index = journal.base
          /\ journal.policy = "index" /\ journal.phase = "committed" =>
                index = journal.commit

\* Files that are no entries are what they were when the journal was written.
OthersUntouched ==
    Retained =>
        /\ journal.phase = "reserved" => journal.files = {}
        /\ \A f \in Files \ journal.files :
              disk[f] = journal.old[f] /\ journal.new[f] = journal.old[f]

\* The documents of an attempt differ only for a parsed one that awaits the
\* index.
AttemptDocs ==
    Retained =>
        \A a \in journal.attempts :
            /\ <<journal.win[a], journal.lose[a]>> \in Abs!Endings
            /\ journal.phase = "reserved" \/ journal.policy = "fixed" =>
                  journal.win[a] # "success"

\* Whoever installs has decided; who has installed serves the winner.
Decided ==
    /\ pc = "install" /\ who = "doctor" => use = Winner
    /\ pc \in PostInstall => use = Winner /\ FilesInstalled /\ index = WantIndex

\* Reports are those of the winner; a command writes none before it installed.
Reported ==
    /\ ReportsTellTheTruth
    /\ who = "command" /\ pc \in {"reserved", "retain", "install"} =>
          \A a \in journal.attempts : report[a] = "none"
    /\ pc \in {"mark", "cleanup", "prune", "unlink"} =>
          \A a \in journal.attempts : report[a] = Ending(a)

Inv ==
    /\ TypeOK
    /\ Control
    /\ IndexProof
    /\ OthersUntouched
    /\ AttemptDocs
    /\ Decided
    /\ Reported

LEMMA InvInit == Init => Inv
<1> SUFFICES ASSUME Init PROVE Inv
  OBVIOUS
<1>1. journal.phase = "none"
  BY DEF Init, NoJournal
<1>2. Control /\ IndexProof
  BY <1>1 DEF Init, Control, IndexProof, Retained
<1>3. OthersUntouched /\ AttemptDocs
  BY <1>1 DEF OthersUntouched, AttemptDocs, Retained
<1>4. Decided /\ Reported
  BY <1>1 DEF Init, Decided, Reported, ReportsTellTheTruth, PostInstall, Retained
<1> QED
  BY <1>2, <1>3, <1>4, TypeInit DEF Inv

(***************************************************************************)
(* The steps, grouped by what the invariant can see of them.               *)
(***************************************************************************)

\* Directories, staging files, recovery copies and stale locks change alone.
Quiet == UNCHANGED <<disk, index, report, journal, issued, who, pc, use>>

\* The owner is gone, however it went.
Gone ==
    /\ who' = "none" /\ pc' = "idle"
    /\ UNCHANGED <<disk, index, report, journal, issued>>

\* The owner goes on to its next phase and touches nothing the invariant reads.
GoesOn(from, to) ==
    /\ pc = from /\ pc' = to
    /\ UNCHANGED <<disk, index, report, journal, issued, who, use>>

LEMMA StepCases ==
    ASSUME [Next]_vars
    PROVE  \/ Quiet \/ Gone
           \/ GoesOn("cleanup", "prune") \/ GoesOn("prune", "unlink")
           \/ AcquireLock
           \/ \E attempts \in SUBSET Attempts : Reserve(attempts)
           \/ \E p \in Plans : StageGeneration(p)
           \/ \E attempts \in SUBSET Attempts : StageFailedAttempts(attempts)
           \/ \E p \in Plans, failed \in SUBSET Attempts :
                 StageReservedGeneration(p, failed)
           \/ \E p \in Plans : StageReservedFailures(p)
           \/ Prepare
           \/ \E f \in Files : InstallFile(f)
           \/ InstallIndex \/ Installed
           \/ \E a \in Attempts : LinkReport(a)
           \/ Finalized \/ MarkCommitted \/ DropJournal
           \/ SettleStart \/ Settle
           \/ \E f \in Files, c \in Content : ExternalEdit(f, c)
<1> USE DEF fileVars, reportVars, ownerVars
<1>1. CASE Begin
  BY <1>1 DEF Begin
<1>2. CASE Work
  <2>1. ASSUME NEW x \in Sides \X (Files \cup {Index}), Retain(x) PROVE Quiet
    BY <2>1 DEF Retain, Quiet
  <2>2. ASSUME NEW d \in Dirs, MakeDirectory(d) PROVE Quiet
    BY <2>2 DEF MakeDirectory, Quiet
  <2>3. ASSUME NEW d \in Dirs, RemoveDirectory(d) PROVE Quiet
    BY <2>3 DEF RemoveDirectory, Quiet
  <2> QED
    BY <1>2, <2>1, <2>2, <2>3 DEF Work
<1>3. CASE Finish
  <2>1. ASSUME NEW a \in Attempts, MakeReportDirectory(a) PROVE Quiet
    BY <2>1 DEF MakeReportDirectory, Quiet
  <2>2. ASSUME NEW a \in Attempts, StageReport(a) PROVE Quiet
    BY <2>2 DEF StageReport, Quiet
  <2>3. ASSUME NEW a \in Attempts, UnlinkStaging(a) PROVE Quiet
    BY <2>3 DEF UnlinkStaging, Quiet
  <2>4. ASSUME NEW x \in Sides \X (Files \cup {Index}), DropRetained(x) PROVE Quiet
    BY <2>4 DEF DropRetained, Quiet
  <2>5. RetainedDropped => GoesOn("cleanup", "prune")
    BY DEF RetainedDropped, GoesOn
  <2>6. PruneViews => GoesOn("prune", "unlink")
    BY DEF PruneViews, GoesOn
  <2>7. ReleaseLock => Gone
    BY DEF ReleaseLock, Leave, Gone
  <2> QED
    BY <1>3, <2>1, <2>2, <2>3, <2>4, <2>5, <2>6, <2>7 DEF Finish
<1>4. CASE Recover
  <2>1. RemoveStaleLock => Quiet
    BY DEF RemoveStaleLock, Quiet
  <2>2. Refuse => Gone
    BY DEF Refuse, Leave, Gone
  <2> QED
    BY <1>4, <2>1, <2>2 DEF Recover
<1>5. CASE FaultStep
  <2>1. Stop \/ Fail => Gone
    BY DEF Stop, Fail, Leave, Gone
  <2>2. ASSUME NEW a \in Attempts, StopInReport(a) PROVE Gone
    BY <2>2 DEF StopInReport, Leave, Gone
  <2> QED
    BY <1>5, <2>1, <2>2 DEF FaultStep
<1>6. CASE UNCHANGED vars
  BY <1>6 DEF vars, Quiet
<1> QED
  BY <1>1, <1>2, <1>3, <1>4, <1>5, <1>6 DEF Next

-------------------------------------------------------------------------------
(***************************************************************************)
(* Every step preserves the invariant: first the steps that write a new    *)
(* journal, then those that install, then the rest.                        *)
(***************************************************************************)

\* The journal of a command that stages, from whatever the command stages.
LEMMA StagingShape ==
    ASSUME NEW policy \in {"index", "fixed"}, NEW gen, NEW files, NEW new,
           NEW attempts, NEW failed,
           journal' = Staging(policy, gen, files, new, attempts, failed)
    PROVE  /\ journal'.phase = "staging" /\ journal'.policy = policy
           /\ journal'.commit = IF policy = "index" THEN gen ELSE index
           /\ journal'.base = index /\ journal'.files = files
           /\ journal'.old = disk
           /\ \A f \in Files \ files : journal'.new[f] = disk[f]
           /\ journal'.attempts = attempts
           /\ journal'.win = WinDocs(attempts, failed)
           /\ journal'.lose = LoseDocs(attempts, failed)
BY DEF Staging

LEMMA StagingInv ==
    ASSUME Inv, TypeOK',
           NEW policy \in {"index", "fixed"}, NEW gen \in Nat, NEW files, NEW new,
           NEW attempts \in SUBSET Attempts, NEW failed \in SUBSET Attempts,
           journal' = Staging(policy, gen, files, new, attempts, failed),
           policy = "fixed" => failed = attempts,
           policy = "index" => index < gen /\ gen <= issued',
           index <= issued', who = "command", who' = who, pc' = "retain",
           UNCHANGED <<disk, index, report>>,
           \A a \in attempts : report[a] = "none"
    PROVE  Inv'
<1> USE StagingShape
<1>1. Control'
  BY DEF Control
<1>2. IndexProof'
  BY DEF IndexProof, Retained, Inv, TypeOK
<1>3. OthersUntouched'
  BY DEF OthersUntouched, Retained, Inv, TypeOK
<1>4. AttemptDocs'
  <2>1. ASSUME NEW a \in attempts
        PROVE  /\ <<journal'.win[a], journal'.lose[a]>> \in Abs!Endings
               /\ policy = "fixed" => journal'.win[a] # "success"
    <3>1. /\ journal'.win = WinDocs(attempts, failed)
          /\ journal'.lose = LoseDocs(attempts, failed)
      OBVIOUS
    <3>2. /\ journal'.win[a] = IF a \in failed THEN "failure" ELSE "success"
          /\ journal'.lose[a] = IF a \in failed THEN "failure" ELSE "interrupted"
      <4> HIDE StagingShape
      <4> QED
        BY <3>1 DEF WinDocs, LoseDocs
    <3> QED
      BY <3>2 DEF Abs!Endings
  <2> QED
    BY <2>1 DEF AttemptDocs
<1>5. Decided'
  BY DEF Decided, PostInstall
<1>6. Reported'
  BY DEF Reported, ReportsTellTheTruth, PostInstall
<1> QED
  BY <1>1, <1>2, <1>3, <1>4, <1>5, <1>6 DEF Inv

LEMMA NewJournalStep ==
    ASSUME Inv, TypeOK',
           \/ \E attempts \in SUBSET Attempts : Reserve(attempts)
           \/ \E p \in Plans : StageGeneration(p)
           \/ \E attempts \in SUBSET Attempts : StageFailedAttempts(attempts)
           \/ \E p \in Plans, failed \in SUBSET Attempts :
                 StageReservedGeneration(p, failed)
           \/ \E p \in Plans : StageReservedFailures(p)
    PROVE  Inv'
<1> USE DEF fileVars, reportVars, ownerVars
<1>1. index \in Nat /\ issued \in Nat /\ index <= issued /\ NextGen \in Nat
        /\ index < NextGen /\ index <= NextGen
        /\ journal.gen \in Nat /\ journal.attempts \in SUBSET Attempts
  BY DEF Inv, IndexProof, TypeOK, JournalType, NextGen
<1>2. journal.phase = "reserved" => index < journal.gen /\ journal.gen <= issued
  BY DEF Inv, IndexProof, Retained
<1>3. ASSUME NEW attempts \in SUBSET Attempts, Reserve(attempts) PROVE Inv'
  <2>1. /\ journal'.phase = "reserved" /\ journal'.policy = "index"
        /\ journal'.gen = issued' /\ journal'.base = index /\ journal'.commit = index
        /\ journal'.files = {} /\ journal'.old = disk /\ journal'.new = disk
        /\ journal'.attempts = attempts
        /\ \A a \in attempts : journal'.win[a] = "interrupted"
                                 /\ journal'.lose[a] = "interrupted"
    BY <1>3 DEF Reserve, NoJournal
  <2>2. UNCHANGED <<disk, index, report, who>> /\ who = "command" /\ pc' = "reserved"
          /\ issued' = NextGen /\ \A a \in attempts : report[a] = "none"
    BY <1>3 DEF Reserve
  <2>3. Control'
    BY <2>1, <2>2 DEF Control
  <2>4. IndexProof'
    BY <2>1, <2>2, <1>1 DEF IndexProof, Retained
  <2>5. OthersUntouched' /\ AttemptDocs'
    BY <2>1, <2>2 DEF OthersUntouched, AttemptDocs, Abs!Endings
  <2>6. Decided' /\ Reported'
    BY <2>1, <2>2 DEF Decided, Reported, ReportsTellTheTruth, PostInstall
  <2> QED
    BY <2>3, <2>4, <2>5, <2>6 DEF Inv
<1>4. ASSUME NEW p \in Plans, StageGeneration(p) PROVE Inv'
  <2>1. /\ journal' = Staging("index", NextGen, p.files, p.new, {}, {})
        /\ issued' = NextGen /\ who = "command" /\ who' = who /\ pc' = "retain"
        /\ UNCHANGED <<disk, index, report>>
    BY <1>4 DEF StageGeneration
  <2> QED
    BY <2>1, <1>1, StagingInv
<1>5. ASSUME NEW attempts \in SUBSET Attempts, StageFailedAttempts(attempts)
      PROVE  Inv'
  <2>1. /\ journal' = Staging("fixed", NextGen, {}, disk, attempts, attempts)
        /\ issued' = NextGen /\ who = "command" /\ who' = who /\ pc' = "retain"
        /\ UNCHANGED <<disk, index, report>>
        /\ \A a \in attempts : report[a] = "none"
    BY <1>5 DEF StageFailedAttempts
  <2> QED
    BY <2>1, <1>1, StagingInv
<1>6. ASSUME NEW p \in Plans, NEW failed \in SUBSET Attempts,
             StageReservedGeneration(p, failed)
      PROVE  Inv'
  <2>1. /\ journal' = Staging("index", journal.gen, p.files, p.new,
                              journal.attempts, failed)
        /\ issued' = issued /\ who = "command" /\ who' = who /\ pc = "reserved"
        /\ pc' = "retain"
        /\ UNCHANGED <<disk, index, report>>
        /\ \A a \in journal.attempts : report[a] = "none"
    BY <1>6 DEF StageReservedGeneration
  <2>2. journal.phase = "reserved"
    BY <2>1 DEF Inv, Control
  <2> QED
    BY <2>1, <2>2, <1>1, <1>2, StagingInv
<1>7. ASSUME NEW p \in Plans, StageReservedFailures(p) PROVE Inv'
  <2>1. /\ journal' = Staging("fixed", journal.gen, p.files, p.new,
                              journal.attempts, journal.attempts)
        /\ issued' = issued /\ who = "command" /\ who' = who /\ pc' = "retain"
        /\ UNCHANGED <<disk, index, report>>
        /\ \A a \in journal.attempts : report[a] = "none"
    BY <1>7 DEF StageReservedFailures
  <2> QED
    BY <2>1, <1>1, StagingInv
<1> QED
  BY <1>3, <1>4, <1>5, <1>6, <1>7

\* Steps that change nothing but the owner's place.
LEMMA OwnerStepInv ==
    ASSUME Inv, TypeOK',
           \/ Quiet \/ Gone
           \/ GoesOn("cleanup", "prune") \/ GoesOn("prune", "unlink")
           \/ AcquireLock \/ SettleStart \/ Settle \/ Installed \/ Finalized
    PROVE  Inv'
<1> USE DEF fileVars, reportVars, ownerVars
<1>1. UNCHANGED <<disk, index, report, journal, issued>>
  BY DEF Quiet, Gone, GoesOn, AcquireLock, SettleStart, Settle, Installed, Finalized
<1>2. IndexProof' /\ OthersUntouched' /\ AttemptDocs' /\ ReportsTellTheTruth'
  BY <1>1 DEF Inv, IndexProof, OthersUntouched, AttemptDocs, Reported,
              ReportsTellTheTruth, Retained, Winner
<1>3. Winner' = Winner
  BY <1>1 DEF Winner
<1>4. CASE Quiet
  BY <1>1, <1>2, <1>3, <1>4
     DEF Inv, Quiet, Control, Decided, Reported, FilesInstalled, Want, WantIndex, Ending
<1>5. CASE Gone
  BY <1>1, <1>2, <1>5 DEF Inv, Gone, Control, Decided, Reported, PostInstall
<1>6. CASE GoesOn("cleanup", "prune") \/ GoesOn("prune", "unlink")
  <2>1. Control'
    BY <1>1, <1>6 DEF Inv, GoesOn, Control
  <2>2. Decided'
    BY <1>1, <1>3, <1>6
       DEF Inv, GoesOn, Decided, PostInstall, FilesInstalled, Want, WantIndex
  <2>3. Reported'
    BY <1>1, <1>2, <1>6 DEF Inv, GoesOn, Reported, Ending
  <2> QED
    BY <1>2, <2>1, <2>2, <2>3 DEF Inv
<1>7. CASE AcquireLock
  BY <1>1, <1>2, <1>7 DEF Inv, AcquireLock, Control, Decided, Reported, PostInstall, Retained
<1>8. CASE SettleStart
  BY <1>1, <1>2, <1>8 DEF Inv, SettleStart, Control, Decided, Reported, PostInstall, Retained
<1>9. CASE Settle
  <2>1. who = "doctor"
    BY <1>9 DEF Settle, Inv, TypeOK, Control
  <2>2. Control' /\ Decided' /\ Reported'
    BY <1>1, <1>2, <1>3, <1>9, <2>1 DEF Inv, Settle, Control, Decided, Reported, PostInstall
  <2> QED
    BY <1>2, <2>2 DEF Inv
<1>10. CASE Installed
  <2>1. Control' /\ Reported'
    BY <1>1, <1>2, <1>10 DEF Inv, Installed, Control, Reported
  <2>2. use = Winner
    <3>1. CASE who = "doctor"
      BY <1>10, <3>1 DEF Inv, Installed, Decided
    <3>2. CASE who = "command"
      BY <1>10, <3>2 DEF Inv, Installed, Control, Winner, WantIndex, TypeOK, JournalType
    <3> QED
      BY <1>10, <3>1, <3>2 DEF Inv, Installed, Control, TypeOK
  <2>3. Decided'
    BY <1>1, <1>3, <1>10, <2>2
       DEF Installed, Decided, PostInstall, FilesInstalled, Want, WantIndex
  <2> QED
    BY <1>2, <2>1, <2>3 DEF Inv
<1>11. CASE Finalized
  <2>1. Control'
    BY <1>1, <1>11 DEF Inv, TypeOK, Finalized, Control
  <2>2. Decided'
    BY <1>1, <1>3, <1>11
       DEF Inv, Finalized, Decided, PostInstall, FilesInstalled, Want, WantIndex
  <2>3. Reported'
    BY <1>1, <1>2, <1>11 DEF Inv, Finalized, Reported, Ending
  <2> QED
    BY <1>2, <2>1, <2>2, <2>3 DEF Inv
<1> QED
  BY <1>4, <1>5, <1>6, <1>7, <1>8, <1>9, <1>10, <1>11

\* Steps that install a target, edit one by hand or write a report.
LEMMA TargetStepInv ==
    ASSUME Inv, TypeOK',
           \/ \E f \in Files : InstallFile(f)
           \/ InstallIndex
           \/ \E f \in Files, c \in Content : ExternalEdit(f, c)
           \/ \E a \in Attempts : LinkReport(a)
    PROVE  Inv'
<1> USE DEF fileVars, reportVars, ownerVars
<1>1. ASSUME NEW f \in Files, NEW c \in Content, f \in journal.files,
             disk' = [disk EXCEPT ![f] = c], pc \notin PostInstall,
             UNCHANGED <<index, report, journal, issued, who, pc, use>>
      PROVE  Inv'
  <2>1. Control' /\ IndexProof' /\ AttemptDocs'
    BY <1>1 DEF Inv, Control, IndexProof, AttemptDocs, Retained
  <2>2. OthersUntouched'
    BY <1>1 DEF Inv, TypeOK, OthersUntouched, Retained
  <2>3. Decided' /\ Reported'
    BY <1>1 DEF Inv, Decided, Reported, ReportsTellTheTruth, Retained, Winner,
                PostInstall, Ending
  <2> QED
    BY <2>1, <2>2, <2>3 DEF Inv
<1>2. ASSUME NEW f \in Files, InstallFile(f) PROVE Inv'
  <2>1. Want[f] \in Content
    BY DEF Inv, TypeOK, JournalType, Want
  <2> QED
    BY <1>1, <1>2, <2>1 DEF InstallFile, PostInstall
<1>3. ASSUME NEW f \in Files, NEW c \in Content, ExternalEdit(f, c) PROVE Inv'
  <2>1. pc \notin PostInstall
    BY <1>3 DEF ExternalEdit, Inv, Control, PostInstall
  <2> QED
    BY <1>1, <1>3, <2>1 DEF ExternalEdit
<1>4. CASE InstallIndex
  <2>1. /\ UNCHANGED <<disk, report, journal, issued, who, pc, use>>
        /\ pc = "install" /\ index # WantIndex /\ index' = WantIndex
    BY <1>4 DEF InstallIndex
  <2>2. who = "command"
    <3>1. who # "none"
      BY <2>1 DEF Inv, Control
    <3>2. ASSUME who = "doctor" PROVE FALSE
      <4>1. use = Winner /\ Retained
        BY <2>1, <3>2 DEF Inv, Control, Decided, Retained
      <4> QED
        BY <2>1, <4>1 DEF Inv, IndexProof, Winner, WantIndex, TypeOK, JournalType
    <3> QED
      BY <3>1, <3>2 DEF Inv, TypeOK
  <2>3. journal.phase = "prepared" /\ use = "new" /\ Retained
    BY <2>1, <2>2 DEF Inv, Control, Retained
  <2>4. journal.policy = "index" /\ index' = journal.commit
    BY <2>1, <2>3 DEF Inv, TypeOK, JournalType, WantIndex
  <2>5. Control' /\ AttemptDocs' /\ OthersUntouched'
    BY <2>1 DEF Inv, Control, AttemptDocs, OthersUntouched, Retained
  <2>6. IndexProof'
    BY <2>1, <2>3, <2>4 DEF Inv, IndexProof, Retained
  <2>7. Decided' /\ Reported'
    BY <2>1, <2>2 DEF Inv, Decided, Reported, ReportsTellTheTruth, PostInstall
  <2> QED
    BY <2>5, <2>6, <2>7 DEF Inv
<1>5. ASSUME NEW a \in Attempts, LinkReport(a) PROVE Inv'
  <2>1. /\ UNCHANGED <<disk, index, journal, issued, who, pc, use>>
        /\ pc = "finalize" /\ a \in journal.attempts
        /\ report' = [report EXCEPT ![a] = Ending(a)]
    BY <1>5 DEF LinkReport
  <2>2. Control' /\ IndexProof' /\ OthersUntouched' /\ AttemptDocs'
    BY <2>1 DEF Inv, Control, IndexProof, OthersUntouched, AttemptDocs, Retained
  <2>3. Decided'
    BY <2>1 DEF Inv, Decided, FilesInstalled, Want, WantIndex, Winner
  <2>4. use = Winner
    BY <2>1 DEF Inv, Decided, PostInstall
  <2>5. Reported'
    BY <2>1, <2>4
       DEF Inv, TypeOK, Reported, ReportsTellTheTruth, Ending, Winner, Retained
  <2> QED
    BY <2>2, <2>3, <2>5 DEF Inv
<1> QED
  BY <1>2, <1>3, <1>4, <1>5

\* Steps that rewrite or remove the journal.
LEMMA JournalStepInv ==
    ASSUME Inv, TypeOK', Prepare \/ MarkCommitted \/ DropJournal
    PROVE  Inv'
<1> USE DEF fileVars, reportVars, ownerVars
<1>1. CASE Prepare
  <2>1. /\ journal' = [journal EXCEPT !.phase = "prepared"]
        /\ use' = "new" /\ pc' = "install" /\ pc = "retain" /\ who = "command"
        /\ UNCHANGED <<disk, index, report, issued, who>>
    BY <1>1 DEF Prepare
  <2>2. journal.phase = "staging" /\ journal' \in JournalType
    BY <2>1 DEF Inv, Control, TypeOK
  <2>3. /\ journal'.phase = "prepared"
        /\ journal'.policy = journal.policy /\ journal'.commit = journal.commit
        /\ journal'.base = journal.base /\ journal'.files = journal.files
        /\ journal'.old = journal.old /\ journal'.new = journal.new
        /\ journal'.attempts = journal.attempts
        /\ journal'.win = journal.win /\ journal'.lose = journal.lose
    BY <2>1 DEF Inv, TypeOK, JournalType
  <2>4. Control' /\ IndexProof'
    BY <2>1, <2>2, <2>3 DEF Inv, Control, IndexProof, Retained
  <2>5. OthersUntouched' /\ AttemptDocs'
    BY <2>1, <2>2, <2>3 DEF Inv, OthersUntouched, AttemptDocs, Retained
  <2>6. Decided' /\ Reported'
    BY <2>1, <2>2, <2>3 DEF Inv, Decided, Reported, ReportsTellTheTruth, PostInstall
  <2> QED
    BY <2>4, <2>5, <2>6 DEF Inv
<1>2. CASE MarkCommitted
  <2>1. /\ journal' = [journal EXCEPT !.phase = "committed"]
        /\ pc' = "cleanup" /\ pc = "mark"
        /\ UNCHANGED <<disk, index, report, issued, who, use>>
    BY <1>2 DEF MarkCommitted
  <2>2. /\ journal.phase = "prepared" /\ use = "new" /\ who = "command"
        /\ index = WantIndex
    BY <2>1 DEF Inv, Control, TypeOK, Decided, PostInstall
  <2>3. /\ journal'.phase = "committed"
        /\ journal'.policy = journal.policy /\ journal'.commit = journal.commit
        /\ journal'.base = journal.base /\ journal'.files = journal.files
        /\ journal'.old = journal.old /\ journal'.new = journal.new
        /\ journal'.attempts = journal.attempts
        /\ journal'.win = journal.win /\ journal'.lose = journal.lose
    BY <2>1 DEF Inv, TypeOK, JournalType
  <2>4. Control' /\ IndexProof'
    BY <2>1, <2>2, <2>3
       DEF Inv, TypeOK, JournalType, Control, IndexProof, Retained, WantIndex
  <2>5. OthersUntouched' /\ AttemptDocs'
    BY <2>1, <2>2, <2>3 DEF Inv, OthersUntouched, AttemptDocs, Retained
  <2>6. Decided'
    BY <2>1, <2>2, <2>3
       DEF Inv, Decided, PostInstall, FilesInstalled, Want, WantIndex, Winner
  <2>7. Reported'
    BY <2>1, <2>2, <2>3 DEF Inv, Reported, ReportsTellTheTruth, Ending, Winner
  <2> QED
    BY <2>4, <2>5, <2>6, <2>7 DEF Inv
<1>3. CASE DropJournal
  <2>1. /\ journal'.phase = "none" /\ pc' = "release" /\ pc = "unlink"
        /\ UNCHANGED <<disk, index, report, issued, who, use>>
    BY <1>3 DEF DropJournal, NoJournal
  <2>2. Control' /\ IndexProof'
    BY <2>1 DEF Inv, TypeOK, Control, IndexProof, Retained
  <2>3. OthersUntouched' /\ AttemptDocs' /\ Decided' /\ Reported'
    BY <2>1 DEF OthersUntouched, AttemptDocs, Decided, Reported,
                ReportsTellTheTruth, PostInstall, Retained
  <2> QED
    BY <2>2, <2>3 DEF Inv
<1> QED
  BY <1>1, <1>2, <1>3

LEMMA InvStep == Inv /\ [Next]_vars => Inv'
<1> SUFFICES ASSUME Inv, [Next]_vars PROVE Inv'
  OBVIOUS
<1>1. TypeOK'
  BY TypeStep DEF Inv
<1> QED
  BY <1>1, StepCases, NewJournalStep, OwnerStepInv, TargetStepInv, JournalStepInv

\* The inductive invariant holds in every reachable state.
THEOREM InvariantHolds == Spec => []Inv
BY InvInit, InvStep, PTL DEF Spec

-------------------------------------------------------------------------------
(***************************************************************************)
(* What follows from the invariant alone.                                  *)
(***************************************************************************)

\* No attempt is reported against the generation that won: a success report
\* stands for installed targets, an interrupted one for targets rolled back.
THEOREM ReportsTrue == Spec => []ReportsTellTheTruth
<1>1. Inv => ReportsTellTheTruth
  BY DEF Inv, Reported
<1> QED
  BY <1>1, InvariantHolds, PTL

\* Whoever reports or cleans up does so for the generation that won, and from
\* the first report to the end of cleanup every target is the winner's.
THEOREM ServesWinner == Spec => []OwnerServesWinner
<1>1. Inv => OwnerServesWinner
  BY DEF Inv, Decided, OwnerServesWinner, PostInstall
<1> QED
  BY <1>1, InvariantHolds, PTL

\* Once a generation has won no step, of doctor or of a fault, makes it lose.
THEOREM WinnerFinal == Spec => WinnerIsFinal
<1> DEFINE Final == Retained /\ Winner = "new" /\ Retained'
                      => Winner' = "new" /\ journal'.gen = journal.gen
<1>1. Inv /\ [Next]_vars => Final
  <2> SUFFICES ASSUME Inv, [Next]_vars, Retained, Winner = "new", Retained'
               PROVE  Winner' = "new" /\ journal'.gen = journal.gen
    OBVIOUS
  <2> USE DEF fileVars, reportVars, ownerVars
  <2>1. ASSUME UNCHANGED <<index, journal>>
        PROVE  Winner' = "new" /\ journal'.gen = journal.gen
    BY <2>1 DEF Winner
  <2>2. CASE Quiet \/ Gone \/ GoesOn("cleanup", "prune") \/ GoesOn("prune", "unlink")
    BY <2>1, <2>2 DEF Quiet, Gone, GoesOn
  <2>3. CASE AcquireLock \/ Installed \/ Finalized \/ SettleStart \/ Settle
    BY <2>1, <2>3 DEF AcquireLock, Installed, Finalized, SettleStart, Settle
  <2>4. ASSUME NEW f \in Files, InstallFile(f)
        PROVE  Winner' = "new" /\ journal'.gen = journal.gen
    BY <2>1, <2>4 DEF InstallFile
  <2>5. ASSUME NEW f \in Files, NEW c \in Content, ExternalEdit(f, c)
        PROVE  Winner' = "new" /\ journal'.gen = journal.gen
    BY <2>1, <2>5 DEF ExternalEdit
  <2>6. ASSUME NEW a \in Attempts, LinkReport(a)
        PROVE  Winner' = "new" /\ journal'.gen = journal.gen
    BY <2>1, <2>6 DEF LinkReport
  <2>7. CASE InstallIndex
    <3>1. /\ UNCHANGED journal /\ index' = WantIndex /\ index # WantIndex
          /\ pc = "install"
      BY <2>7 DEF InstallIndex
    <3>2. use = "new"
      BY <3>1 DEF Inv, Control, Decided, TypeOK
    <3> QED
      BY <3>1, <3>2 DEF Inv, TypeOK, JournalType, Winner, WantIndex
  <2>8. CASE Prepare
    <3>1. journal.phase = "staging"
      BY <2>8 DEF Prepare, Inv, Control
    <3> QED
      BY <2>8, <3>1 DEF Prepare, Inv, TypeOK, JournalType, IndexProof, Winner, Retained
  <2>9. CASE MarkCommitted
    BY <2>9 DEF MarkCommitted, Inv, TypeOK, JournalType, Winner
  <2>10. CASE DropJournal
    BY <2>10 DEF DropJournal, NoJournal, Retained
  <2>11. ASSUME NEW attempts, Reserve(attempts) PROVE FALSE
    BY <2>11 DEF Reserve
  <2>12. ASSUME NEW p, StageGeneration(p) PROVE FALSE
    BY <2>12 DEF StageGeneration
  <2>13. ASSUME NEW attempts, StageFailedAttempts(attempts) PROVE FALSE
    BY <2>13 DEF StageFailedAttempts
  <2>14. ASSUME pc = "reserved", who = "command" PROVE FALSE
    BY <2>14 DEF Inv, Control, Winner
  <2>15. ASSUME NEW p, NEW failed, StageReservedGeneration(p, failed) PROVE FALSE
    BY <2>14, <2>15 DEF StageReservedGeneration
  <2>16. ASSUME NEW p, StageReservedFailures(p) PROVE FALSE
    BY <2>14, <2>16 DEF StageReservedFailures
  <2> QED
    BY StepCases, <2>2, <2>3, <2>4, <2>5, <2>6, <2>7, <2>8, <2>9, <2>10, <2>11,
       <2>12, <2>13, <2>15, <2>16
<1>2. Inv /\ [Next]_vars => [Final]_vars
  BY <1>1
<1> QED
  BY <1>2, InvariantHolds, PTL DEF Spec, WinnerIsFinal

-------------------------------------------------------------------------------
(***************************************************************************)
(* What an owner may overwrite.                                            *)
(***************************************************************************)

\* From staging to the end of installation every target holds recorded bytes.
TargetsKnown ==
    pc \in {"retain", "install"} =>
        \A f \in journal.files : disk[f] \in {journal.old[f], journal.new[f]}

LEMMA TargetsKnownStep == Inv /\ TargetsKnown /\ [Next]_vars => TargetsKnown'
<1> SUFFICES ASSUME Inv, TargetsKnown, [Next]_vars PROVE TargetsKnown'
  OBVIOUS
<1> USE DEF fileVars, reportVars, ownerVars
<1>1. CASE Quiet \/ Gone \/ GoesOn("cleanup", "prune") \/ GoesOn("prune", "unlink")
  BY <1>1 DEF Quiet, Gone, GoesOn, TargetsKnown
<1>2. CASE AcquireLock \/ Installed \/ Finalized \/ SettleStart \/ MarkCommitted
            \/ DropJournal
  BY <1>2 DEF AcquireLock, Installed, Finalized, SettleStart, MarkCommitted,
              DropJournal, TargetsKnown
<1>3. CASE InstallIndex
  BY <1>3 DEF InstallIndex, TargetsKnown
<1>4. CASE Settle
  BY <1>4 DEF Settle, Settleable, TargetsMatch, TargetsKnown
<1>5. CASE Prepare
  BY <1>5 DEF Prepare, TargetsKnown, Inv, TypeOK, JournalType
<1>6. ASSUME NEW f \in Files, InstallFile(f) PROVE TargetsKnown'
  BY <1>6 DEF InstallFile, TargetsKnown, Want, Inv, TypeOK
<1>7. ASSUME NEW f \in Files, NEW c \in Content, ExternalEdit(f, c)
      PROVE  TargetsKnown'
  BY <1>7 DEF ExternalEdit, TargetsKnown, Inv, Control
<1>8. ASSUME NEW a \in Attempts, LinkReport(a) PROVE TargetsKnown'
  BY <1>8 DEF LinkReport, TargetsKnown
<1>9. ASSUME NEW attempts, Reserve(attempts) PROVE TargetsKnown'
  BY <1>9 DEF Reserve, TargetsKnown
<1>10. ASSUME NEW policy, NEW gen, NEW files, NEW new, NEW attempts, NEW failed,
              journal' = Staging(policy, gen, files, new, attempts, failed),
              UNCHANGED disk
       PROVE  TargetsKnown'
  BY <1>10 DEF Staging, TargetsKnown
<1>11. ASSUME NEW p, StageGeneration(p) PROVE TargetsKnown'
  BY <1>10, <1>11 DEF StageGeneration
<1>12. ASSUME NEW attempts, StageFailedAttempts(attempts) PROVE TargetsKnown'
  BY <1>10, <1>12 DEF StageFailedAttempts
<1>13. ASSUME NEW p, NEW failed, StageReservedGeneration(p, failed)
       PROVE  TargetsKnown'
  BY <1>10, <1>13 DEF StageReservedGeneration
<1>14. ASSUME NEW p, StageReservedFailures(p) PROVE TargetsKnown'
  BY <1>10, <1>14 DEF StageReservedFailures
<1> QED
  BY StepCases, <1>1, <1>2, <1>3, <1>4, <1>5, <1>6, <1>7, <1>8, <1>9, <1>11,
     <1>12, <1>13, <1>14

\* What an owner's step overwrites is recorded in the journal, whatever has
\* been edited by hand while nobody ran.
THEOREM ForeignBytesKept == Spec => NoForeignBytesLost
<1> DEFINE Kept == \A f \in Files :
                     who # "none" /\ disk'[f] # disk[f]
                       => disk[f] \in {journal.old[f], journal.new[f]}
<1>1. Init => TargetsKnown
  BY DEF Init, TargetsKnown
<1>2. Inv /\ TargetsKnown /\ [Next]_vars => Kept
  <2> SUFFICES ASSUME Inv, TargetsKnown, [Next]_vars, who # "none",
                      NEW g \in Files, disk'[g] # disk[g]
               PROVE  disk[g] \in {journal.old[g], journal.new[g]}
    OBVIOUS
  <2> USE DEF fileVars
  <2>1. ~ UNCHANGED disk
    OBVIOUS
  <2>2. PICK f \in Files : InstallFile(f) \/ \E c \in Content : ExternalEdit(f, c)
    BY <2>1, StepCases
       DEF Quiet, Gone, GoesOn, AcquireLock, Reserve, StageGeneration,
           StageFailedAttempts, StageReservedGeneration, StageReservedFailures,
           Prepare, InstallIndex, Installed, LinkReport, Finalized, MarkCommitted,
           DropJournal, SettleStart, Settle
  <2>3. InstallFile(f)
    BY <2>2 DEF ExternalEdit
  <2> QED
    BY <2>3 DEF InstallFile, TargetsKnown, Inv, TypeOK
<1>3. Inv /\ TargetsKnown /\ [Next]_vars => [Kept]_vars
  BY <1>2
<1> QED
  BY <1>1, <1>3, TargetsKnownStep, InvariantHolds, PTL DEF Spec, NoForeignBytesLost

(***************************************************************************)
(* Recovery copies outlive the need for them.                              *)
(***************************************************************************)

\* While a prepared journal is being installed all of its copies are there,
\* and they go only when every target is the winner's.
CopiesKept ==
    journal.phase = "prepared" =>
        /\ pc = "install" => Required \subseteq retained
        /\ \/ Required \subseteq retained
           \/ \A f \in journal.files :
                 disk[f] = (IF Winner = "new" THEN journal.new ELSE journal.old)[f]

LEMMA CopiesKeptStep ==
    "external_edit" \notin FaultKinds
      => (Inv /\ CopiesKept /\ [Next]_vars => CopiesKept')
<1> SUFFICES ASSUME "external_edit" \notin FaultKinds, Inv, CopiesKept, [Next]_vars
             PROVE  CopiesKept'
  OBVIOUS
<1> USE DEF fileVars, reportVars, ownerVars
<1> DEFINE Winners == IF Winner = "new" THEN journal.new ELSE journal.old
           AllWon  == \A f \in journal.files : disk[f] = Winners[f]
<1>1. ASSUME UNCHANGED <<disk, index, journal, retained>>,
             pc' = "install" => pc = "install" \/ Settle
      PROVE  CopiesKept'
  <2>1. Required' = Required /\ Winner' = Winner
    BY <1>1 DEF Required, Winner
  <2> QED
    BY <1>1, <2>1 DEF CopiesKept, Settle, Settleable, JournalLoads
<1>2. CASE UNCHANGED vars
  BY <1>1, <1>2 DEF vars
<1>3. CASE Begin
  <2>1. AcquireLock => CopiesKept'
    BY <1>1 DEF AcquireLock
  <2>2. ASSUME NEW attempts, Reserve(attempts) PROVE CopiesKept'
    BY <2>2 DEF Reserve, NoJournal, CopiesKept
  <2>3. ASSUME journal'.phase = "staging" PROVE CopiesKept'
    BY <2>3 DEF CopiesKept
  <2>4. ASSUME NEW p, StageGeneration(p) PROVE CopiesKept'
    BY <2>3, <2>4 DEF StageGeneration, Staging
  <2>5. ASSUME NEW attempts, StageFailedAttempts(attempts) PROVE CopiesKept'
    BY <2>3, <2>5 DEF StageFailedAttempts, Staging
  <2>6. ASSUME NEW p, NEW failed, StageReservedGeneration(p, failed) PROVE CopiesKept'
    BY <2>3, <2>6 DEF StageReservedGeneration, Staging
  <2>7. ASSUME NEW p, StageReservedFailures(p) PROVE CopiesKept'
    BY <2>3, <2>7 DEF StageReservedFailures, Staging
  <2> QED
    BY <1>3, <2>1, <2>2, <2>4, <2>5, <2>6, <2>7 DEF Begin
<1>4. CASE Work
  <2>1. ASSUME NEW x, Retain(x) PROVE CopiesKept'
    BY <2>1 DEF Retain, Inv, Control, CopiesKept
  <2>2. CASE Prepare
    <3>1. Required \subseteq retained /\ journal.phase = "staging"
      BY <2>2 DEF Prepare, Inv, Control
    <3>2. Required' = Required /\ retained' = retained
      BY <2>2, <3>1 DEF Prepare, Required, Inv, TypeOK, JournalType
    <3> QED
      BY <3>1, <3>2 DEF CopiesKept
  <2>3. ASSUME NEW d, MakeDirectory(d) PROVE CopiesKept'
    BY <1>1, <2>3 DEF MakeDirectory
  <2>4. ASSUME NEW d, RemoveDirectory(d) PROVE CopiesKept'
    BY <1>1, <2>4 DEF RemoveDirectory
  <2>5. ASSUME pc = "install", UNCHANGED <<journal, retained>> PROVE CopiesKept'
    BY <2>5 DEF CopiesKept, Required
  <2>6. ASSUME NEW f, InstallFile(f) PROVE CopiesKept'
    BY <2>5, <2>6 DEF InstallFile
  <2>7. CASE InstallIndex
    BY <2>5, <2>7 DEF InstallIndex
  <2>8. CASE Installed
    BY <1>1, <2>8 DEF Installed
  <2> QED
    BY <1>4, <2>1, <2>2, <2>3, <2>4, <2>6, <2>7, <2>8 DEF Work
<1>5. CASE Finish
  <2>1. ASSUME NEW a, MakeReportDirectory(a) PROVE CopiesKept'
    BY <1>1, <2>1 DEF MakeReportDirectory
  <2>2. ASSUME NEW a, StageReport(a) PROVE CopiesKept'
    BY <1>1, <2>2 DEF StageReport
  <2>3. ASSUME NEW a, LinkReport(a) PROVE CopiesKept'
    BY <1>1, <2>3 DEF LinkReport
  <2>4. ASSUME NEW a, UnlinkStaging(a) PROVE CopiesKept'
    BY <1>1, <2>4 DEF UnlinkStaging
  <2>5. CASE Finalized
    BY <1>1, <2>5 DEF Finalized
  <2>6. CASE MarkCommitted
    BY <2>6 DEF MarkCommitted, CopiesKept, Inv, TypeOK, JournalType
  <2>7. ASSUME NEW x, DropRetained(x) PROVE CopiesKept'
    <3>1. UNCHANGED <<disk, index, journal, pc, use>> /\ pc = "cleanup"
      BY <2>7 DEF DropRetained
    <3>2. AllWon
      BY <3>1 DEF Inv, Decided, PostInstall, FilesInstalled, Want
    <3>3. AllWon' /\ journal' = journal
      BY <3>1, <3>2 DEF Winner
    <3> QED
      BY <3>1, <3>3 DEF CopiesKept
  <2>8. CASE RetainedDropped
    BY <1>1, <2>8 DEF RetainedDropped
  <2>9. CASE PruneViews
    BY <1>1, <2>9 DEF PruneViews
  <2>10. CASE DropJournal
    BY <2>10 DEF DropJournal, NoJournal, CopiesKept
  <2>11. CASE ReleaseLock
    BY <1>1, <2>11 DEF ReleaseLock, Leave
  <2> QED
    BY <1>5, <2>1, <2>2, <2>3, <2>4, <2>5, <2>6, <2>7, <2>8, <2>9, <2>10, <2>11
       DEF Finish
<1>6. CASE Recover
  BY <1>1, <1>6 DEF Recover, SettleStart, RemoveStaleLock, Settle, Refuse, Leave
<1>7. CASE FaultStep
  <2>1. CASE Stop \/ Fail
    BY <1>1, <2>1 DEF Stop, Fail, Leave
  <2>2. ASSUME NEW a, StopInReport(a) PROVE CopiesKept'
    BY <1>1, <2>2 DEF StopInReport, Leave
  <2>3. ASSUME NEW f, NEW c, ExternalEdit(f, c) PROVE FALSE
    BY <2>3 DEF ExternalEdit, Fault
  <2> QED
    BY <1>7, <2>1, <2>2, <2>3 DEF FaultStep
<1> QED
  BY <1>2, <1>3, <1>4, <1>5, <1>6, <1>7 DEF Next

\* Where nobody edits a target by hand, no kill and no error of a command or
\* of doctor loses a copy the winning generation still needs.
THEOREM Recoverable ==
    "external_edit" \notin FaultKinds => (Spec => []WinnerRecoverable)
<1> SUFFICES ASSUME "external_edit" \notin FaultKinds
             PROVE  Spec => []WinnerRecoverable
  OBVIOUS
<1>1. Init => CopiesKept
  BY DEF Init, NoJournal, CopiesKept
<1>2. Inv /\ CopiesKept /\ [Next]_vars => CopiesKept'
  BY CopiesKeptStep
<1>3. Inv /\ CopiesKept => WinnerRecoverable
  <2> SUFFICES ASSUME Inv, CopiesKept, journal.phase = "prepared",
                      NEW f \in journal.files,
                      disk[f] # (IF Winner = "new" THEN journal.new ELSE journal.old)[f]
               PROVE  \/ (IF Winner = "new" THEN journal.new ELSE journal.old)[f] = Absent
                      \/ <<Winner, f>> \in retained
    BY DEF WinnerRecoverable
  <2>1. Required \subseteq retained
    BY DEF CopiesKept
  <2>2. Winner \in {"old", "new"}
    BY DEF Winner
  <2> QED
    BY <2>1, <2>2 DEF Required
<1> QED
  BY <1>1, <1>2, <1>3, InvariantHolds, PTL DEF Spec

-------------------------------------------------------------------------------
(***************************************************************************)
(* Why an owner gives up.  What follows is kept beside Inv: where the      *)
(* directories a journal is to create lie, what lies in them, and which    *)
(* staging documents and recovery copies there can be.                     *)
(***************************************************************************)

\* Whatever exists lies in directories that exist.
Placed ==
    /\ \A e \in dirs : Above[e] \subseteq dirs
    /\ \A f \in Files : disk[f] # Absent => Above[f] \subseteq dirs
    /\ \A a \in Attempts :
          report[a] # "none" \/ temp[a] # "none" => Above[a] \subseteq dirs

\* The directories a journal creates held nothing when it was written, and each
\* is there for a target that will exist or for a report.
Created ==
    Retained =>
        /\ journal.phase = "reserved" => journal.mkdirs = {}
        /\ \A d \in journal.mkdirs :
              /\ \A f \in Files : journal.old[f] # Absent => d \notin Above[f]
              /\ \A e \in dirs : d \in Above[e] => e \in journal.mkdirs
              /\ \A a \in Attempts \ journal.attempts :
                    d \in Above[a] => report[a] = "none"
              /\ \/ \E f \in journal.files : journal.new[f] # Absent /\ d \in Above[f]
                 \/ \E a \in journal.attempts : d \in Above[a]

\* The directories above a report, and above a target of a generation that can
\* win, are there or are the journal's to create.
Homes ==
    journal.phase \notin {"none", "reserved"} =>
        /\ \A a \in journal.attempts : Above[a] \subseteq dirs \cup journal.mkdirs
        /\ who = "command" \/ Winner = "new" =>
              \A f \in journal.files :
                 journal.new[f] # Absent => Above[f] \subseteq dirs \cup journal.mkdirs

\* A generation that is installed has its directories.
Stand ==
    journal.phase = "committed" \/ (pc \in PostInstall /\ use = "new")
        => journal.mkdirs \subseteq dirs

\* A staging document is the winner's or torn, and is gone before cleanup.
Staged ==
    \A a \in Attempts : temp[a] # "none" =>
        /\ Retained /\ a \in journal.attempts
        /\ temp[a] \in {"torn", IF Winner = "new" THEN journal.win[a] ELSE journal.lose[a]}
        /\ who = "command" => pc = "finalize"
        /\ pc \notin {"mark", "cleanup", "prune", "unlink"}

\* Whoever installs has what it may still have to write.
CopiesThere ==
    pc = "install" =>
        /\ journal.phase = "prepared" => Required \subseteq retained
        /\ journal.phase = "committed" => \A f \in journal.files : disk[f] = journal.new[f]

Evidence == Placed /\ Created /\ Homes /\ Stand /\ Staged /\ CopiesThere

LEMMA EvidenceInit == Init => Evidence
BY DEF Init, NoJournal, Retained, Evidence, Placed, Created, Homes, Stand, Staged,
       CopiesThere, PostInstall

\* Whoever installs forward is a command or serves the winner; backward, only
\* doctor installs, and only for the winner.
LEMMA Installer ==
    ASSUME Inv, pc = "install" \/ pc \in PostInstall
    PROVE  /\ Retained
           /\ who # "none"
           /\ use = "new" => who = "command" \/ Winner = "new"
           /\ use = "old" => who = "doctor" /\ Winner = "old"
           /\ pc \in PostInstall => use = Winner
BY DEF Inv, TypeOK, Control, Decided, Retained, PostInstall

\* A step that touches only the owner's place and the recovery copies.
Elsewhere == UNCHANGED <<disk, index, dirs, report, temp, journal>>

LEMMA ElsewhereKeeps ==
    ASSUME Elsewhere
    PROVE  /\ Winner' = Winner /\ Required' = Required
           /\ Placed => Placed'
           /\ Created => Created'
           /\ Homes /\ (who' = "command" => who = "command" \/ ~Retained) => Homes'
           /\ Stand /\ (pc' \in PostInstall => pc \in PostInstall /\ use' = use) => Stand'
           /\ Staged /\ (who' # "none" => who' = who)
                /\ (pc' = pc \/ (pc' \in {"idle", "load", "install"} /\ who' # "command")) => Staged'
<1> USE DEF Elsewhere
<1>1. Winner' = Winner /\ Required' = Required /\ Retained' = Retained
  BY DEF Winner, Required, Retained
<1>2. (Placed => Placed') /\ (Created => Created')
  BY <1>1 DEF Placed, Created
<1>3. Homes /\ (who' = "command" => who = "command" \/ ~Retained) => Homes'
  BY <1>1 DEF Homes, Retained
<1>4. Stand /\ (pc' \in PostInstall => pc \in PostInstall /\ use' = use) => Stand'
  BY <1>1 DEF Stand
<1>5. Staged /\ (who' # "none" => who' = who)
        /\ (pc' = pc \/ (pc' \in {"idle", "load", "install"} /\ who' # "command")) => Staged'
  BY <1>1 DEF Staged
<1> QED
  BY <1>1, <1>2, <1>3, <1>4, <1>5

\* Steps of an owner that change neither targets, journal nor reports.
LEMMA OwnerStepEvidence ==
    ASSUME Inv, Evidence,
           \/ AcquireLock \/ Installed \/ Finalized \/ RetainedDropped \/ ReleaseLock
           \/ \E x \in Sides \X (Files \cup {Index}) : Retain(x)
           \/ \E x \in Sides \X (Files \cup {Index}) : DropRetained(x)
           \/ Recover \/ Stop \/ Fail \/ UNCHANGED vars
    PROVE  Evidence'
<1> USE DEF fileVars, reportVars, ownerVars
<1>1. Elsewhere
  BY DEF AcquireLock, Installed, Finalized, RetainedDropped, ReleaseLock, Retain,
         DropRetained, Recover, SettleStart, RemoveStaleLock, Settle, Refuse, Stop,
         Fail, Leave, vars, Elsewhere
<1>2. Placed' /\ Created' /\ Winner' = Winner /\ Required' = Required
        /\ UNCHANGED <<disk, index, dirs, report, temp, journal>>
  BY <1>1, ElsewhereKeeps DEF Evidence, Elsewhere
<1>3. ASSUME who' = "none", pc' = "idle" PROVE Evidence'
  BY <1>1, <1>2, <1>3, ElsewhereKeeps DEF Evidence, CopiesThere, PostInstall
<1>4. CASE ReleaseLock \/ Refuse \/ Stop \/ Fail
  BY <1>3, <1>4 DEF ReleaseLock, Refuse, Stop, Fail, Leave
<1>5. CASE AcquireLock
  <2>1. ~Retained /\ who' = "command" /\ pc' = "ready"
    BY <1>5 DEF AcquireLock
  <2>2. Homes' /\ Stand'
    BY <1>1, <2>1, ElsewhereKeeps DEF Evidence, PostInstall
  <2>3. Staged' /\ CopiesThere'
    BY <1>2, <2>1 DEF Evidence, Staged, CopiesThere
  <2> QED
    BY <1>2, <2>2, <2>3 DEF Evidence
<1>6. CASE Installed
  <2>1. pc = "install" /\ pc' = "finalize" /\ UNCHANGED <<who, use>> /\ DirsInstalled
    BY <1>6 DEF Installed
  <2>2. Homes'
    BY <1>1, <2>1, ElsewhereKeeps DEF Evidence
  <2>3. Stand'
    BY <1>2, <2>1 DEF Evidence, Stand, DirsInstalled
  <2>4. Staged' /\ CopiesThere'
    <3>1. Retained' = Retained
      BY <1>2 DEF Retained
    <3> QED
      BY <1>2, <2>1, <3>1 DEF Evidence, Staged, CopiesThere
  <2> QED
    BY <1>2, <2>2, <2>3, <2>4 DEF Evidence
<1>7. CASE Finalized
  <2>1. /\ pc = "finalize" /\ pc' \in {"mark", "cleanup"} /\ UNCHANGED <<who, use>>
        /\ NoStaging
    BY <1>7 DEF Finalized
  <2>2. Homes' /\ Stand'
    BY <1>1, <2>1, ElsewhereKeeps DEF Evidence, PostInstall
  <2>3. \A a \in Attempts : temp[a] = "none"
    BY <2>1 DEF Evidence, Staged, NoStaging
  <2>4. Staged' /\ CopiesThere'
    BY <1>2, <2>1, <2>3 DEF Staged, CopiesThere
  <2> QED
    BY <1>2, <2>2, <2>4 DEF Evidence
<1>8. CASE \/ RetainedDropped \/ RemoveStaleLock \/ UNCHANGED vars
           \/ \E x \in Sides \X (Files \cup {Index}) : Retain(x)
           \/ \E x \in Sides \X (Files \cup {Index}) : DropRetained(x)
  <2>1. /\ UNCHANGED <<who, use>>
        /\ \/ pc' = pc
           \/ pc = "cleanup" /\ pc' = "prune"
        /\ pc = "install" => retained' = retained
    BY <1>8 DEF RetainedDropped, RemoveStaleLock, Retain, DropRetained, vars
  <2>2. Homes' /\ Stand'
    BY <1>1, <2>1, ElsewhereKeeps DEF Evidence, PostInstall
  <2>3. Staged'
    <3>1. Retained' = Retained
      BY <1>2 DEF Retained
    <3> QED
      BY <1>2, <2>1, <3>1 DEF Evidence, Staged
  <2>4. CopiesThere'
    BY <1>2, <2>1 DEF Evidence, CopiesThere
  <2> QED
    BY <1>2, <2>2, <2>3, <2>4 DEF Evidence
<1>9. CASE SettleStart
  <2>1. who' = "doctor" /\ pc' = "load"
    BY <1>9 DEF SettleStart
  <2>2. Homes' /\ Stand'
    BY <1>1, <2>1, ElsewhereKeeps DEF Evidence, PostInstall
  <2>3. Staged' /\ CopiesThere'
    <3>1. Retained' = Retained
      BY <1>2 DEF Retained
    <3> QED
      BY <1>2, <2>1, <3>1 DEF Evidence, Staged, CopiesThere
  <2> QED
    BY <1>2, <2>2, <2>3 DEF Evidence
<1>10. CASE Settle
  <2>1. pc = "load" /\ pc' = "install" /\ Settleable /\ UNCHANGED <<who, retained>>
    BY <1>10 DEF Settle
  <2>2. who = "doctor"
    BY <2>1 DEF Inv, TypeOK, Control
  <2>3. Homes' /\ Stand' /\ Staged'
    BY <1>1, <2>1, <2>2, ElsewhereKeeps DEF Evidence, PostInstall
  <2>4. CopiesThere'
    BY <1>2, <2>1 DEF CopiesThere, Settleable, JournalLoads, CommittedTargetsMatch
  <2> QED
    BY <1>2, <2>3, <2>4 DEF Evidence
<1> QED
  BY <1>4, <1>5, <1>6, <1>7, <1>8, <1>9, <1>10 DEF Recover


\* A command that writes a journal: what it is to create does not exist yet.
LEMMA NewJournalEvidence ==
    ASSUME Inv, Evidence, TypeOK', UNCHANGED <<disk, index, dirs, report, temp>>,
           who = "command", who' = who, pc \in {"ready", "reserved"},
           pc' \in {"reserved", "retain"},
           NEW files \in SUBSET Files, NEW next \in [Files -> Content],
           NEW attempts \in SUBSET Attempts,
           \A f \in Files \ files : next[f] = disk[f],
           journal'.old = disk, journal'.files = files, journal'.new = next,
           journal'.attempts = attempts,
           \/ journal'.phase = "reserved" /\ journal'.mkdirs = {}
           \/ journal'.phase = "staging"
                /\ journal'.mkdirs = MissingDirs(files, next, attempts)
    PROVE  Evidence'
<1>1. Placed'
  BY DEF Evidence, Placed
<1>2. Created'
  <2>1. ASSUME NEW d \in journal'.mkdirs
        PROVE  /\ d \notin dirs
               /\ \/ \E f \in files : next[f] # Absent /\ d \in Above[f]
                  \/ \E a \in attempts : d \in Above[a]
    BY <2>1 DEF MissingDirs
  <2>2. ASSUME NEW d \in journal'.mkdirs
        PROVE  /\ \A f \in Files : disk[f] # Absent => d \notin Above[f]
               /\ \A e \in dirs : d \notin Above[e]
               /\ \A a \in Attempts : d \in Above[a] => report[a] = "none"
    BY <2>1 DEF Evidence, Placed
  <2> QED
    BY <2>1, <2>2 DEF Created
<1>3. Homes'
  BY DEF Homes, MissingDirs
<1>4. Stand' /\ CopiesThere'
  BY DEF Stand, CopiesThere, PostInstall
<1>5. Staged'
  <2>1. \A a \in Attempts : temp[a] = "none"
    BY DEF Evidence, Staged
  <2> QED
    BY <2>1 DEF Staged
<1> QED
  BY <1>1, <1>2, <1>3, <1>4, <1>5 DEF Evidence

LEMMA BeginEvidence ==
    ASSUME Inv, Evidence, TypeOK', Begin
    PROVE  Evidence'
<1> USE DEF fileVars, reportVars, ownerVars
<1>1. disk \in [Files -> Content] /\ journal.attempts \in SUBSET Attempts
  BY DEF Inv, TypeOK, JournalType
<1>2. ASSUME NEW policy, NEW gen, NEW files \in SUBSET Files,
             NEW new \in [Files -> Content], NEW attempts \in SUBSET Attempts, NEW failed,
             journal' = Staging(policy, gen, files, new, attempts, failed),
             UNCHANGED <<disk, index, dirs, report, temp>>,
             who = "command", who' = who, pc \in {"ready", "reserved"}, pc' = "retain"
      PROVE  Evidence'
  <2> DEFINE next == [f \in Files |-> IF f \in files THEN new[f] ELSE disk[f]]
  <2>1. next \in [Files -> Content] /\ \A f \in Files \ files : next[f] = disk[f]
    BY <1>1
  <2>2. /\ journal'.old = disk /\ journal'.files = files /\ journal'.new = next
        /\ journal'.attempts = attempts /\ journal'.phase = "staging"
        /\ journal'.mkdirs = MissingDirs(files, next, attempts)
    BY <1>2 DEF Staging
  <2> HIDE DEF next
  <2> QED
    BY <1>2, <2>1, <2>2, NewJournalEvidence
<1>3. CASE AcquireLock
  BY <1>3, OwnerStepEvidence
<1>4. ASSUME NEW attempts \in SUBSET Attempts, Reserve(attempts) PROVE Evidence'
  <2>1. /\ journal'.phase = "reserved" /\ journal'.mkdirs = {} /\ journal'.files = {}
        /\ journal'.old = disk /\ journal'.new = disk /\ journal'.attempts = attempts
    BY <1>4 DEF Reserve, NoJournal
  <2>2. /\ who = "command" /\ who' = who /\ pc = "ready" /\ pc' = "reserved"
        /\ UNCHANGED <<disk, index, dirs, report, temp>>
    BY <1>4 DEF Reserve
  <2> QED
    BY <1>1, <2>1, <2>2, NewJournalEvidence
<1>5. ASSUME NEW p \in Plans, StageGeneration(p) PROVE Evidence'
  <2>1. p.files \in SUBSET Files /\ p.new \in [Files -> Content]
    BY PlansAssumption
  <2> QED
    BY <1>2, <1>5, <2>1 DEF StageGeneration
<1>6. ASSUME NEW attempts \in SUBSET Attempts, StageFailedAttempts(attempts)
      PROVE  Evidence'
  BY <1>1, <1>2, <1>6 DEF StageFailedAttempts
<1>7. ASSUME NEW p \in Plans, NEW failed \in SUBSET Attempts,
             StageReservedGeneration(p, failed)
      PROVE  Evidence'
  <2>1. p.files \in SUBSET Files /\ p.new \in [Files -> Content]
    BY PlansAssumption
  <2> QED
    BY <1>1, <1>2, <1>7, <2>1 DEF StageReservedGeneration
<1>8. ASSUME NEW p \in Plans, StageReservedFailures(p) PROVE Evidence'
  <2>1. p.files \in SUBSET Files /\ p.new \in [Files -> Content]
    BY PlansAssumption
  <2> QED
    BY <1>1, <1>2, <1>8, <2>1 DEF StageReservedFailures
<1> QED
  BY <1>3, <1>4, <1>5, <1>6, <1>7, <1>8 DEF Begin

\* The journal's phase goes forward, or the journal goes.
LEMMA PhaseEvidence ==
    ASSUME Inv, Evidence, Prepare \/ MarkCommitted \/ DropJournal
    PROVE  Evidence'
<1> USE DEF fileVars, reportVars, ownerVars
<1>1. UNCHANGED <<disk, index, dirs, report, temp, who>>
  BY DEF Prepare, MarkCommitted, DropJournal
<1>2. Placed'
  BY <1>1 DEF Evidence, Placed
<1>3. CASE DropJournal
  <2>1. pc = "unlink" /\ pc' = "release" /\ journal'.phase = "none"
    BY <1>3 DEF DropJournal, NoJournal
  <2>2. Created' /\ Homes' /\ Stand' /\ CopiesThere'
    BY <2>1 DEF Created, Homes, Stand, CopiesThere, Retained, PostInstall
  <2>3. Staged'
    BY <1>1, <2>1 DEF Evidence, Staged
  <2> QED
    BY <1>2, <2>2, <2>3 DEF Evidence
<1>4. CASE Prepare \/ MarkCommitted
  <2>1. /\ who = "command" /\ Retained /\ Retained'
        /\ journal.phase \notin {"none", "reserved"}
        /\ journal'.phase \notin {"none", "reserved"}
        /\ journal'.files = journal.files /\ journal'.old = journal.old
        /\ journal'.new = journal.new /\ journal'.mkdirs = journal.mkdirs
        /\ journal'.attempts = journal.attempts /\ journal'.policy = journal.policy
    BY <1>4 DEF Prepare, MarkCommitted, Inv, TypeOK, JournalType, Control, Retained
  <2>2. Created'
    BY <1>1, <2>1 DEF Evidence, Created
  <2>3. Homes'
    BY <1>1, <2>1 DEF Evidence, Homes
  <2>4. Staged'
    <3>1. pc # "finalize"
      BY <1>4 DEF Prepare, MarkCommitted
    <3> QED
      BY <1>1, <2>1, <3>1 DEF Evidence, Staged
  <2>5. CASE Prepare
    <3>1. /\ pc = "retain" /\ pc' = "install" /\ journal'.phase = "prepared"
          /\ Required \subseteq retained /\ retained' = retained
          /\ journal.phase = "staging"
      BY <2>5 DEF Prepare, Inv, TypeOK, JournalType, Control
    <3>2. Required' = Required
      BY <2>1, <3>1 DEF Required
    <3> QED
      BY <1>2, <2>2, <2>3, <2>4, <3>1, <3>2 DEF Evidence, Stand, CopiesThere, PostInstall
  <2>6. CASE MarkCommitted
    <3>1. pc = "mark" /\ pc' = "cleanup" /\ use = "new"
      BY <2>6 DEF MarkCommitted, Inv, TypeOK, Control
    <3>2. journal.mkdirs \subseteq dirs
      BY <3>1 DEF Evidence, Stand, PostInstall
    <3>3. Stand' /\ CopiesThere'
      BY <1>1, <2>1, <3>1, <3>2 DEF Stand, CopiesThere
    <3> QED
      BY <1>2, <2>2, <2>3, <2>4, <3>3 DEF Evidence
  <2> QED
    BY <1>4, <2>5, <2>6
<1> QED
  BY <1>3, <1>4

\* The steps that stage, link and unlink an attempt's report.
LEMMA ReportEvidence ==
    ASSUME Inv, Evidence, NEW a \in Attempts,
           StageReport(a) \/ LinkReport(a) \/ UnlinkStaging(a) \/ StopInReport(a)
    PROVE  Evidence'
<1> USE DEF fileVars, reportVars, ownerVars
<1>1. /\ UNCHANGED <<disk, index, dirs, journal>>
      /\ pc = "finalize" /\ a \in journal.attempts
      /\ \/ UNCHANGED <<who, pc, use>>
         \/ who' = "none" /\ pc' = "idle"
  BY DEF StageReport, LinkReport, UnlinkStaging, StopInReport, StagesReport, Leave
<1>2. Retained /\ use = Winner
  BY <1>1, Installer DEF PostInstall
<1>3. Winner' = Winner /\ Retained'
  BY <1>1, <1>2 DEF Winner, Retained
<1>4. /\ \A b \in Attempts \ {a} : report'[b] = report[b] /\ temp'[b] = temp[b]
      /\ Above[a] \subseteq dirs \/ (report'[a] = report[a] /\ temp'[a] = "none")
      /\ temp'[a] \in {"none", "torn", Ending(a), temp[a]}
  BY DEF StageReport, LinkReport, UnlinkStaging, StopInReport, StagesReport, Inv, TypeOK
<1>5. Placed'
  BY <1>1, <1>4 DEF Evidence, Placed
<1>6. Created' /\ Homes' /\ Stand' /\ CopiesThere'
  BY <1>1, <1>2, <1>3, <1>4 DEF Evidence, Created, Homes, Stand, CopiesThere, PostInstall
<1>7. Staged'
  <2>1. Ending(a) = IF Winner = "new" THEN journal.win[a] ELSE journal.lose[a]
    BY <1>2 DEF Ending
  <2> QED
    BY <1>1, <1>2, <1>3, <1>4, <2>1 DEF Evidence, Staged
<1> QED
  BY <1>5, <1>6, <1>7 DEF Evidence


\* The index is replaced by a command, which has staged no report by then.
LEMMA IndexEvidence ==
    ASSUME Inv, Evidence, InstallIndex PROVE Evidence'
<1> USE DEF fileVars, reportVars, ownerVars
<1>1. /\ UNCHANGED <<disk, dirs, report, temp, journal, retained, who, pc, use>>
      /\ pc = "install" /\ index # WantIndex
  BY DEF InstallIndex
<1>2. Retained /\ who = "command"
  <2>1. Retained /\ who \in {"command", "doctor"}
    BY <1>1, Installer DEF Inv, TypeOK
  <2>2. ASSUME who = "doctor" PROVE FALSE
    <3>1. use = Winner
      BY <1>1, <2>2 DEF Inv, Decided
    <3> QED
      BY <1>1, <2>1, <3>1 DEF Inv, IndexProof, Winner, WantIndex, TypeOK, JournalType
  <2> QED
    BY <2>1, <2>2
<1>3. Placed' /\ Created' /\ Stand' /\ CopiesThere'
  <2>1. Required' = Required /\ Retained' = Retained
    BY <1>1 DEF Required, Retained
  <2> QED
    BY <1>1, <2>1 DEF Evidence, Placed, Created, Stand, CopiesThere
<1>4. Homes'
  BY <1>1, <1>2 DEF Evidence, Homes
<1>5. Staged'
  BY <1>1, <1>2 DEF Evidence, Staged
<1> QED
  BY <1>3, <1>4, <1>5 DEF Evidence

\* Steps on directories and targets.  more and fewer are the directories made
\* and removed.
LEMMA TargetEvidence ==
    ASSUME Inv, Evidence,
           UNCHANGED <<index, report, temp, journal, retained, who, use>>,
           pc' = pc \/ (pc = "prune" /\ pc' = "unlink"),
           Placed', Retained,
           \A e \in dirs' \ dirs : e \in journal.mkdirs
                                     \/ \A d \in journal.mkdirs : d \notin Above[e],
           \/ dirs \subseteq dirs'
           \/ dirs \ dirs' \subseteq journal.mkdirs
                /\ ~ (journal.phase = "committed" \/ (pc \in PostInstall /\ use = "new"))
           \/ pc = "prune" /\ dirs' = dirs \ Pruned,
           disk' = disk \/ pc # "install" \/ journal.phase # "committed"
    PROVE  Evidence'
<1>1. Winner' = Winner /\ Retained' /\ Required' = Required
  BY DEF Winner, Retained, Required
<1>2. Created'
  BY <1>1 DEF Evidence, Created
<1>3. CASE pc = "prune" /\ dirs' = dirs \ Pruned
  <2>1. use = Winner /\ who # "none" /\ (use = "old" => who = "doctor") /\ FilesInstalled
          /\ (use = "new" => who = "command" \/ Winner = "new") /\ use \in Sides
    BY <1>3, Installer DEF PostInstall, Inv, Decided, TypeOK
  <2>2. \A a \in Attempts : Above[a] \cap Pruned = {}
    BY DEF Pruned
  <2>3. use = "new" =>
           \A f \in journal.files : journal.new[f] # Absent => Above[f] \cap Pruned = {}
    BY <2>1 DEF FilesInstalled, Want, Pruned, Inv, TypeOK, JournalType
  <2>4. Homes'
    BY <1>1, <1>3, <2>1, <2>2, <2>3 DEF Evidence, Homes, Sides, Inv, TypeOK, JournalType
  <2>5. Stand'
    <3>1. SUFFICES ASSUME journal.phase = "committed" \/ use = "new"
                   PROVE  journal.mkdirs \subseteq dirs'
      BY DEF Stand
    <3>2. use = "new" /\ journal.mkdirs \subseteq dirs
      BY <1>3, <2>1, <3>1 DEF Evidence, Stand, Winner, PostInstall
    <3>3. \A d \in journal.mkdirs : d \notin Pruned
      BY <1>1, <2>2, <2>3, <3>2 DEF Evidence, Created, Inv, TypeOK, JournalType
    <3> QED
      BY <1>3, <3>2, <3>3
  <2>6. Staged' /\ CopiesThere'
    BY <1>1, <1>3 DEF Evidence, Staged, CopiesThere
  <2> QED
    BY <1>2, <2>4, <2>5, <2>6 DEF Evidence
<1>4. CASE ~ (pc = "prune" /\ dirs' = dirs \ Pruned)
  <2>1. dirs \subseteq dirs' \cup journal.mkdirs
    BY <1>4
  <2>2. Homes'
    BY <1>1, <2>1 DEF Evidence, Homes
  <2>3. Stand'
    BY <1>4 DEF Evidence, Stand, PostInstall
  <2>4. Staged'
    BY <1>1 DEF Evidence, Staged
  <2>5. CopiesThere'
    BY <1>1 DEF Evidence, CopiesThere
  <2> QED
    BY <1>2, <2>2, <2>3, <2>4, <2>5 DEF Evidence
<1> QED
  BY <1>3, <1>4

LEMMA DirectoryEvidence ==
    ASSUME Inv, Evidence,
           \/ \E d \in Dirs : MakeDirectory(d)
           \/ \E d \in Dirs : RemoveDirectory(d)
           \/ \E a \in Attempts : MakeReportDirectory(a)
           \/ PruneViews
    PROVE  Evidence'
<1> USE DEF fileVars, reportVars, ownerVars
<1>1. Placed /\ dirs \subseteq Dirs
  BY DEF Evidence, Inv, TypeOK
<1>2. ASSUME NEW d \in Dirs, MakeDirectory(d) PROVE Evidence'
  <2>1. /\ UNCHANGED <<disk, index, report, temp, journal, retained, who, pc, use>>
        /\ pc = "install" /\ d \in journal.mkdirs /\ Above[d] \subseteq dirs
        /\ dirs' = dirs \cup {d}
    BY <1>2 DEF MakeDirectory
  <2>2. Placed'
    BY <1>1, <2>1 DEF Placed
  <2> QED
    BY <2>1, <2>2, Installer, TargetEvidence
<1>3. ASSUME NEW d \in Dirs, RemoveDirectory(d) PROVE Evidence'
  <2>1. /\ UNCHANGED <<disk, index, report, temp, journal, retained, who, pc, use>>
        /\ pc = "install" /\ use = "old" /\ d \in journal.mkdirs /\ Empty(d)
        /\ dirs' = dirs \ {d}
    BY <1>3 DEF RemoveDirectory, NextRemoval
  <2>2. Placed'
    BY <1>1, <2>1 DEF Placed, Empty
  <2>3. journal.phase # "committed"
    BY <2>1, Installer DEF Winner
  <2> QED
    BY <2>1, <2>2, <2>3, Installer, TargetEvidence DEF PostInstall
<1>4. ASSUME NEW a \in Attempts, MakeReportDirectory(a) PROVE Evidence'
  <2>1. /\ UNCHANGED <<disk, index, report, temp, journal, retained, who, pc, use>>
        /\ pc = "finalize" /\ a \in journal.attempts /\ dirs' = dirs \cup Above[a]
    BY <1>4 DEF MakeReportDirectory
  <2>2. Placed'
    BY <1>1, <2>1, NamesAssumption DEF Placed
  <2>3. Retained
    BY <2>1, Installer DEF PostInstall
  <2>4. \A e \in Above[a] \ dirs : e \in journal.mkdirs \/ journal.mkdirs = {}
    BY <2>1, <2>3 DEF Evidence, Created, Homes, Retained
  <2> QED
    BY <2>1, <2>2, <2>3, <2>4, TargetEvidence
<1>5. CASE PruneViews
  <2>1. /\ UNCHANGED <<disk, index, report, temp, journal, retained, who, use>>
        /\ pc = "prune" /\ pc' = "unlink" /\ dirs' = dirs \ Pruned
    BY <1>5 DEF PruneViews
  <2>2. Placed'
    <3>1. ASSUME NEW e \in dirs, NEW d \in Above[e] \cap Pruned PROVE e \in Pruned
      <4>1. e \in Touched
        BY <3>1 DEF Pruned
      <4>2. \A x \in Files \cup Attempts \cup dirs : e \in Above[x] => d \in Above[x]
        BY <1>1, NamesAssumption
      <4> QED
        BY <3>1, <4>1, <4>2 DEF Pruned
    <3>2. \A e \in dirs' : Above[e] \subseteq dirs'
      BY <1>1, <2>1, <3>1 DEF Placed
    <3>3. \A f \in Files : disk[f] # Absent => Above[f] \cap Pruned = {}
      BY DEF Pruned
    <3>4. \A a \in Attempts : Above[a] \cap Pruned = {}
      BY DEF Pruned
    <3> QED
      BY <1>1, <2>1, <3>2, <3>3, <3>4 DEF Placed
  <2> QED
    BY <2>1, <2>2, Installer, TargetEvidence DEF PostInstall
<1> QED
  BY <1>2, <1>3, <1>4, <1>5

LEMMA FileEvidence ==
    ASSUME Inv, Evidence,
           \/ \E f \in Files : InstallFile(f)
           \/ \E f \in Files, c \in Content : ExternalEdit(f, c)
    PROVE  Evidence'
<1> USE DEF fileVars, reportVars, ownerVars
<1>1. Placed /\ disk \in [Files -> Content]
  BY DEF Evidence, Inv, TypeOK
<1>2. ASSUME NEW f \in Files, InstallFile(f) PROVE Evidence'
  <2>1. /\ UNCHANGED <<index, report, temp, journal, retained, who, pc, use>>
        /\ pc = "install" /\ f \in journal.files /\ disk[f] # Want[f]
        /\ use = "new" => journal.mkdirs \subseteq dirs
        /\ disk' = [disk EXCEPT ![f] = Want[f]]
        /\ dirs' = IF Want[f] = Absent THEN dirs ELSE dirs \cup Above[f]
    BY <1>2 DEF InstallFile
  <2>2. Placed'
    BY <1>1, <2>1, NamesAssumption DEF Placed
  <2>3. Retained /\ journal.phase # "reserved"
    BY <2>1, Installer DEF Inv, OthersUntouched
  <2>4. journal.phase # "committed"
    <3>1. ASSUME journal.phase = "committed" PROVE FALSE
      <4>1. disk[f] = journal.new[f] /\ Winner = "new"
        BY <2>1, <3>1 DEF Evidence, CopiesThere, Winner
      <4> QED
        BY <2>1, <4>1, Installer DEF Want, Inv, TypeOK, Sides
    <3> QED
      BY <3>1
  <2>5. \A e \in dirs' \ dirs : e \in journal.mkdirs
                                  \/ \A d \in journal.mkdirs : d \notin Above[e]
    <3>1. CASE use = "old"
      <4>1. \A e \in dirs' \ dirs : e \in Above[f] /\ journal.old[f] # Absent
        BY <2>1, <3>1 DEF Want
      <4> QED
        BY <2>3, <4>1, NamesAssumption DEF Evidence, Created
    <3>2. CASE use = "new"
      BY <2>1, <2>3, <3>2, Installer DEF Want, Evidence, Homes, Retained
    <3> QED
      BY <3>1, <3>2 DEF Inv, TypeOK, Sides
  <2> QED
    BY <2>1, <2>2, <2>3, <2>4, <2>5, TargetEvidence
<1>3. ASSUME NEW f \in Files, NEW c \in Content, ExternalEdit(f, c) PROVE Evidence'
  <2>1. /\ UNCHANGED <<index, dirs, report, temp, journal, retained, who, pc, use>>
        /\ Retained
        /\ c # Absent => Above[f] \subseteq dirs
        /\ disk' = [disk EXCEPT ![f] = c] /\ who = "none"
    BY <1>3 DEF ExternalEdit
  <2>2. Placed' /\ pc # "install"
    BY <1>1, <2>1 DEF Placed, Inv, Control
  <2> QED
    BY <2>1, <2>2, TargetEvidence
<1> QED
  BY <1>2, <1>3

LEMMA EvidenceStep == Inv /\ Inv' /\ Evidence /\ [Next]_vars => Evidence'
<1> SUFFICES ASSUME Inv, Inv', Evidence, [Next]_vars PROVE Evidence'
  OBVIOUS
<1>1. CASE Begin
  BY <1>1, BeginEvidence DEF Inv
<1>2. CASE Work
  BY <1>2, OwnerStepEvidence, PhaseEvidence, IndexEvidence, DirectoryEvidence,
     FileEvidence DEF Work
<1>3. CASE Finish
  BY <1>3, OwnerStepEvidence, PhaseEvidence, ReportEvidence, DirectoryEvidence
     DEF Finish
<1>4. CASE Recover \/ UNCHANGED vars
  BY <1>4, OwnerStepEvidence
<1>5. CASE FaultStep
  BY <1>5, OwnerStepEvidence, ReportEvidence, FileEvidence DEF FaultStep
<1> QED
  BY <1>1, <1>2, <1>3, <1>4, <1>5 DEF Next

\* What an owner that gives up has seen.
LEMMA EvidenceShown == Inv /\ Evidence => RefusesOnlyOnEvidence
<1> SUFFICES ASSUME Inv, Evidence PROVE RefusesOnlyOnEvidence
  OBVIOUS
<1>1. ASSUME SettleRefused
      PROVE  \/ \E f \in journal.files : disk[f] \notin {journal.old[f], journal.new[f]}
             \/ journal.phase = "committed" /\ \E f \in journal.files : disk[f] # journal.new[f]
             \/ journal.phase = "prepared" /\ ~ (Required \subseteq retained)
  <2>1. Retained
    BY <1>1 DEF SettleRefused, Inv, TypeOK, Control, Retained
  <2>2. /\ journal.policy = "fixed" \/ journal.phase = "reserved" => index = journal.commit
        /\ journal.policy = "index" => index \in {journal.base, journal.commit}
        /\ journal.phase = "committed" => index = journal.commit
    BY <2>1 DEF Inv, IndexProof, TypeOK, JournalType
  <2>3. journal.phase = "committed" => journal.mkdirs \subseteq dirs
    BY DEF Evidence, Stand
  <2> QED
    BY <1>1, <2>2, <2>3
       DEF SettleRefused, Settleable, JournalLoads, TargetsMatch, CommittedTargetsMatch
<1>2. ASSUME InstallBlocked
      PROVE  journal.phase = "staging" /\ \E f \in journal.files : disk[f] # journal.old[f]
  <2>1. PICK f \in journal.files :
               disk[f] # Want[f] /\ Want[f] # Absent /\ <<use, f>> \notin retained
    BY <1>2 DEF InstallBlocked
  <2>2. pc = "install" /\ use \in Sides
    BY <1>2 DEF InstallBlocked, Inv, TypeOK
  <2>3. <<use, f>> \in Required
    BY <2>1, <2>2 DEF Required, Want, Sides
  <2>4. journal.phase # "prepared"
    BY <2>1, <2>2, <2>3 DEF Evidence, CopiesThere
  <2>5. who = "doctor" /\ use = Winner /\ Retained
    BY <2>2, <2>4, Installer DEF Inv, TypeOK, Control, Decided
  <2>6. journal.phase # "committed"
    BY <2>1, <2>2, <2>5 DEF Evidence, CopiesThere, Want, Winner
  <2>7. journal.phase # "reserved"
    BY <2>1, <2>5 DEF Inv, OthersUntouched
  <2>8. journal.phase = "staging"
    BY <2>4, <2>5, <2>6, <2>7 DEF Inv, TypeOK, JournalType, Retained
  <2>9. Winner = "old"
    BY <2>5, <2>8 DEF Winner, Inv, TypeOK, JournalType, IndexProof
  <2> QED
    BY <2>1, <2>5, <2>8, <2>9 DEF Want
<1>3. ASSUME RollbackBlocked
      PROVE  \E d \in journal.mkdirs, a \in journal.attempts :
                d \in Above[a] /\ (report[a] # "none" \/ temp[a] # "none")
  <2>1. PICK d \in journal.mkdirs : NextRemoval(d) /\ ~Empty(d)
    BY <1>3 DEF RollbackBlocked
  <2>2. Retained /\ use = "old" /\ FilesInstalled
    BY <2>1, Installer DEF NextRemoval
  <2>3. \A f \in Files : disk[f] = journal.old[f]
    BY <2>2 DEF FilesInstalled, Want, Inv, OthersUntouched
  <2>4. \A f \in Files : disk[f] # Absent => d \notin Above[f]
    BY <2>2, <2>3 DEF Evidence, Created
  <2>5. \A e \in dirs : d \notin Above[e]
    BY <2>1, <2>2 DEF Evidence, Created, NextRemoval
  <2>6. PICK a \in Attempts : (report[a] # "none" \/ temp[a] # "none") /\ d \in Above[a]
    BY <2>1, <2>4, <2>5 DEF Empty
  <2>7. a \in journal.attempts
    BY <2>2, <2>6 DEF Evidence, Created, Staged
  <2> QED
    BY <2>6, <2>7
<1>4. ASSUME FinalizeBlocked PROVE \E a \in journal.attempts : temp[a] = "torn"
  <2>1. PICK a \in journal.attempts :
               report[a] \notin {"none", Ending(a)} \/ temp[a] \notin {"none", Ending(a)}
    BY <1>4 DEF FinalizeBlocked
  <2>2. use = Winner /\ Retained /\ a \in Attempts
    BY <1>4, Installer DEF FinalizeBlocked, PostInstall, Inv, TypeOK, JournalType
  <2>3. report[a] \in {"none", Ending(a)}
    BY <2>2 DEF Inv, Reported, ReportsTellTheTruth, Ending
  <2>4. temp[a] \in {"none", "torn", Ending(a)}
    BY <2>2 DEF Evidence, Staged, Ending
  <2> QED
    BY <2>1, <2>3, <2>4
<1> QED
  BY <1>1, <1>2, <1>3, <1>4 DEF RefusesOnlyOnEvidence

\* Doctor and a command give up only where a target was edited by hand, where
\* an earlier doctor had begun cleanup, where a report already lies in a
\* directory to remove, or where a kill tore a staging document.
THEOREM RefusalsExplained == Spec => []RefusesOnlyOnEvidence
<1>1. Inv /\ Inv' /\ Evidence /\ [Next]_vars => Evidence'
  BY EvidenceStep
<1> QED
  BY <1>1, EvidenceInit, EvidenceShown, InvariantHolds, PTL DEF Spec

-------------------------------------------------------------------------------
(***************************************************************************)
(* Refinement: the journal protocol implements module Generation.          *)
(***************************************************************************)

LEMMA AbsInit == Init => Abs!Init
BY NoJournalType DEF Init, Abs!Init, AbsContent, AbsReports, AbsOpen, AbsPlan,
   NoJournal, Retained, Docs, Abs!PlanType, Abs!Docs, Content, JournalType

LEMMA PlanTyped ==
    ASSUME TypeOK' PROVE AbsPlan' \in Abs!PlanType
BY DEF TypeOK, JournalType, AbsPlan, Abs!PlanType, Abs!Docs, Docs

\* The plan a retained journal holds is one the abstract command may have.
LEMMA PlanIsPlan ==
    ASSUME TypeOK', AttemptDocs', Retained' PROVE Abs!IsPlan(AbsPlan')
BY PlanTyped DEF Abs!IsPlan, AttemptDocs, AbsPlan

\* A step that changes neither files, index, journal nor reports is invisible.
LEMMA SameAbs ==
    ASSUME UNCHANGED <<disk, index, journal, report>> PROVE UNCHANGED Abs!vars
BY DEF Abs!vars, AbsContent, AbsReports, AbsOpen, AbsPlan, Winner, Retained

\* Reserving or staging a journal begins an abstract command or, after a
\* reservation, revises its plan.
LEMMA NewJournalAbs ==
    ASSUME Inv, Inv',
           \/ \E attempts \in SUBSET Attempts : Reserve(attempts)
           \/ \E p \in Plans : StageGeneration(p)
           \/ \E attempts \in SUBSET Attempts : StageFailedAttempts(attempts)
           \/ \E p \in Plans, failed \in SUBSET Attempts :
                 StageReservedGeneration(p, failed)
           \/ \E p \in Plans : StageReservedFailures(p)
    PROVE  Abs!Begin \/ Abs!Revise
<1> USE DEF fileVars, reportVars, ownerVars
<1>1. /\ UNCHANGED <<disk, index, report>>
      /\ journal'.phase \in {"reserved", "staging"} /\ journal'.old = disk
      /\ \A a \in journal'.attempts : report[a] = "none"
  <2>1. ASSUME NEW attempts, Reserve(attempts)
        PROVE  /\ UNCHANGED <<disk, index, report>>
               /\ journal'.phase = "reserved" /\ journal'.old = disk
               /\ \A a \in journal'.attempts : report[a] = "none"
    BY <2>1 DEF Reserve, NoJournal
  <2>2. ASSUME NEW p, StageGeneration(p)
        PROVE  /\ UNCHANGED <<disk, index, report>>
               /\ journal'.phase = "staging" /\ journal'.old = disk
               /\ journal'.attempts = {}
    BY <2>2 DEF StageGeneration, Staging
  <2>3. ASSUME NEW attempts, StageFailedAttempts(attempts)
        PROVE  /\ UNCHANGED <<disk, index, report>>
               /\ journal'.phase = "staging" /\ journal'.old = disk
               /\ \A a \in journal'.attempts : report[a] = "none"
    BY <2>3 DEF StageFailedAttempts, Staging
  <2>4. ASSUME NEW p, NEW failed, StageReservedGeneration(p, failed)
        PROVE  /\ UNCHANGED <<disk, index, report>>
               /\ journal'.phase = "staging" /\ journal'.old = disk
               /\ \A a \in journal'.attempts : report[a] = "none"
    BY <2>4 DEF StageReservedGeneration, Staging
  <2>5. ASSUME NEW p, StageReservedFailures(p)
        PROVE  /\ UNCHANGED <<disk, index, report>>
               /\ journal'.phase = "staging" /\ journal'.old = disk
               /\ \A a \in journal'.attempts : report[a] = "none"
    BY <2>5 DEF StageReservedFailures, Staging
  <2> QED
    BY <2>1, <2>2, <2>3, <2>4, <2>5
<1>2. Winner' = "old" /\ Retained'
  <2>1. journal'.policy = "index" /\ journal'.phase = "staging" => index' # journal'.commit
    BY <1>1 DEF Inv, TypeOK, JournalType, IndexProof, Retained
  <2> QED
    BY <1>1, <2>1 DEF Inv, TypeOK, JournalType, Winner, Retained
<1>3. AbsContent' = disk /\ AbsOpen' = "open"
  BY <1>1, <1>2 DEF AbsContent, AbsOpen
<1>4. Abs!IsPlan(AbsPlan')
  BY <1>2, PlanIsPlan DEF Inv
<1>5. CASE ~Retained
  <2>1. AbsContent = disk /\ AbsOpen = "none" /\ AbsReports = [a \in Attempts |-> report[a]]
    BY <1>5 DEF AbsContent, AbsOpen, AbsReports
  <2>2. AbsReports' = AbsReports
    BY <1>1, <1>2, <2>1 DEF AbsReports
  <2>3. \A a \in AbsPlan'.attempts : AbsReports[a] = "none"
    BY <1>1, <2>1 DEF AbsPlan, Inv, TypeOK, JournalType
  <2> QED
    BY <1>1, <1>3, <1>4, <2>1, <2>2, <2>3 DEF Abs!Begin
<1>6. CASE Retained
  <2>1. pc = "reserved" /\ who = "command" /\ journal'.attempts = journal.attempts
    <3>1. ASSUME NEW p, NEW failed, StageReservedGeneration(p, failed)
          PROVE  pc = "reserved" /\ who = "command" /\ journal'.attempts = journal.attempts
      BY <3>1 DEF StageReservedGeneration, Staging
    <3>2. ASSUME NEW p, StageReservedFailures(p)
          PROVE  pc = "reserved" /\ who = "command" /\ journal'.attempts = journal.attempts
      BY <3>2 DEF StageReservedFailures, Staging
    <3> QED
      BY <1>6, <3>1, <3>2 DEF Reserve, StageGeneration, StageFailedAttempts
  <2>2. journal.phase = "reserved"
    BY <2>1 DEF Inv, Control
  <2>3. journal.old = disk
    BY <1>6, <2>2 DEF Inv, TypeOK, JournalType, OthersUntouched
  <2>4. AbsContent = disk /\ AbsOpen = "open" /\ AbsPlan.attempts = AbsPlan'.attempts
    BY <1>6, <2>1, <2>2, <2>3 DEF AbsContent, AbsOpen, AbsPlan, Winner
  <2>5. AbsReports' = AbsReports
    BY <1>1, <1>2, <1>6, <2>1 DEF AbsReports
  <2> QED
    BY <1>1, <1>3, <1>4, <2>4, <2>5 DEF Abs!Revise
<1> QED
  BY <1>5, <1>6

\* Recording that copies are prepared commits a failure-only publication; it is
\* invisible for one that writes the index.
LEMMA PrepareAbs ==
    ASSUME Inv, Inv', Prepare PROVE Abs!Commit \/ UNCHANGED Abs!vars
<1> USE DEF fileVars, reportVars, ownerVars
<1>1. /\ UNCHANGED <<disk, index, report>> /\ journal.phase = "staging"
      /\ journal' = [journal EXCEPT !.phase = "prepared"]
  BY DEF Prepare, Inv, Control
<1>2. /\ journal'.phase = "prepared"
      /\ journal'.policy = journal.policy /\ journal'.commit = journal.commit
      /\ journal'.old = journal.old /\ journal'.new = journal.new
      /\ journal'.attempts = journal.attempts
      /\ journal'.win = journal.win /\ journal'.lose = journal.lose
  BY <1>1 DEF Inv, TypeOK, JournalType
<1>3. AbsPlan' = AbsPlan /\ AbsReports' = AbsReports /\ Retained /\ Retained'
  BY <1>1, <1>2 DEF AbsPlan, AbsReports, Retained
<1>4. CASE journal.policy = "index"
  <2>1. Winner' = Winner
    BY <1>1, <1>2, <1>4 DEF Winner
  <2> QED
    BY <1>1, <1>2, <1>3, <2>1 DEF Abs!vars, AbsContent, AbsOpen
<1>5. CASE journal.policy = "fixed"
  <2>1. Winner = "old" /\ Winner' = "new"
    BY <1>1, <1>2, <1>5 DEF Winner
  <2>2. AbsOpen = "open" /\ AbsOpen' = "won" /\ AbsContent' = AbsPlan.new
    BY <1>2, <1>3, <2>1 DEF AbsOpen, AbsContent, AbsPlan
  <2>3. \A a \in AbsPlan.attempts : AbsPlan.win[a] # "success"
    BY <1>3, <1>5 DEF Inv, AttemptDocs, AbsPlan
  <2>4. index' = index /\ index \in Nat
    BY <1>1 DEF Inv, TypeOK
  <2> QED
    BY <1>3, <2>2, <2>3, <2>4 DEF Abs!Commit
<1> QED
  BY <1>4, <1>5 DEF Inv, TypeOK, JournalType

\* Replacing the index is the commit.
LEMMA InstallIndexAbs ==
    ASSUME Inv, Inv', InstallIndex PROVE Abs!Commit
<1> USE DEF fileVars, reportVars, ownerVars
<1>1. /\ UNCHANGED <<disk, journal, report>> /\ pc = "install" /\ index # WantIndex
      /\ index' = WantIndex
  BY DEF InstallIndex
<1>2. who = "command"
  <2>1. who # "none"
    BY <1>1 DEF Inv, Control
  <2>2. ASSUME who = "doctor" PROVE FALSE
    <3>1. use = Winner /\ Retained
      BY <1>1, <2>2 DEF Inv, Control, Decided, Retained
    <3> QED
      BY <1>1, <3>1 DEF Inv, IndexProof, Winner, WantIndex, TypeOK, JournalType
  <2> QED
    BY <2>1, <2>2 DEF Inv, TypeOK
<1>3. /\ journal.phase = "prepared" /\ use = "new" /\ Retained /\ Retained'
  BY <1>1, <1>2 DEF Inv, Control, Retained
<1>4. journal.policy = "index" /\ index' = journal.commit
  BY <1>1, <1>3 DEF Inv, TypeOK, JournalType, WantIndex
<1>5. index < index' /\ index' \in Nat /\ index \in Nat
  BY <1>1, <1>3, <1>4 DEF Inv, IndexProof, TypeOK, JournalType
<1>6. Winner = "old" /\ Winner' = "new"
  BY <1>1, <1>3, <1>4, <1>5 DEF Winner, Inv, TypeOK, JournalType
<1>7. AbsPlan' = AbsPlan /\ AbsReports' = AbsReports
  BY <1>1, <1>3 DEF AbsPlan, AbsReports
<1>8. AbsOpen = "open" /\ AbsOpen' = "won" /\ AbsContent' = AbsPlan.new
  BY <1>1, <1>3, <1>6 DEF AbsOpen, AbsContent, AbsPlan
<1> QED
  BY <1>5, <1>7, <1>8 DEF Abs!Commit

\* Dropping the journal closes the command: what readers relied on is on disk
\* and the reports appear.
LEMMA DropJournalAbs ==
    ASSUME Inv, Inv', DropJournal PROVE Abs!Close
<1> USE DEF fileVars, reportVars, ownerVars
<1>1. /\ UNCHANGED <<disk, index, report>> /\ pc = "unlink" /\ ~Retained'
  BY DEF DropJournal, NoJournal, Retained
<1>2. Retained /\ use = Winner
  BY <1>1 DEF Inv, Control, Decided, PostInstall, Retained, TypeOK
<1>3. AbsContent = disk /\ AbsContent' = disk
  <2>1. \A f \in Files : disk[f] = Want[f]
    <3>1. \A f \in journal.files : disk[f] = Want[f]
      BY <1>1 DEF Inv, Decided, PostInstall, FilesInstalled
    <3>2. \A f \in Files \ journal.files : disk[f] = Want[f]
      BY <1>2 DEF Inv, OthersUntouched, Want
    <3> QED
      BY <3>1, <3>2
  <2>2. disk \in [Files -> Content] /\ Want \in [Files -> Content]
    BY DEF Inv, TypeOK, JournalType, Want
  <2>3. disk = Want
    BY <2>1, <2>2
  <2> QED
    BY <1>1, <1>2, <2>3 DEF AbsContent, Want
<1>4. AbsReports' = [a \in Attempts |->
                       IF a \notin AbsPlan.attempts THEN AbsReports[a]
                       ELSE IF AbsOpen = "won" THEN AbsPlan.win[a] ELSE AbsPlan.lose[a]]
  <2>1. \A a \in journal.attempts : report[a] = Ending(a)
    BY <1>1 DEF Inv, Reported
  <2>2. AbsOpen = (IF use = "new" THEN "won" ELSE "open")
    BY <1>2 DEF AbsOpen
  <2>3. AbsReports' = [a \in Attempts |-> report[a]]
    BY <1>1 DEF AbsReports
  <2>4. ASSUME NEW a \in Attempts
        PROVE  report[a] = IF a \notin AbsPlan.attempts THEN AbsReports[a]
                           ELSE IF AbsOpen = "won" THEN AbsPlan.win[a]
                           ELSE AbsPlan.lose[a]
    BY <1>2, <2>1, <2>2 DEF AbsReports, AbsPlan, Ending
  <2> QED
    BY <2>3, <2>4
<1>5. AbsOpen # "none" /\ AbsOpen' = "none"
  BY <1>1, <1>2 DEF AbsOpen
<1>6. AbsPlan' \in Abs!PlanType
  BY PlanTyped DEF Inv
<1> QED
  BY <1>1, <1>3, <1>4, <1>5, <1>6 DEF Abs!Close

\* A step of one target, one report or one phase mark is invisible.
LEMMA PartialAbs ==
    ASSUME Inv, Inv',
           \/ \E f \in Files : InstallFile(f)
           \/ \E f \in Files, c \in Content : ExternalEdit(f, c)
           \/ \E a \in Attempts : LinkReport(a)
           \/ MarkCommitted
    PROVE  UNCHANGED Abs!vars
<1> USE DEF fileVars, reportVars, ownerVars
<1>1. ASSUME UNCHANGED <<index, journal, report>>, Retained PROVE UNCHANGED Abs!vars
  BY <1>1 DEF Abs!vars, AbsContent, AbsReports, AbsOpen, AbsPlan, Winner, Retained
<1>2. ASSUME NEW f \in Files, InstallFile(f) PROVE UNCHANGED Abs!vars
  <2>1. UNCHANGED <<index, journal, report>> /\ pc = "install"
    BY <1>2 DEF InstallFile
  <2>2. Retained
    BY <2>1 DEF Inv, TypeOK, Control, Retained
  <2> QED
    BY <1>1, <2>1, <2>2
<1>3. ASSUME NEW f \in Files, NEW c \in Content, ExternalEdit(f, c)
      PROVE  UNCHANGED Abs!vars
  BY <1>1, <1>3 DEF ExternalEdit
<1>4. ASSUME NEW a \in Attempts, LinkReport(a) PROVE UNCHANGED Abs!vars
  <2>1. /\ UNCHANGED <<disk, index, journal>> /\ pc = "finalize"
        /\ a \in journal.attempts /\ report' = [report EXCEPT ![a] = temp[a]]
    BY <1>4 DEF LinkReport
  <2>2. Retained /\ Retained' /\ Winner' = Winner
    BY <2>1 DEF Inv, TypeOK, Control, Retained, Winner
  <2>3. AbsReports' = AbsReports
    BY <2>1, <2>2 DEF AbsReports, Inv, TypeOK
  <2> QED
    BY <2>1, <2>2, <2>3 DEF Abs!vars, AbsContent, AbsOpen, AbsPlan
<1>5. CASE MarkCommitted
  <2>1. /\ UNCHANGED <<disk, index, report>> /\ pc = "mark"
        /\ journal' = [journal EXCEPT !.phase = "committed"]
    BY <1>5 DEF MarkCommitted
  <2>2. /\ journal'.phase = "committed"
        /\ journal'.old = journal.old /\ journal'.new = journal.new
        /\ journal'.attempts = journal.attempts
        /\ journal'.win = journal.win /\ journal'.lose = journal.lose
    BY <2>1 DEF Inv, TypeOK, JournalType
  <2>3. Winner = "new" /\ Winner' = "new" /\ Retained /\ Retained'
    <3>1. use = "new" /\ use = Winner /\ Retained
      BY <2>1 DEF Inv, TypeOK, Control, Decided, PostInstall, Retained
    <3> QED
      BY <2>2, <3>1 DEF Winner, Retained
  <2> QED
    BY <2>1, <2>2, <2>3 DEF Abs!vars, AbsContent, AbsReports, AbsOpen, AbsPlan
<1> QED
  BY <1>2, <1>3, <1>4, <1>5

\* Every step of the protocol is a step of Generation or invisible there.
LEMMA AbsStep == Inv /\ Inv' /\ [Next]_vars => [Abs!Next]_(Abs!vars)
<1> SUFFICES ASSUME Inv, Inv', [Next]_vars PROVE Abs!Next \/ UNCHANGED Abs!vars
  OBVIOUS
<1>1. CASE \/ Quiet \/ Gone \/ GoesOn("cleanup", "prune") \/ GoesOn("prune", "unlink")
           \/ AcquireLock \/ Installed \/ Finalized \/ SettleStart \/ Settle
  <2>1. UNCHANGED <<disk, index, journal, report>>
    BY <1>1 DEF Quiet, Gone, GoesOn, AcquireLock, Installed, Finalized, SettleStart,
                Settle, fileVars, reportVars, ownerVars
  <2> QED
    BY <2>1, SameAbs
<1> QED
  BY <1>1, StepCases, NewJournalAbs, PrepareAbs, InstallIndexAbs, DropJournalAbs,
     PartialAbs DEF Abs!Next

\* The journal protocol, with kills, errors, torn reports and edits by hand, is
\* the atomic specification: no reader ever relies on half a generation and no
\* report contradicts it.
THEOREM Refinement == Spec => ImplementsGeneration
<1>1. Inv /\ Inv' /\ [Next]_vars => [Abs!Next]_(Abs!vars)
  BY AbsStep
<1> QED
  BY <1>1, AbsInit, InvariantHolds, PTL DEF Spec, ImplementsGeneration, Abs!Spec
===============================================================================
