----------------------------- MODULE DoctorProofs -----------------------------
(***************************************************************************)
(* Proofs about Doctor, for any records, periods, edits and damage, and    *)
(* any number of commands, stops, runs and findings in a report.           *)
(*                                                                         *)
(* A verdict is about files that were read in three instants.  The         *)
(* inductive invariant says what a run knows at each of them if nothing    *)
(* else moved (Knows), what the plan it is about to publish rests on       *)
(* (Planned), and what every index and journal holds however it came about *)
(* (Indexes, Journals): only with these is an empty report a sound one.    *)
(***************************************************************************)
EXTENDS Doctor, FiniteSetTheorems, TLAPS

Marks == {Missing, Damaged, Newer}
Acceptable(value) == value \in Marks \/ Consistent(value)

\* The values that name what there is.
Shapes ==
    /\ ws = [file |-> ws.file, loose |-> ws.loose, links |-> ws.links]
    /\ ws.file = [i \in Items |-> ws.file[i]]
    /\ command # None => command = [step |-> command.step, record |-> command.record]
    /\ doctor = [pc |-> doctor.pc, audit |-> doctor.audit, found |-> doctor.found,
                 index |-> doctor.index, config |-> doctor.config,
                 report |-> doctor.report, plan |-> doctor.plan]
    /\ lock \in {"absent", "command", "doctor", "stale", "unknown"}
    /\ doctor.pc \in {"idle", "head", "durable", "derived", "plan", "settle",
                      "unlock", "acquire", "publish"}
    /\ doctor.pc \in {"head", "durable", "derived"} =>
         doctor.audit \in {"before", "after", "recovered", "locked"}
    /\ doctor.pc = "plan" => doctor.audit \in {"before", "recovered", "locked"}

\* A command has the lock while it runs, and so has doctor while it audits and
\* publishes under it.
Locks ==
    /\ command # None => lock = "command"
    /\ doctor.pc = "publish" => lock = "doctor"
    /\ doctor.audit = "locked" /\ doctor.pc \in {"head", "durable", "derived", "plan"}
         => lock = "doctor"

\* A summary lies in a record's directory.
Summarized(file) ==
    \A r \in Records : file[Record(r)] = Missing => file[Summary(r)] = Missing

Indexes ==
    /\ Acceptable(ws.file[Index])
    /\ Summarized(ws.file)

\* The two sides of a journal are generations, and no side removes a record
\* that the other one found.
Journals ==
    journal # None =>
      LET D == DOMAIN journal.new
      IN  /\ D \subseteq Items /\ DOMAIN journal.old = D
          /\ Index \in D => Acceptable(journal.old[Index]) /\ Acceptable(journal.new[Index])
          /\ \A r \in Records :
               /\ Record(r) \in D => journal.new[Record(r)] # Missing
               /\ Record(r) \in D /\ journal.old[Record(r)] = Missing =>
                    Summary(r) \in D /\ journal.old[Summary(r)] = Missing
               /\ Summary(r) \in D /\ Record(r) \notin D => There(ws, Record(r))

\* What a running command still has to write.
Commands ==
    command # None =>
      /\ command.record \in Records \cup {None}
      /\ command.step = "held" /\ command.record \in Records =>
           ws.file[Record(command.record)] \in {Missing, 0, 1}
      /\ command.step = "installed" =>
           Index \in DOMAIN journal.new /\ Acceptable(journal.new[Index])

-------------------------------------------------------------------------------
(***************************************************************************)
(* What a run of doctor knows.                                             *)
(***************************************************************************)

\* The audit of a workspace that stands still, with or without the lock.
Seen(w, l, j, locked) ==
    LET head == Head(w, l, j, locked)
    IN  IF head.ends THEN head.found
        ELSE DerivedFindings(w, head.found \cup DurableFindings(w),
                             IndexOf(w), ConfigOf(w))

\* Findings that a repair answers name files of their kind.
Addressed(findings) ==
    \A f \in findings :
       /\ f.code = "summary_invalid" => \E r \in Records : f.path = Summary(r)
       /\ f.code = "generated_view_invalid" => f.path = ViewOf(f.path[2])

Reported ==
    /\ doctor.pc \in {"durable", "derived"} => Addressed(doctor.found)
    /\ doctor.pc = "plan" => Addressed(doctor.report)

\* As long as nothing else moves, what was read is what there is.
Knows ==
    LET locked == doctor.audit = "locked"
        head == Head(ws, lock, journal, locked)
    IN  quiet =>
          /\ doctor.pc = "durable" => ~ head.ends /\ doctor.found = head.found
          /\ doctor.pc = "derived" =>
               /\ ~ head.ends
               /\ doctor.found = head.found \cup DurableFindings(ws)
               /\ doctor.index = IndexOf(ws) /\ doctor.config = ConfigOf(ws)
          /\ doctor.pc = "plan" =>
               doctor.report \in Reports(Seen(ws, lock, journal, locked))
          /\ doctor.pc = "publish" =>
               \E report \in Reports(Seen(ws, lock, journal, TRUE)) : ~ Blocked(report)

\* A verdict stands until somebody moves.
Verdict ==
    result # None =>
      /\ doctor.pc = "idle"
      /\ result.quiet /\ ~ result.raised =>
           result.report \in Reports(Findings(ws, lock, journal))

\* What an action may write, by what is read with it.
Proved(w, a) ==
    /\ a = Action(a.kind, a.path, a.content)
    /\ a.kind = "set_private_mode" =>
         \A r \in Records : a.path \in {Record(r), Summary(r)} => a.content = w.file[a.path]
    /\ a.kind = "rebuild_summary" =>
         \E r \in Records : a.path = Summary(r) /\ a.content = w.file[Record(r)]
    /\ a.kind = "rebuild_generated_view" =>
         \E p \in Registered(w.file[Index]) :
            a.path = ViewOf(p) /\ a.content = w.file[Index].views[p]
    /\ a.kind = "create_private_directory" => a.path \in Directories
    /\ a.kind \in {"set_private_mode", "rebuild_summary", "rebuild_generated_view",
                   "create_private_directory", "remove_stale_lock"}

\* Under the lock what a plan was made from stays.
Planned == doctor.pc = "publish" => \A a \in doctor.plan : Proved(ws, a)

Inv ==
    /\ Shapes /\ Locks /\ Indexes /\ Journals /\ Commands
    /\ Reported /\ Knows /\ Verdict /\ Planned

-------------------------------------------------------------------------------
(***************************************************************************)
(* Items are told apart by their names.                                    *)
(***************************************************************************)
LEMMA Names ==
    /\ Config[1] = "config" /\ Rules[1] = "rules" /\ Corrections[1] = "corrections"
    /\ Index[1] = "index" /\ Root[1] = "root" /\ Internal[1] = "internal"
    /\ Container[1] = "container" /\ Views[1] = "views" /\ Leftover[1] = "leftover"
    /\ Stray[1] = "stray"
    /\ \A r : Record(r)[1] = "record" /\ Record(r)[2] = r
    /\ \A r : Summary(r)[1] = "summary" /\ Summary(r)[2] = r
    /\ \A p : ViewOf(p)[1] = "view" /\ ViewOf(p)[2] = p
BY DEF Config, Rules, Corrections, Index, Root, Internal, Container, Views, Leftover,
       Stray, Record, Summary, ViewOf

LEMMA ItemsAre ==
    /\ {Config, Rules, Corrections, Root, Internal, Container, Views, Index,
        Leftover, Stray} \subseteq Items
    /\ \A r \in Records : Record(r) \in Items /\ Summary(r) \in Items
    /\ \A p \in Periods : ViewOf(p) \in Items
    /\ \A i \in Items :
         \/ i \in {Config, Rules, Corrections, Root, Internal, Container, Views, Index,
                   Leftover, Stray}
         \/ \E r \in Records : i \in {Record(r), Summary(r)}
         \/ \E p \in Periods : i = ViewOf(p)
BY DEF Items, Inputs, Directories

-------------------------------------------------------------------------------
(***************************************************************************)
(* An empty report of a workspace that stood still is a sound one.         *)
(***************************************************************************)

\* An audit that finds nothing met no lock, no journal and no link on its way.
LEMMA NothingAtHead ==
    ASSUME Shapes, Findings(ws, lock, journal) = {}
    PROVE  /\ lock = "absent" /\ journal = None
           /\ {Root, Internal} \cap ws.links = {}
           /\ DerivedFindings(ws, DurableFindings(ws), IndexOf(ws), ConfigOf(ws)) = {}
<1> DEFINE head == Head(ws, lock, journal, FALSE)
<1>1. Findings(ws, lock, journal) =
        IF head.ends THEN head.found
        ELSE DerivedFindings(ws, head.found \cup DurableFindings(ws), IndexOf(ws), ConfigOf(ws))
  BY Zenon DEF Findings
<1>2. {Root, Internal} \cap ws.links = {}
  <2> SUFFICES ASSUME {Root, Internal} \cap ws.links # {} PROVE FALSE
    OBVIOUS
  <2>1. head.ends /\ head.found # {}
    BY DEF Head, Linked
  <2> QED BY <1>1, <2>1
<1>3. lock \notin {"command", "doctor", "unknown"}
  <2> SUFFICES ASSUME lock \in {"command", "doctor", "unknown"} PROVE FALSE
    OBVIOUS
  <2>1. head.ends /\ head.found # {}
    BY <1>2 DEF Head
  <2> QED BY <1>1, <2>1
<1>4. journal = None
  <2> SUFFICES ASSUME journal # None PROVE FALSE
    OBVIOUS
  <2>1. head.ends /\ head.found # {}
    BY <1>2, <1>3 DEF Head
  <2> QED BY <1>1, <2>1
<1>5. ~ head.ends /\ head.found = IF lock = "stale" THEN {Found("stale_lock", Lock)} ELSE {}
  BY <1>2, <1>3, <1>4 DEF Head
<1>6. \A f : f \in head.found => f \in DerivedFindings(ws, head.found \cup DurableFindings(ws),
                                            IndexOf(ws), ConfigOf(ws))
  BY DEF DerivedFindings
<1>7. head.found = {}
  BY <1>1, <1>5, <1>6
<1>8. lock = "absent"
  BY <1>3, <1>5, <1>7 DEF Shapes
<1>9. head.found \cup DurableFindings(ws) = DurableFindings(ws)
  BY <1>7
<1> HIDE DEF head
<1> QED BY <1>1, <1>2, <1>4, <1>5, <1>8, <1>9

\* Nor did it see a readable file's mode, link or bytes that it would tell.
LEMMA NothingDurable ==
    ASSUME DerivedFindings(ws, DurableFindings(ws), IndexOf(ws), ConfigOf(ws)) = {}
    PROVE  /\ DurableFindings(ws) = {}
           /\ IndexOf(ws) # None /\ IndexOf(ws) = ws.file[Index]
           /\ ConfigOf(ws) # None
           /\ ProofFindings(ws, IndexOf(ws), ConfigOf(ws)) = {}
           /\ RegisteredViewFindings(ws, IndexOf(ws), {}) = {}
<1>1. \A f : f \in DurableFindings(ws) =>
        f \in DerivedFindings(ws, DurableFindings(ws), IndexOf(ws), ConfigOf(ws))
  BY DEF DerivedFindings
<1>2. DurableFindings(ws) = {}
  BY <1>1
<1>3. IndexFindings(ws) = {} /\ ConfigFindings(ws) = {}
  BY <1>2 DEF DurableFindings
<1>4. IndexOf(ws) # None
  BY <1>3 DEF IndexFindings, Linked, IndexOf
<1>5. ConfigOf(ws) # None
  BY <1>3 DEF ConfigFindings, Linked, ConfigOf
<1> DEFINE f == {} \cup ProofFindings(ws, IndexOf(ws), ConfigOf(ws))
                   \cup CorrectionFindings(ws, IndexOf(ws), ConfigOf(ws))
<1>6. f \cup RegisteredViewFindings(ws, IndexOf(ws), f) = {}
  BY <1>2, <1>4 DEF DerivedFindings
<1>7. f = {} /\ RegisteredViewFindings(ws, IndexOf(ws), f) = {}
  BY <1>6, Zenon
<1>8. ProofFindings(ws, IndexOf(ws), ConfigOf(ws)) = {}
  BY <1>7
<1>9. RegisteredViewFindings(ws, IndexOf(ws), {}) = {}
  BY <1>7
<1>10. IndexOf(ws) = ws.file[Index]
  BY <1>4 DEF IndexOf
<1> QED BY <1>2, <1>4, <1>5, <1>8, <1>9, <1>10

\* Files that were looked at are private, and no links.
LEMMA NothingExposed ==
    ASSUME DurableFindings(ws) = {}, ConfigOf(ws) # None, Indexes,
           {Root, Internal} \cap ws.links = {}
    PROVE  /\ \A i \in {Config, Rules, Corrections, Root, Internal, Container, Index} :
                There(ws, i) => i \notin ws.links \cup ws.loose
           /\ ~ There(ws, Leftover) /\ ~ There(ws, Stray)
           /\ \A r \in Records : There(ws, Record(r)) =>
                /\ Record(r) \notin ws.links \cup ws.loose /\ Summary(r) \notin ws.links
                /\ There(ws, Summary(r)) => Summary(r) \notin ws.loose
                /\ ws.file[Summary(r)] = ws.file[Record(r)]
                /\ ws.file[Record(r)] \notin {Damaged, Torn}
<1>1. /\ ConfigFindings(ws) = {} /\ InputFindings(ws) = {} /\ ContainerFindings(ws) = {}
      /\ IndexFindings(ws) = {} /\ RecordFindings(ws) = {} /\ EntryFindings(ws) = {}
  BY DEF DurableFindings
<1>2. \A S, i : Modes(ws, S) = {} /\ i \in S /\ There(ws, i) /\ i \notin ws.links
                  => i \notin ws.loose
  BY DEF Modes
<1>3. \A S, i : Linked(ws, S) = {} /\ i \in S => i \notin ws.links
  BY DEF Linked
<1>4. Linked(ws, {Config}) = {} /\ Modes(ws, {Config, Root, Internal}) = {}
  BY <1>1 DEF ConfigFindings
<1>5. /\ Modes(ws, {Rules, Corrections}) = {} /\ PathsSafe(ws, ConfigOf(ws))
  BY <1>1 DEF InputFindings
<1>6. Linked(ws, {Container}) = {} /\ Modes(ws, {Container}) = {}
  BY <1>1 DEF ContainerFindings
<1>7. Linked(ws, {Index}) = {} /\ Modes(ws, {Index}) = {}
  BY <1>1 DEF IndexFindings
<1>8. \A i \in {Config, Rules, Corrections, Root, Internal, Container, Index} :
        There(ws, i) => i \notin ws.links \cup ws.loose
  BY <1>2, <1>3, <1>4, <1>5, <1>6, <1>7 DEF PathsSafe
<1>9. ~ There(ws, Leftover) /\ ~ There(ws, Stray)
  BY <1>1 DEF EntryFindings, Linked
<1>10. Container \notin ws.links
  BY <1>3, <1>6
<1>11. ASSUME NEW r \in Records, There(ws, Record(r))
       PROVE  /\ Record(r) \notin ws.links \cup ws.loose /\ Summary(r) \notin ws.links
              /\ There(ws, Summary(r)) => Summary(r) \notin ws.loose
              /\ ws.file[Summary(r)] = ws.file[Record(r)]
              /\ ws.file[Record(r)] \notin {Damaged, Torn}
  <2>1. /\ Modes(ws, {Record(r)}) = {}
        /\ (IF {Record(r), Summary(r)} \cap ws.links # {}
            THEN Linked(ws, {Record(r), Summary(r)}) ELSE RecordFinding(ws, r)) = {}
    <3> DEFINE X == Modes(ws, {Record(r)})
                    \cup (IF {Record(r), Summary(r)} \cap ws.links # {}
                          THEN Linked(ws, {Record(r), Summary(r)})
                          ELSE RecordFinding(ws, r))
    <3>1. r \in {s \in Records : There(ws, Record(s)) /\ Container \notin ws.links}
      BY <1>10, <1>11
    <3>2. \A f : f \in X => f \in RecordFindings(ws)
      BY <3>1, Zenon DEF RecordFindings
    <3>3. X = {}
      BY <1>1, <3>2
    <3> QED BY <3>3, Zenon
  <2>2. {Record(r), Summary(r)} \cap ws.links = {}
    BY <2>1 DEF Linked
  <2>3. RecordFinding(ws, r) = {}
    BY <2>1, <2>2
  <2>4. /\ ws.file[Record(r)] \notin {Damaged, Torn, Newer}
        /\ Modes(ws, {Summary(r)}) = {} /\ ws.file[Summary(r)] = ws.file[Record(r)]
    BY <2>3 DEF RecordFinding
  <2>5. /\ Record(r) \notin ws.loose
        /\ There(ws, Summary(r)) => Summary(r) \notin ws.loose
    BY <1>2, <1>11, <2>1, <2>2, <2>4
  <2> QED BY <2>2, <2>4, <2>5
<1> QED BY <1>8, <1>9, <1>11

\* The index's revisions are those of the records, and its views the ones that
\* these give with the inputs as they are.
LEMMA NothingStale ==
    ASSUME DurableFindings(ws) = {}, IndexOf(ws) # None, IndexOf(ws) = ws.file[Index],
           Indexes, ConfigOf(ws) # None, {Root, Internal} \cap ws.links = {},
           ProofFindings(ws, IndexOf(ws), ConfigOf(ws)) = {},
           RegisteredViewFindings(ws, IndexOf(ws), {}) = {}
    PROVE  LET index == IndexOf(ws)
           IN  /\ Consistent(index) /\ RevisionsAgree(ws, index)
               /\ ViewFindings(ws, index) = {} /\ Views \notin ws.links
               /\ \A p \in Registered(index) : index.views[p] = Content(ws, p, index.model)
<1> DEFINE index == IndexOf(ws)
<1>1. Consistent(index)
  BY DEF Indexes, Acceptable, Marks, IndexOf
<1>2. AgreementFindings(ws) = {} /\ InputFindings(ws) = {}
  BY DEF DurableFindings
<1>3. ASSUME NEW r \in Records
      PROVE  index.rev[r] = IF Ready(ws, r) THEN ws.file[Record(r)] ELSE 0
  <2>1. There(ws, Record(r)) => /\ Summary(r) \notin ws.links
                                /\ ws.file[Record(r)] \notin {Damaged, Torn}
    BY NothingExposed
  <2> DEFINE ready == {s \in Records : Ready(ws, s) /\ Summary(s) \notin ws.links}
  <2>2. \A s \in ready \cup Indexed(index) :
          ~ (/\ s \in ready => index.rev[s] # ws.file[Record(s)]
             /\ ws.file[Record(s)] \notin {Damaged, Torn})
    <3>1. \A s \in ready \cup Indexed(index) :
            /\ s \in ready => index.rev[s] # ws.file[Record(s)]
            /\ ws.file[Record(s)] \notin {Damaged, Torn}
            => AgreementFindings(ws) # {}
      BY DEF AgreementFindings
    <3> QED BY <1>2, <3>1
  <2>3. CASE Ready(ws, r)
    <3>1. ws.file[Record(r)] # Missing
      BY <2>3, AuditAssumption DEF Ready
    <3>2. r \in ready
      BY <2>1, <2>3, <3>1 DEF There
    <3> QED BY <2>1, <2>2, <2>3, <3>1, <3>2 DEF There
  <2>4. CASE ~ Ready(ws, r)
    <3>1. r \notin ready
      BY <2>4
    <3>2. CASE ws.file[Record(r)] \in {Damaged, Torn}
      BY <2>1, <3>2, AuditAssumption DEF There
    <3>3. CASE ws.file[Record(r)] \notin {Damaged, Torn}
      <4>1. r \notin Indexed(index)
        BY <2>2, <3>1, <3>3
      <4> QED BY <2>4, <4>1 DEF Indexed
    <3> QED BY <3>2, <3>3
  <2> QED BY <2>3, <2>4
<1>4. RevisionsAgree(ws, index)
  BY <1>3 DEF RevisionsAgree
<1>5. Views \notin ws.links /\ ViewFindings(ws, index) = {}
  BY DEF RegisteredViewFindings, Linked, Codes
<1>6. ~ index.model => \A p \in Registered(index) : Content(ws, p, FALSE) = index.views[p]
  BY <1>5 DEF RegisteredViewFindings, Rederivable, Codes, DerivedAsRegistered
<1>7. PathsSafe(ws, ConfigOf(ws))
  BY <1>2 DEF InputFindings
<1>8. ASSUME NEW p \in Registered(index), index.model
      PROVE  index.views[p] = Content(ws, p, TRUE)
  <2>1. index.proofs # None /\ \A j \in Inputs : ws.file[j] = index.proofs[j]
    BY <1>7, <1>8 DEF ProofFindings
  <2>2. index.proofs = [i \in Inputs |-> ws.file[i]]
    BY <1>1, <2>1 DEF Consistent
  <2>3. \A r \in Records : r \in Indexed(index) <=> Ready(ws, r)
    BY <1>3 DEF Indexed, Ready
  <2>4. {<<r, index.rev[r]>> : r \in {s \in Indexed(index) : PeriodOf[s] = p}}
          = {<<r, ws.file[Record(r)]>> :
               r \in {s \in Records : Ready(ws, s) /\ PeriodOf[s] = p}}
    <3>1. {s \in Indexed(index) : PeriodOf[s] = p}
            = {s \in Records : Ready(ws, s) /\ PeriodOf[s] = p}
      BY <2>3 DEF Indexed
    <3>2. \A r \in {s \in Records : Ready(ws, s) /\ PeriodOf[s] = p} :
            index.rev[r] = ws.file[Record(r)]
      BY <1>3
    <3> QED BY <3>1, <3>2
  <2>5. index.views[p] =
          [rows |-> {<<r, index.rev[r]>> : r \in {s \in Indexed(index) : PeriodOf[s] = p}},
           inputs |-> index.proofs, answer |-> index.model]
    BY <1>1, <1>8 DEF Consistent, Registered
  <2>6. index.model = TRUE
    BY <1>1, <1>8 DEF Consistent
  <2> HIDE DEF index
  <2> QED BY <2>2, <2>4, <2>5, <2>6 DEF Content
<1>9. index.model \in BOOLEAN
  BY <1>1 DEF Consistent
<1>10. \A p \in Registered(index) : index.views[p] = Content(ws, p, index.model)
  <2>1. CASE index.model = TRUE
    BY <1>8, <2>1
  <2>2. CASE index.model = FALSE
    BY <1>6, <2>2
  <2> QED BY <1>9, <2>1, <2>2
<1> QED BY <1>1, <1>4, <1>5, <1>10

\* An audit that finds nothing means that all is in order.
LEMMA NothingWrong ==
    ASSUME Shapes, Indexes, Findings(ws, lock, journal) = {}
    PROVE  InOrder(ws)
<1> DEFINE index == IndexOf(ws)
<1>1. /\ lock = "absent" /\ journal = None
      /\ {Root, Internal} \cap ws.links = {}
      /\ DerivedFindings(ws, DurableFindings(ws), IndexOf(ws), ConfigOf(ws)) = {}
  BY NothingAtHead
<1>2. /\ DurableFindings(ws) = {} /\ index # None /\ index = ws.file[Index]
      /\ ConfigOf(ws) # None
      /\ ProofFindings(ws, index, ConfigOf(ws)) = {}
      /\ RegisteredViewFindings(ws, index, {}) = {}
  BY <1>1, NothingDurable
<1>3. /\ \A i \in {Config, Rules, Corrections, Root, Internal, Container, Index} :
           There(ws, i) => i \notin ws.links \cup ws.loose
      /\ ~ There(ws, Leftover) /\ ~ There(ws, Stray)
      /\ \A r \in Records : There(ws, Record(r)) =>
           /\ Record(r) \notin ws.links \cup ws.loose
           /\ There(ws, Summary(r)) => Summary(r) \notin ws.links \cup ws.loose
           /\ ws.file[Summary(r)] = ws.file[Record(r)]
  BY <1>1, <1>2, NothingExposed
<1>4. /\ Consistent(index) /\ RevisionsAgree(ws, index)
      /\ ViewFindings(ws, index) = {} /\ Views \notin ws.links
      /\ \A p \in Registered(index) : index.views[p] = Content(ws, p, index.model)
  BY <1>1, <1>2, NothingStale
<1>5. There(ws, Views) => Views \notin ws.links \cup ws.loose
  <2>1. \A f : f \in Modes(ws, {Views}) => f \in ViewFindings(ws, index)
    BY Zenon DEF ViewFindings
  <2>2. Modes(ws, {Views}) = {}
    BY <1>4, <2>1
  <2> QED BY <1>4, <2>2 DEF Modes
<1>6. ASSUME NEW p \in Registered(index)
      PROVE  /\ ViewOf(p) \notin ws.links
             /\ There(ws, ViewOf(p)) => ViewOf(p) \notin ws.loose
             /\ ws.file[ViewOf(p)] = index.views[p]
  <2> DEFINE X == IF ViewOf(p) \in ws.links THEN Linked(ws, {ViewOf(p)})
                  ELSE Modes(ws, {ViewOf(p)})
                       \cup IF ws.file[ViewOf(p)] = index.views[p] THEN {}
                            ELSE {Found("generated_view_invalid", ViewOf(p))}
  <2>1. \A f : f \in X => f \in ViewFindings(ws, index)
    BY <1>6, Zenon DEF ViewFindings
  <2>2. X = {}
    BY <1>4, <2>1
  <2> HIDE DEF index
  <2> QED BY <2>2 DEF Linked, Modes
<1>7. \A p \in Periods \ Registered(index) : ~ There(ws, ViewOf(p))
  <2>1. \A f : f \in UnknownViews(ws, index) => f \in ViewFindings(ws, index)
    BY Zenon DEF ViewFindings
  <2>2. UnknownViews(ws, index) = {}
    BY <1>4, <2>1
  <2> QED BY <2>2 DEF UnknownViews
<1>8. \A r \in Records : There(ws, Summary(r)) => There(ws, Record(r))
  BY DEF Indexes, Summarized, There
<1>9. \A i \in Items : There(ws, i) => i \notin ws.links \cup ws.loose
  <2> SUFFICES ASSUME NEW i \in Items, There(ws, i)
               PROVE  i \notin ws.links \cup ws.loose
    OBVIOUS
  <2>1. CASE i \in {Config, Rules, Corrections, Root, Internal, Container, Views, Index,
                    Leftover, Stray}
    BY <1>3, <1>5, <2>1
  <2>2. CASE \E r \in Records : i \in {Record(r), Summary(r)}
    BY <1>3, <1>8, <2>2
  <2>3. CASE \E p \in Periods : i = ViewOf(p)
    BY <1>6, <1>7, <2>3
  <2> QED BY <2>1, <2>2, <2>3, ItemsAre
<1>10. \A r \in Records : Ready(ws, r) => PeriodOf[r] \in Registered(index)
  <2>1. \A r \in Records : Ready(ws, r) => r \in Indexed(index)
    BY <1>4 DEF RevisionsAgree, Indexed, Ready
  <2>2. Registered(index) = {PeriodOf[r] : r \in Indexed(index)}
    BY <1>4 DEF Registered, Consistent
  <2> QED BY <2>1, <2>2
<1> HIDE DEF index
<1> QED
  <2>1. {i \in Items : There(ws, i)} \cap (ws.links \cup ws.loose) = {}
    BY <1>9
  <2> QED BY <1>1, <1>2, <1>3, <1>4, <1>6, <1>10, <2>1 DEF InOrder, index

-------------------------------------------------------------------------------
(***************************************************************************)
(* The inductive invariant: what everybody else does.                      *)
(***************************************************************************)
LEMMA Replacing ==
    ASSUME NEW f, f = [i \in Items |-> f[i]], NEW k, NEW v
    PROVE  LET g == [f EXCEPT ![k] = v]
           IN  /\ g = [i \in Items |-> g[i]]
               /\ \A i \in Items : g[i] = IF i = k THEN v ELSE f[i]
OBVIOUS

LEMMA Workspace ==
    ASSUME NEW f, NEW l, NEW k, NEW file, NEW loose
    PROVE  [[file |-> f, loose |-> l, links |-> k] EXCEPT !.file = file, !.loose = loose]
             = [file |-> file, loose |-> loose, links |-> k]
<1> DEFINE r == [file |-> f, loose |-> l, links |-> k]
           s == [r EXCEPT !.file = file]
           t == [s EXCEPT !.loose = loose]
<1>1. s = [file |-> file, loose |-> l, links |-> k]
  OBVIOUS
<1>2. t = [file |-> file, loose |-> loose, links |-> k]
  <2> HIDE DEF s
  <2> QED BY <1>1
<1>3. [r EXCEPT !.file = file, !.loose = loose] = t
  BY Zenon
<1> QED BY <1>2, <1>3

LEMMA WrittenIs ==
    ASSUME NEW w, w = [file |-> w.file, loose |-> w.loose, links |-> w.links], NEW file
    PROVE  LET u == Written(w, file)
           IN  /\ u.file = file /\ u.links = w.links
               /\ u = [file |-> u.file, loose |-> u.loose, links |-> u.links]
<1>1. PICK loose : Written(w, file) = [w EXCEPT !.file = file, !.loose = loose]
  BY Zenon DEF Written
<1>2. Written(w, file) = [[file |-> w.file, loose |-> w.loose, links |-> w.links]
                            EXCEPT !.file = file, !.loose = loose]
  BY <1>1, Zenon
<1>3. Written(w, file) = [file |-> file, loose |-> loose, links |-> w.links]
  BY <1>2, Workspace, Zenon
<1> QED BY <1>3

\* What a plan is proved from.
SameProof ==
    /\ ws'.file[Index] = ws.file[Index]
    /\ \A r \in Records : /\ ws'.file[Record(r)] = ws.file[Record(r)]
                          /\ ws'.file[Summary(r)] = ws.file[Summary(r)]

LEMMA StaysProved ==
    ASSUME SameProof, NEW a, Proved(ws, a)
    PROVE  Proved(ws', a)
<1>1. a.kind = "set_private_mode" =>
         \A r \in Records : a.path \in {Record(r), Summary(r)} => a.content = ws'.file[a.path]
  BY DEF SameProof, Proved
<1>2. a.kind = "rebuild_summary" =>
         \E r \in Records : a.path = Summary(r) /\ a.content = ws'.file[Record(r)]
  BY DEF SameProof, Proved
<1>3. a.kind = "rebuild_generated_view" =>
         \E p \in Registered(ws'.file[Index]) :
            a.path = ViewOf(p) /\ a.content = ws'.file[Index].views[p]
  BY DEF SameProof, Proved
<1> QED BY <1>1, <1>2, <1>3 DEF Proved

\* Whoever moves beside doctor takes its knowledge away, so that only the
\* workspace has to be looked at, and what a plan under the lock rests on.
LEMMA Disturbed ==
    ASSUME Inv, Disturb, UNCHANGED doctor,
           Shapes', Locks', Indexes', Journals', Commands',
           doctor.pc = "publish" => SameProof
    PROVE  Inv'
<1>1. Reported'
  BY DEF Inv, Reported
<1>2. Knows' /\ Verdict'
  BY DEF Disturb, Knows, Verdict
<1>3. Planned'
  <2> SUFFICES ASSUME doctor.pc = "publish", NEW a \in doctor.plan
               PROVE  Proved(ws', a)
    BY DEF Planned
  <2> QED BY StaysProved DEF Inv, Planned
<1> QED BY <1>1, <1>2, <1>3 DEF Inv

LEMMA BeginKeeps ==
    ASSUME Inv, NEW record \in Records \cup {None}, NEW retained, Begin(record, retained),
           record \in Records => ws.file[Record(record)] \in {Missing, 0, 1},
           retained # None => DOMAIN retained.new = {} /\ DOMAIN retained.old = {}
    PROVE  Inv'
<1>1. /\ lock = "absent" /\ lock' = "command" /\ journal' = retained
      /\ command' = [step |-> "held", record |-> record]
      /\ UNCHANGED <<ws, doctor>> /\ Disturb
  BY DEF Begin
<1>2. Shapes' /\ Locks' /\ Indexes'
  BY <1>1 DEF Inv, Shapes, Locks, Indexes
<1>3. Journals'
  BY <1>1 DEF Journals
<1>4. Commands'
  BY <1>1 DEF Commands
<1> QED BY <1>1, <1>2, <1>3, <1>4, Disturbed DEF Inv, Locks

LEMMA BeginImportKeeps ==
    ASSUME Inv, NEW r \in Records, BeginImport(r)
    PROVE  Inv'
<1> DEFINE retained == [old |-> <<>>, new |-> <<>>, reserved |-> r]
<1>1. Begin(r, retained) /\ ws.file[Record(r)] \in {Missing, 0, 1}
  BY DEF BeginImport
<1>2. DOMAIN retained.new = {} /\ DOMAIN retained.old = {}
  OBVIOUS
<1> HIDE DEF retained
<1> QED BY <1>1, <1>2, BeginKeeps

LEMMA BeginRebuildKeeps ==
    ASSUME Inv, BeginRebuild
    PROVE  Inv'
BY BeginKeeps, AuditAssumption DEF BeginRebuild

\* The next index is one, and the files of the next generation have it and the
\* records that are there.
LEMMA NextIndexIs ==
    ASSUME NEW w, Consistent(IndexOf(w))
    PROVE  Consistent(NextIndex(w)) /\ NextIndex(w).gen = IndexOf(w).gen + 1
<1> DEFINE model == w.file[Config] = "model"
           rev   == [r \in Records |-> IF Ready(w, r) THEN w.file[Record(r)] ELSE 0]
           new   == NextIndex(w)
<1>1. /\ new = NewIndex(IndexOf(w).gen + 1, rev, [i \in Inputs |-> w.file[i]],
                        [p \in {PeriodOf[r] : r \in {s \in Records : rev[s] # 0}} |->
                           Content(w, p, model)], model)
  BY Zenon DEF NextIndex
<1>2. /\ new.gen = IndexOf(w).gen + 1 /\ new.rev = rev
      /\ new.proofs = [i \in Inputs |-> w.file[i]] /\ new.model = model
      /\ new.views = [p \in {PeriodOf[r] : r \in {s \in Records : rev[s] # 0}} |->
                        Content(w, p, model)]
  BY <1>1 DEF NewIndex
<1>3. new = NewIndex(new.gen, new.rev, new.proofs, new.views, new.model)
  BY <1>1, <1>2 DEF NewIndex
<1>4. rev \in [Records -> Nat] /\ model \in BOOLEAN /\ new.gen \in Nat
  BY <1>2 DEF Ready, Consistent
<1>5. Indexed(new) = {s \in Records : rev[s] # 0}
  BY <1>2 DEF Indexed
<1>6. \A r \in Records : rev[r] # 0 <=> Ready(w, r)
  BY DEF Ready
<1>7. ASSUME NEW p \in Periods
      PROVE  Content(w, p, model) =
               [rows |-> {<<r, new.rev[r]>> : r \in {s \in Indexed(new) : PeriodOf[s] = p}},
                inputs |-> new.proofs, answer |-> new.model]
  <2>1. {s \in Indexed(new) : PeriodOf[s] = p} = {s \in Records : Ready(w, s) /\ PeriodOf[s] = p}
    BY <1>5, <1>6
  <2>2. \A r \in {s \in Records : Ready(w, s) /\ PeriodOf[s] = p} :
          new.rev[r] = w.file[Record(r)]
    BY <1>2
  <2>3. {<<r, new.rev[r]>> : r \in {s \in Indexed(new) : PeriodOf[s] = p}}
          = {<<r, w.file[Record(r)]>> : r \in {s \in Records : Ready(w, s) /\ PeriodOf[s] = p}}
    BY <2>1, <2>2
  <2> HIDE DEF new, rev, model
  <2> QED BY <1>2, <2>3 DEF Content
<1>8. {PeriodOf[r] : r \in {s \in Records : rev[s] # 0}} \subseteq Periods
  BY AuditAssumption
<1> HIDE DEF new, rev, model
<1>9. new.views =
         [p \in {PeriodOf[r] : r \in Indexed(new)} |->
            [rows |-> {<<r, new.rev[r]>> : r \in {s \in Indexed(new) : PeriodOf[s] = p}},
             inputs |-> new.proofs, answer |-> new.model]]
  BY <1>2, <1>5, <1>7, <1>8
<1>10. new.proofs = [i \in Inputs |-> new.proofs[i]]
  BY <1>2
<1>11. Consistent(new)
  BY <1>2, <1>3, <1>4, <1>9, <1>10 DEF Consistent
<1> QED BY <1>2, <1>11 DEF new

LEMMA WorkspaceFiles ==
    ASSUME NEW f, NEW l, NEW k, NEW a, NEW b, NEW n
    PROVE  [[file |-> f, loose |-> l, links |-> k] EXCEPT !.file[a] = n, !.file[b] = n]
             = [file |-> [[f EXCEPT ![a] = n] EXCEPT ![b] = n], loose |-> l, links |-> k]
<1> DEFINE w == [file |-> f, loose |-> l, links |-> k]
           g == [f EXCEPT ![a] = n]
           u == [w EXCEPT !.file[a] = n]
           v == [u EXCEPT !.file[b] = n]
<1>1. u = [file |-> g, loose |-> l, links |-> k]
  <2> HIDE DEF g
  <2>1. [w EXCEPT !.file = g] = [file |-> g, loose |-> l, links |-> k]
    OBVIOUS
  <2>2. u = [w EXCEPT !.file = g]
    BY DEF g
  <2> QED BY <2>1, <2>2
<1>2. v = [file |-> [g EXCEPT ![b] = n], loose |-> l, links |-> k]
  <2> HIDE DEF g, u
  <2> DEFINE h == [g EXCEPT ![b] = n]
  <2>1. v = [u EXCEPT !.file = h]
    BY <1>1
  <2> HIDE DEF h
  <2>2. [u EXCEPT !.file = h] = [file |-> h, loose |-> l, links |-> k]
    BY <1>1
  <2> QED BY <2>1, <2>2 DEF h
<1>3. [w EXCEPT !.file[a] = n, !.file[b] = n] = v
  BY Zenon
<1> QED BY <1>2, <1>3

\* The workspace with a record imported is one more success for it.
LEMMA ImportedIs ==
    ASSUME Shapes, NEW r \in Records
    PROVE  LET n == IF ws.file[Record(r)] = Missing THEN 1 ELSE ws.file[Record(r)] + 1
               w == Imported(ws, r)
           IN  /\ w.file = [i \in Items |-> w.file[i]] /\ w.links = ws.links
               /\ \A i \in Items : w.file[i] = IF i \in {Record(r), Summary(r)} THEN n
                                               ELSE ws.file[i]
<1> DEFINE n == IF ws.file[Record(r)] = Missing THEN 1 ELSE ws.file[Record(r)] + 1
           g == [ws.file EXCEPT ![Record(r)] = n]
           h == [g EXCEPT ![Summary(r)] = n]
<1>1. ws = [file |-> ws.file, loose |-> ws.loose, links |-> ws.links]
      /\ ws.file = [i \in Items |-> ws.file[i]]
  BY DEF Shapes
<1>2. Imported(ws, r) = [ws EXCEPT !.file[Record(r)] = n, !.file[Summary(r)] = n]
  BY Zenon DEF Imported
<1>3. Imported(ws, r) = [[file |-> ws.file, loose |-> ws.loose, links |-> ws.links]
                           EXCEPT !.file[Record(r)] = n, !.file[Summary(r)] = n]
  BY <1>1, <1>2, Zenon
<1> HIDE DEF n
<1>4. Imported(ws, r) = [file |-> h, loose |-> ws.loose, links |-> ws.links]
  BY <1>3, WorkspaceFiles, Zenon
<1>5. g = [i \in Items |-> g[i]] /\ \A i \in Items : g[i] = IF i = Record(r) THEN n ELSE ws.file[i]
  BY <1>1, Replacing, Zenon
<1> HIDE DEF g
<1>6. h = [i \in Items |-> h[i]] /\ \A i \in Items : h[i] = IF i = Summary(r) THEN n ELSE g[i]
  BY <1>5, Replacing, Zenon
<1> HIDE DEF h
<1>7. Imported(ws, r).file = h /\ Imported(ws, r).links = ws.links
  BY <1>4
<1> QED BY <1>5, <1>6, <1>7 DEF n

LEMMA NextFilesAre ==
    ASSUME NEW w, NEW full \in BOOLEAN
    PROVE  LET new == NextFiles(w, full)
           IN  /\ new = [i \in Items |-> new[i]] /\ new[Index] = NextIndex(w)
               /\ \A r \in Records : /\ new[Record(r)] = w.file[Record(r)]
                                     /\ new[Summary(r)] = w.file[Summary(r)]
<1> DEFINE written == {p \in Registered(NextIndex(w)) :
                         \/ full \/ p \notin Registered(IndexOf(w))
                         \/ NextIndex(w).views[p] # IndexOf(w).views[p]}
           new == NextFiles(w, full)
<1>1. new = [i \in Items |->
               IF i = Index THEN NextIndex(w)
               ELSE IF i = Views /\ Registered(NextIndex(w)) # {} THEN "there"
               ELSE IF i \in {ViewOf(p) : p \in written} THEN NextIndex(w).views[i[2]]
               ELSE w.file[i]]
  BY Zenon DEF NextFiles
<1>2. \A r \in Records : /\ Record(r) \notin {ViewOf(p) : p \in written} \cup {Index, Views}
                         /\ Summary(r) \notin {ViewOf(p) : p \in written} \cup {Index, Views}
  BY Names
<1> HIDE DEF written
<1>3. new[Index] = NextIndex(w)
  BY <1>1, ItemsAre
<1>4. \A r \in Records : /\ new[Record(r)] = w.file[Record(r)]
                         /\ new[Summary(r)] = w.file[Summary(r)]
  BY <1>1, <1>2, ItemsAre
<1>5. new = [i \in Items |-> new[i]]
  BY <1>1
<1> QED BY <1>3, <1>4, <1>5

\* A journal of two generations, of which the new one has the records and
\* summaries of the old one but for one that is imported.
LEMMA JournalKeeps ==
    ASSUME NEW old, NEW new, old = [i \in Items |-> old[i]], new = [i \in Items |-> new[i]],
           Acceptable(old[Index]), Acceptable(new[Index]), Summarized(old),
           NEW record, journal' = Publishing(old, new, record),
           \A r \in Records :
              \/ old[Record(r)] = new[Record(r)] /\ old[Summary(r)] = new[Summary(r)]
              \/ /\ old[Record(r)] # new[Record(r)] /\ new[Record(r)] # Missing
                 /\ new[Summary(r)] # Missing
              \/ old[Record(r)] = new[Record(r)] /\ ws'.file[Record(r)] # Missing
    PROVE  /\ Journals'
           /\ DOMAIN journal'.new = {i \in Items : old[i] # new[i]}
<1> DEFINE D == {i \in Items : old[i] # new[i]}
           before == [i \in D |-> old[i]]
           after == [i \in D |-> new[i]]
<1>1. journal' = [old |-> before, new |-> after, reserved |-> record]
  BY Zenon DEF Publishing
<1>2. journal'.old = before /\ journal'.new = after
  <2> HIDE DEF before, after
  <2> QED BY <1>1
<1>3. /\ DOMAIN journal'.old = D /\ DOMAIN journal'.new = D
      /\ \A i \in D : journal'.old[i] = old[i] /\ journal'.new[i] = new[i]
  BY <1>2
<1>4. \A r \in Records :
        /\ Record(r) \in D <=> old[Record(r)] # new[Record(r)]
        /\ Summary(r) \in D <=> old[Summary(r)] # new[Summary(r)]
  BY ItemsAre
<1> HIDE DEF D
<1>5. ASSUME NEW r \in Records
      PROVE  /\ Record(r) \in D => journal'.new[Record(r)] # Missing
             /\ Record(r) \in D /\ journal'.old[Record(r)] = Missing =>
                  Summary(r) \in D /\ journal'.old[Summary(r)] = Missing
             /\ Summary(r) \in D /\ Record(r) \notin D => ws'.file[Record(r)] # Missing
  <2>1. old[Record(r)] = Missing => old[Summary(r)] = Missing
    BY DEF Summarized
  <2> QED BY <1>3, <1>4, <2>1
<1>6. D \subseteq Items /\ DOMAIN journal'.new = {i \in Items : old[i] # new[i]}
  BY <1>3 DEF D
<1> QED BY <1>3, <1>5, <1>6 DEF Journals, There

LEMMA CommandGoesOn ==
    ASSUME Shapes, command # None, NEW step
    PROVE  [command EXCEPT !.step = step] = [step |-> step, record |-> command.record]
<1>1. \A s, r : [[step |-> s, record |-> r] EXCEPT !.step = step] = [step |-> step, record |-> r]
  OBVIOUS
<1>2. command = [step |-> command.step, record |-> command.record]
  BY DEF Shapes
<1> QED BY <1>1, <1>2, Zenon

LEMMA ReadableIndex ==
    ASSUME Indexes, IndexOf(ws) # None
    PROVE  IndexOf(ws) = ws.file[Index] /\ Consistent(IndexOf(ws))
BY DEF Indexes, IndexOf, Acceptable, Marks

LEMMA InstallKeeps ==
    ASSUME Inv, Install
    PROVE  Inv'
<1> DEFINE r == command.record
           w == IF r = None THEN ws ELSE Imported(ws, r)
           new == NextFiles(w, r = None)
           fin == [new EXCEPT ![Index] = ws.file[Index]]
<1>1. /\ command # None /\ command.step = "held" /\ Accepts(ws)
      /\ journal' = Publishing(ws.file, new, r)
      /\ ws' = Written(ws, fin)
      /\ command' = [command EXCEPT !.step = "installed"]
      /\ Disturb /\ UNCHANGED <<lock, doctor, used>>
  BY Zenon DEF Install
<1>2. /\ Shapes /\ Locks /\ Indexes /\ Commands /\ r \in Records \cup {None}
      /\ lock = "command" /\ doctor.pc # "publish"
  BY <1>1 DEF Inv, Locks, Commands
<1>3. IndexOf(ws) = ws.file[Index] /\ Consistent(ws.file[Index])
  BY <1>1, <1>2, ReadableIndex DEF Accepts
<1>4. ASSUME r \in Records
      PROVE  /\ w.links = ws.links
             /\ \A i \in Items \ {Record(r), Summary(r)} : w.file[i] = ws.file[i]
             /\ w.file[Record(r)] \in Nat /\ w.file[Record(r)] # ws.file[Record(r)]
             /\ w.file[Summary(r)] \in Nat
  <2>1. w = Imported(ws, r)
    BY <1>4, AuditAssumption
  <2>2. ws.file[Record(r)] \in {Missing, 0, 1}
    BY <1>1, <1>2, <1>4 DEF Commands
  <2> DEFINE n == IF ws.file[Record(r)] = Missing THEN 1 ELSE ws.file[Record(r)] + 1
  <2>3. n \in Nat /\ n # ws.file[Record(r)]
    BY <2>2, AuditAssumption
  <2> HIDE DEF n
  <2>4. /\ w.links = ws.links
        /\ \A i \in Items : w.file[i] = IF i \in {Record(r), Summary(r)} THEN n ELSE ws.file[i]
    <3>1. /\ Imported(ws, r).links = ws.links
          /\ \A i \in Items : Imported(ws, r).file[i] =
               IF i \in {Record(r), Summary(r)} THEN n ELSE ws.file[i]
      BY <1>2, <1>4, ImportedIs, Zenon DEF n
    <3> QED BY <2>1, <3>1, Zenon
  <2> HIDE DEF w, r
  <2> QED BY <1>4, <2>3, <2>4, ItemsAre
<1>5. /\ w.links = ws.links /\ w.file[Index] = ws.file[Index]
      /\ r = None => w = ws
  <2>1. CASE r = None
    BY <2>1
  <2>2. CASE r \in Records
    BY <1>4, <2>2, ItemsAre, Names, AuditAssumption
  <2> QED BY <1>2, <2>1, <2>2
<1>6. \A q \in Records :
        \/ w.file[Record(q)] = ws.file[Record(q)] /\ w.file[Summary(q)] = ws.file[Summary(q)]
        \/ /\ w.file[Record(q)] # ws.file[Record(q)] /\ w.file[Record(q)] # Missing
           /\ w.file[Summary(q)] # Missing
  <2>1. CASE r = None
    BY <1>5, <2>1
  <2>2. CASE r \in Records
    <3> SUFFICES ASSUME NEW q \in Records
                 PROVE  \/ /\ w.file[Record(q)] = ws.file[Record(q)]
                           /\ w.file[Summary(q)] = ws.file[Summary(q)]
                        \/ /\ w.file[Record(q)] # ws.file[Record(q)]
                           /\ w.file[Record(q)] # Missing /\ w.file[Summary(q)] # Missing
      OBVIOUS
    <3> HIDE DEF w, r
    <3>1. CASE q = r
      BY <1>4, <2>2, <3>1, AuditAssumption
    <3>2. CASE q # r
      <4>1. Record(q) \in Items \ {Record(r), Summary(r)}
        BY <3>2, ItemsAre, Names
      <4>2. Summary(q) \in Items \ {Record(r), Summary(r)}
        BY <3>2, ItemsAre, Names
      <4> QED BY <1>4, <2>2, <4>1, <4>2
    <3> QED BY <3>1, <3>2
  <2> QED BY <1>2, <2>1, <2>2
<1>7. IndexOf(w) = ws.file[Index]
  BY <1>1, <1>3, <1>5 DEF Accepts, IndexOf
<1> HIDE DEF w
<1>8. /\ new = [i \in Items |-> new[i]] /\ new[Index] = NextIndex(w)
      /\ \A q \in Records : /\ new[Record(q)] = w.file[Record(q)]
                            /\ new[Summary(q)] = w.file[Summary(q)]
  BY NextFilesAre
<1>9. Consistent(new[Index]) /\ new[Index].gen = ws.file[Index].gen + 1
  BY <1>3, <1>7, <1>8, NextIndexIs
<1> HIDE DEF new
<1>10. /\ fin = [i \in Items |-> fin[i]]
       /\ \A i \in Items : fin[i] = IF i = Index THEN ws.file[Index] ELSE new[i]
  BY <1>8, Replacing, Zenon
<1> HIDE DEF fin
<1>11. \A q \in Records : fin[Record(q)] = w.file[Record(q)] /\ fin[Summary(q)] = w.file[Summary(q)]
  <2>1. \A q \in Records : {Record(q), Summary(q)} \subseteq Items \ {Index}
    BY ItemsAre, Names
  <2> QED BY <1>8, <1>10, <2>1
<1>12. /\ ws'.file = fin
       /\ ws' = [file |-> ws'.file, loose |-> ws'.loose, links |-> ws'.links]
  BY <1>1, <1>2, WrittenIs DEF Shapes
<1>13. /\ Journals' /\ DOMAIN journal'.new = {i \in Items : ws.file[i] # new[i]}
  <2>1. Acceptable(ws.file[Index]) /\ Acceptable(new[Index]) /\ Summarized(ws.file)
    BY <1>2, <1>9 DEF Acceptable, Indexes
  <2>2. ws.file = [i \in Items |-> ws.file[i]]
    BY <1>2 DEF Shapes
  <2>3. \A q \in Records :
          \/ ws.file[Record(q)] = new[Record(q)] /\ ws.file[Summary(q)] = new[Summary(q)]
          \/ /\ ws.file[Record(q)] # new[Record(q)] /\ new[Record(q)] # Missing
             /\ new[Summary(q)] # Missing
    BY <1>6, <1>8
  <2> HIDE DEF r
  <2> QED BY <1>1, <1>8, <2>1, <2>2, <2>3, JournalKeeps
<1>14. Index \in DOMAIN journal'.new
  <2>1. ws.file[Index].gen \in Nat
    BY <1>3 DEF Consistent
  <2> QED BY <1>9, <1>13, <2>1, ItemsAre
<1>15. Indexes'
  <2>1. Summarized(fin)
    BY <1>2, <1>6, <1>11 DEF Indexes, Summarized
  <2>2. Acceptable(fin[Index])
    BY <1>2, <1>10, ItemsAre DEF Indexes
  <2> QED BY <1>12, <2>1, <2>2 DEF Indexes
<1>16. command' = [step |-> "installed", record |-> r]
  BY <1>1, <1>2, CommandGoesOn
<1> HIDE DEF r
<1>17. Shapes'
  BY <1>1, <1>2, <1>10, <1>12, <1>16 DEF Shapes
<1>18. Locks'
  BY <1>1, <1>2 DEF Locks
<1>19. Commands'
  <2>1. Acceptable(journal'.new[Index])
    BY <1>1, <1>9, <1>13, <1>14, ItemsAre DEF Publishing, Acceptable
  <2> QED BY <1>2, <1>14, <1>16, <2>1 DEF Commands
<1> QED BY <1>1, <1>2, <1>13, <1>15, <1>17, <1>18, <1>19, Disturbed

LEMMA JournalStays ==
    ASSUME Journals, UNCHANGED journal,
           \A r \in Records : There(ws, Record(r)) => There(ws', Record(r))
    PROVE  Journals'
<1> SUFFICES ASSUME journal # None
             PROVE  Journals'
  BY DEF Journals
<1>1. /\ DOMAIN journal.new \subseteq Items /\ DOMAIN journal.old = DOMAIN journal.new
      /\ Index \in DOMAIN journal.new =>
           Acceptable(journal.old[Index]) /\ Acceptable(journal.new[Index])
  BY DEF Journals
<1>2. \A r \in Records :
        /\ Record(r) \in DOMAIN journal.new => journal.new[Record(r)] # Missing
        /\ Record(r) \in DOMAIN journal.new /\ journal.old[Record(r)] = Missing =>
             Summary(r) \in DOMAIN journal.new /\ journal.old[Summary(r)] = Missing
        /\ Summary(r) \in DOMAIN journal.new /\ Record(r) \notin DOMAIN journal.new
             => There(ws', Record(r))
  BY DEF Journals
<1> QED BY <1>1, <1>2 DEF Journals

LEMMA InstallIndexKeeps ==
    ASSUME Inv, InstallIndex
    PROVE  Inv'
<1> DEFINE fin == [ws.file EXCEPT ![Index] = journal.new[Index]]
<1>1. /\ command # None /\ command.step = "installed"
      /\ ws' = Written(ws, fin)
      /\ command' = [command EXCEPT !.step = "committed"]
      /\ Disturb /\ UNCHANGED <<lock, journal, doctor>>
  BY Zenon DEF InstallIndex
<1>2. /\ Shapes /\ Locks /\ Indexes /\ Commands /\ Journals
      /\ lock = "command" /\ doctor.pc # "publish"
      /\ Acceptable(journal.new[Index])
  BY <1>1 DEF Inv, Locks, Commands
<1>3. /\ fin = [i \in Items |-> fin[i]]
      /\ \A i \in Items : fin[i] = IF i = Index THEN journal.new[Index] ELSE ws.file[i]
  BY <1>2, Replacing, Zenon DEF Shapes
<1> HIDE DEF fin
<1>4. \A r \in Records : {Record(r), Summary(r)} \subseteq Items \ {Index}
  BY ItemsAre, Names
<1>5. /\ ws'.file = fin
      /\ ws' = [file |-> ws'.file, loose |-> ws'.loose, links |-> ws'.links]
  BY <1>1, <1>2, WrittenIs DEF Shapes
<1>6. \A r \in Records : /\ ws'.file[Record(r)] = ws.file[Record(r)]
                         /\ ws'.file[Summary(r)] = ws.file[Summary(r)]
  BY <1>3, <1>4, <1>5
<1>7. ws'.file[Index] = journal.new[Index]
  BY <1>3, <1>5, ItemsAre
<1>8. Indexes'
  BY <1>2, <1>6, <1>7 DEF Indexes, Summarized
<1>9. Journals'
  BY <1>1, <1>2, <1>6, JournalStays DEF There
<1>10. command' = [step |-> "committed", record |-> command.record]
  BY <1>1, <1>2, CommandGoesOn
<1>11. Shapes' /\ Locks' /\ Commands'
  BY <1>1, <1>2, <1>3, <1>5, <1>10 DEF Shapes, Locks, Commands
<1> QED BY <1>1, <1>2, <1>8, <1>9, <1>11, Disturbed

LEMMA EndKeeps ==
    ASSUME Inv, End
    PROVE  Inv'
<1>1. /\ command # None /\ command' = None /\ journal' = None /\ lock' = "absent"
      /\ Disturb /\ UNCHANGED <<ws, doctor>>
  BY DEF End, Leave
<1>2. lock = "command" /\ doctor.pc # "publish"
      /\ (doctor.audit = "locked" => doctor.pc \notin {"head", "durable", "derived", "plan"})
  BY <1>1 DEF Inv, Locks
<1>3. Shapes' /\ Locks' /\ Indexes' /\ Journals' /\ Commands'
  BY <1>1, <1>2 DEF Inv, Shapes, Locks, Indexes, Journals, Commands
<1> QED BY <1>1, <1>2, <1>3, Disturbed

\* An interrupted attempt makes a record of what was none.
LEMMA InterruptedIs ==
    ASSUME NEW file, file = [i \in Items |-> file[i]], NEW r
    PROVE  LET new == Interrupted(file, r)
           IN  /\ new = [i \in Items |-> new[i]] /\ new[Index] = file[Index]
               /\ \A q \in Records :
                    /\ new[Summary(q)] = file[Summary(q)]
                    /\ \/ new[Record(q)] = file[Record(q)]
                       \/ file[Record(q)] = Missing /\ new[Record(q)] = 0
               /\ r \in Records => new[Record(r)] # Missing
<1> DEFINE g == [file EXCEPT ![Record(r)] = 0]
<1>1. Interrupted(file, r) = IF r = None \/ file[Record(r)] # Missing THEN file ELSE g
  BY Zenon DEF Interrupted
<1>2. CASE r = None \/ file[Record(r)] # Missing
  <2>1. Interrupted(file, r) = file
    BY <1>1, <1>2
  <2>2. r \in Records => file[Record(r)] # Missing
    BY <1>2, AuditAssumption
  <2> QED BY <2>1, <2>2, Zenon
<1>3. CASE file[Record(r)] = Missing /\ r # None
  <2>1. Interrupted(file, r) = g
    BY <1>1, <1>3
  <2>2. g = [i \in Items |-> g[i]] /\ \A i \in Items : g[i] = IF i = Record(r) THEN 0 ELSE file[i]
    BY Replacing, Zenon
  <2> HIDE DEF g
  <2>3. g[Index] = file[Index]
    BY <2>2, ItemsAre, Names
  <2>4. \A q \in Records : g[Summary(q)] = file[Summary(q)]
    <3>1. \A q \in Records : Summary(q) \in Items /\ Summary(q) # Record(r)
      BY ItemsAre, Names
    <3> QED BY <2>2, <3>1
  <2>5. \A q \in Records : \/ g[Record(q)] = file[Record(q)]
                           \/ file[Record(q)] = Missing /\ g[Record(q)] = 0
    <3> SUFFICES ASSUME NEW q \in Records
                 PROVE  \/ g[Record(q)] = file[Record(q)]
                        \/ file[Record(q)] = Missing /\ g[Record(q)] = 0
      OBVIOUS
    <3>1. g[Record(q)] = IF Record(q) = Record(r) THEN 0 ELSE file[Record(q)]
      BY <2>2, ItemsAre
    <3>2. CASE Record(q) = Record(r)
      <4>1. file[Record(q)] = file[Record(r)]
        BY <3>2
      <4> QED BY <1>3, <3>1, <3>2, <4>1
    <3>3. CASE Record(q) # Record(r)
      BY <3>1, <3>3, Zenon
    <3> QED BY <3>2, <3>3
  <2>6. r \in Records => g[Record(r)] = 0
    BY <2>2, ItemsAre
  <2> QED BY <2>1, <2>2, <2>3, <2>4, <2>5, <2>6, AuditAssumption
<1> QED BY <1>2, <1>3

LEMMA FailKeeps ==
    ASSUME Inv, Fail
    PROVE  Inv'
<1> DEFINE r == command.record
           file == Interrupted(ws.file, r)
           fin == [file EXCEPT ![Summary(r)] = file[Record(r)]]
<1>1. /\ command # None /\ command' = None /\ journal' = None /\ lock' = "absent"
      /\ ws' = IF r = None THEN ws ELSE Written(ws, fin)
      /\ Disturb /\ UNCHANGED doctor
  BY Zenon DEF Fail, Leave
<1>2. /\ Shapes /\ Indexes /\ r \in Records \cup {None}
      /\ lock = "command" /\ doctor.pc # "publish"
      /\ (doctor.audit = "locked" => doctor.pc \notin {"head", "durable", "derived", "plan"})
  BY <1>1 DEF Inv, Locks, Commands
<1>3. CASE r = None
  <2>1. Shapes' /\ Locks' /\ Indexes' /\ Journals' /\ Commands'
    BY <1>1, <1>2, <1>3 DEF Shapes, Locks, Indexes, Journals, Commands
  <2> QED BY <1>1, <1>2, <2>1, Disturbed
<1>4. CASE r \in Records
  <2>1. ws.file = [i \in Items |-> ws.file[i]]
    BY <1>2 DEF Shapes
  <2>2. /\ file = [i \in Items |-> file[i]] /\ file[Index] = ws.file[Index]
        /\ \A q \in Records :
             /\ file[Summary(q)] = ws.file[Summary(q)]
             /\ \/ file[Record(q)] = ws.file[Record(q)]
                \/ ws.file[Record(q)] = Missing /\ file[Record(q)] = 0
        /\ r \in Records => file[Record(r)] # Missing
    BY <2>1, InterruptedIs, Zenon
  <2> HIDE DEF file
  <2>3. /\ fin = [i \in Items |-> fin[i]]
        /\ \A i \in Items : fin[i] = IF i = Summary(r) THEN file[Record(r)] ELSE file[i]
    BY <2>2, Replacing, Zenon
  <2> HIDE DEF fin, r
  <2>4. Index \in Items \ {Summary(r)}
    BY ItemsAre, Names
  <2>5. \A q \in Records : /\ Record(q) \in Items \ {Summary(r)} /\ Summary(q) \in Items
                           /\ q # r => Summary(q) # Summary(r)
    BY ItemsAre, Names
  <2>6. Summarized(fin) /\ fin[Index] = ws.file[Index]
    BY <1>2, <1>4, <2>2, <2>3, <2>4, <2>5, AuditAssumption DEF Indexes, Summarized
  <2>7. /\ ws'.file = fin
        /\ ws' = [file |-> ws'.file, loose |-> ws'.loose, links |-> ws'.links]
    BY <1>1, <1>2, <1>4, WrittenIs, AuditAssumption DEF Shapes
  <2>8. Shapes' /\ Locks' /\ Indexes' /\ Journals' /\ Commands'
    BY <1>1, <1>2, <2>3, <2>6, <2>7 DEF Shapes, Locks, Indexes, Journals, Commands
  <2> QED BY <1>1, <1>2, <2>8, Disturbed
<1> QED BY <1>2, <1>3, <1>4

LEMMA StopKeeps ==
    ASSUME Inv, Stop
    PROVE  Inv'
<1>1. /\ command # None /\ command' = None /\ lock' \in {"stale", "unknown"}
      /\ Disturb /\ UNCHANGED <<ws, journal, doctor>>
  BY DEF Stop
<1>2. lock = "command" /\ doctor.pc # "publish"
      /\ (doctor.audit = "locked" => doctor.pc \notin {"head", "durable", "derived", "plan"})
  BY <1>1 DEF Inv, Locks
<1>3. Journals'
  BY <1>1, JournalStays DEF Inv
<1>4. Shapes' /\ Locks' /\ Indexes' /\ Commands'
  BY <1>1, <1>2 DEF Inv, Shapes, Locks, Indexes, Commands
<1> QED BY <1>1, <1>2, <1>3, <1>4, Disturbed

\* A touch that removes no record and puts no strange index.
LEMMA TouchKeeps ==
    ASSUME Inv, NEW i, NEW value, NEW loose, NEW links,
           Touch([ws.file EXCEPT ![i] = value], loose, links),
           i \in Items, \A r \in Records : i = Record(r) => value # Missing,
           \A r \in Records : i = Summary(r) => There(ws, i),
           i = Index => Acceptable(value),
           command # None \/ doctor.pc # "idle" =>
             i # Index /\ \A r \in Records : i \notin {Record(r), Summary(r)}
    PROVE  Inv'
<1> DEFINE fin == [ws.file EXCEPT ![i] = value]
<1>1. /\ ws' = [file |-> fin, loose |-> loose, links |-> links]
      /\ Disturb /\ UNCHANGED <<lock, journal, command, doctor>>
  BY Zenon DEF Touch
<1>2. Shapes /\ Locks /\ Indexes /\ Commands /\ Journals
  BY DEF Inv
<1>3. /\ fin = [j \in Items |-> fin[j]]
      /\ \A j \in Items : fin[j] = IF j = i THEN value ELSE ws.file[j]
  BY <1>2, Replacing, Zenon DEF Shapes
<1> HIDE DEF fin
<1>4. \A r \in Records : {Record(r), Summary(r), Index} \subseteq Items
  BY ItemsAre
<1>5. /\ ws'.file = fin
      /\ ws' = [file |-> ws'.file, loose |-> ws'.loose, links |-> ws'.links]
  BY <1>1
<1>6. \A r \in Records : There(ws, Record(r)) => There(ws', Record(r))
  BY <1>3, <1>4, <1>5 DEF There
<1>7. Journals'
  BY <1>1, <1>2, <1>6, JournalStays
<1>8. Indexes'
  <2>1. Acceptable(fin[Index])
    BY <1>2, <1>3, ItemsAre DEF Indexes
  <2>2. ASSUME NEW r \in Records, fin[Record(r)] = Missing
        PROVE  fin[Summary(r)] = Missing
    <3>1. ws.file[Record(r)] = Missing /\ ws.file[Summary(r)] = Missing
      BY <1>2, <1>3, <1>4, <2>2 DEF Indexes, Summarized
    <3> QED BY <1>3, <1>4, <3>1 DEF There
  <2> QED BY <1>5, <2>1, <2>2 DEF Indexes, Summarized
<1>9. Shapes' /\ Locks'
  BY <1>1, <1>2, <1>3, <1>5 DEF Shapes, Locks
<1>10. Commands'
  <2>1. command # None /\ command.record \in Records =>
          ws'.file[Record(command.record)] = ws.file[Record(command.record)]
    BY <1>3, <1>4, <1>5
  <2> QED BY <1>1, <1>2, <2>1 DEF Commands
<1>11. doctor.pc = "publish" => SameProof
  BY <1>3, <1>4, <1>5, ItemsAre DEF SameProof
<1> QED BY <1>1, <1>7, <1>8, <1>9, <1>10, <1>11, Disturbed

LEMMA SaveKeeps ==
    ASSUME Inv, NEW e \in Edits, Save(e[1], e[2])
    PROVE  Inv'
<1>1. e[1] \in Inputs \cup {ViewOf(p) : p \in Periods}
  BY DoctorAssumption
<1>2. e[1] \in Items
  BY <1>1 DEF Items
<1>3. e[1] # Index /\ \A r \in Records : e[1] \notin {Record(r), Summary(r)}
  BY <1>1, Names DEF Inputs
<1> QED BY <1>2, <1>3, TouchKeeps DEF Save

LEMMA HurtKeeps ==
    ASSUME Inv, NEW h \in Harm, Hurt(h[1], h[2])
    PROVE  Inv'
<1>1. /\ h[1] \in Items
      /\ \A r \in Records : h[1] = Record(r) => h[2] # Missing
      /\ h[1] = Index => Acceptable(h[2])
  BY DoctorAssumption DEF Acceptable, Marks
<1>2. /\ command = None /\ doctor.pc = "idle"
      /\ h[1] \in {Stray, Leftover} \/ There(ws, h[1])
      /\ Touch([ws.file EXCEPT ![h[1]] = h[2]], ws.loose, ws.links)
  BY DEF Hurt, AtRest
<1>3. \A r \in Records : h[1] = Summary(r) => There(ws, h[1])
  BY <1>2, Names
<1> QED BY <1>1, <1>2, <1>3, TouchKeeps

\* A mode or a link changes no bytes.
LEMMA MarkKeeps ==
    ASSUME Inv, NEW loose, NEW links, Touch(ws.file, loose, links)
    PROVE  Inv'
<1>1. /\ ws' = [file |-> ws.file, loose |-> loose, links |-> links]
      /\ Disturb /\ UNCHANGED <<lock, journal, command, doctor>>
  BY DEF Touch
<1>2. /\ ws'.file = ws.file
      /\ ws' = [file |-> ws'.file, loose |-> ws'.loose, links |-> ws'.links]
  BY <1>1
<1>3. Journals'
  BY <1>1, <1>2, JournalStays DEF Inv, There
<1>4. Shapes' /\ Locks' /\ Indexes' /\ Commands'
  BY <1>1, <1>2 DEF Inv, Shapes, Locks, Indexes, Commands
<1>5. SameProof
  BY <1>2 DEF SameProof
<1> QED BY <1>1, <1>3, <1>4, <1>5, Disturbed

-------------------------------------------------------------------------------
(***************************************************************************)
(* The inductive invariant: what doctor does.                              *)
(***************************************************************************)
Doing(pc, audit, found, index, config, report, plan) ==
    [pc |-> pc, audit |-> audit, found |-> found, index |-> index,
     config |-> config, report |-> report, plan |-> plan]

LEMMA DoingAt ==
    ASSUME NEW pc, NEW audit, NEW found, NEW index, NEW config, NEW report, NEW plan
    PROVE  /\ Doing(pc, audit, found, index, config, report, plan).pc = pc
           /\ Doing(pc, audit, found, index, config, report, plan).audit = audit
           /\ Doing(pc, audit, found, index, config, report, plan).found = found
           /\ Doing(pc, audit, found, index, config, report, plan).index = index
           /\ Doing(pc, audit, found, index, config, report, plan).config = config
           /\ Doing(pc, audit, found, index, config, report, plan).report = report
           /\ Doing(pc, audit, found, index, config, report, plan).plan = plan
BY DEF Doing

LEMMA DoctorIs ==
    ASSUME Shapes
    PROVE  doctor = Doing(doctor.pc, doctor.audit, doctor.found, doctor.index,
                          doctor.config, doctor.report, doctor.plan)
BY Zenon DEF Shapes, Doing

LEMMA StepIs ==
    ASSUME NEW pc, NEW audit, NEW report, NEW plan, Step(pc, audit, report, plan)
    PROVE  doctor' = Doing(pc, audit, {}, None, None, report, plan)
<1>1. Idle = Doing("idle", "none", {}, None, None, {}, {})
  BY Zenon DEF Idle, Doing
<1> DEFINE d1 == [Idle EXCEPT !.pc = pc]
           d2 == [d1 EXCEPT !.audit = audit]
           d3 == [d2 EXCEPT !.report = report]
           d4 == [d3 EXCEPT !.plan = plan]
<1>2. doctor' = d4
  BY Zenon DEF Step
<1>3. d1 = Doing(pc, "none", {}, None, None, {}, {})
  BY <1>1 DEF Doing
<1> HIDE DEF d1
<1>4. d2 = Doing(pc, audit, {}, None, None, {}, {})
  BY <1>3 DEF Doing
<1> HIDE DEF d2
<1>5. d3 = Doing(pc, audit, {}, None, None, report, {})
  BY <1>4 DEF Doing
<1> HIDE DEF d3
<1>6. d4 = Doing(pc, audit, {}, None, None, report, plan)
  BY <1>5 DEF Doing
<1> QED BY <1>2, <1>6

LEMMA IdleIs ==
    /\ Idle.pc = "idle" /\ Idle.audit = "none"
    /\ Idle = Doing("idle", "none", {}, None, None, {}, {})
<1>1. Idle = Doing("idle", "none", {}, None, None, {}, {})
  BY Zenon DEF Idle, Doing
<1> QED BY <1>1, DoingAt

LEMMA DurableIs ==
    ASSUME Shapes, NEW found
    PROVE  [doctor EXCEPT !.pc = "durable", !.found = found]
             = Doing("durable", doctor.audit, found, doctor.index, doctor.config,
                     doctor.report, doctor.plan)
<1> DEFINE d1 == [doctor EXCEPT !.pc = "durable"]
           d2 == [d1 EXCEPT !.found = found]
<1>1. d1 = Doing("durable", doctor.audit, doctor.found, doctor.index, doctor.config,
                 doctor.report, doctor.plan)
  BY DoctorIs DEF Doing
<1>2. [doctor EXCEPT !.pc = "durable", !.found = found] = d2
  BY Zenon
<1> HIDE DEF d1
<1>3. d2 = Doing("durable", doctor.audit, found, doctor.index, doctor.config,
                 doctor.report, doctor.plan)
  BY <1>1 DEF Doing
<1> QED BY <1>2, <1>3

LEMMA DerivedIs ==
    ASSUME Shapes, NEW found, NEW index, NEW config
    PROVE  [doctor EXCEPT !.pc = "derived", !.found = found, !.index = index,
                          !.config = config]
             = Doing("derived", doctor.audit, found, index, config, doctor.report, doctor.plan)
<1> DEFINE d1 == [doctor EXCEPT !.pc = "derived"]
           d2 == [d1 EXCEPT !.found = found]
           d3 == [d2 EXCEPT !.index = index]
           d4 == [d3 EXCEPT !.config = config]
<1>1. d1 = Doing("derived", doctor.audit, doctor.found, doctor.index, doctor.config,
                 doctor.report, doctor.plan)
  BY DoctorIs DEF Doing
<1>2. [doctor EXCEPT !.pc = "derived", !.found = found, !.index = index, !.config = config] = d4
  BY Zenon
<1> HIDE DEF d1
<1>3. d2 = Doing("derived", doctor.audit, found, doctor.index, doctor.config,
                 doctor.report, doctor.plan)
  BY <1>1 DEF Doing
<1> HIDE DEF d2
<1>4. d3 = Doing("derived", doctor.audit, found, index, doctor.config, doctor.report, doctor.plan)
  BY <1>3 DEF Doing
<1> HIDE DEF d3
<1>5. d4 = Doing("derived", doctor.audit, found, index, config, doctor.report, doctor.plan)
  BY <1>4 DEF Doing
<1> QED BY <1>2, <1>5

LEMMA AcquireIs ==
    ASSUME Shapes
    PROVE  [doctor EXCEPT !.pc = "acquire"]
             = Doing("acquire", doctor.audit, doctor.found, doctor.index, doctor.config,
                     doctor.report, doctor.plan)
BY DoctorIs DEF Doing

\* A finding that a repair answers names its file.
LEMMA HeadAddressed ==
    ASSUME NEW w, NEW l, NEW j, NEW locked
    PROVE  Addressed(Head(w, l, j, locked).found)
<1>1. \A f \in Head(w, l, j, locked).found :
        f.code \notin {"summary_invalid", "generated_view_invalid"}
  BY DEF Head, Linked, Found
<1> QED BY <1>1 DEF Addressed

LEMMA DurableAddressed ==
    ASSUME NEW w
    PROVE  Addressed(DurableFindings(w))
<1> DEFINE Else(findings) ==
             \A f \in findings : f.code \notin {"summary_invalid", "generated_view_invalid"}
<1>1. \A S : Else(Modes(w, S)) /\ Else(Linked(w, S))
  BY DEF Modes, Linked, Found
<1>2. /\ Else(ConfigFindings(w)) /\ Else(ContainerFindings(w)) /\ Else(IndexFindings(w))
  BY <1>1 DEF ConfigFindings, ContainerFindings, IndexFindings, Found
<1>3. Else(InputFindings(w))
  BY <1>1 DEF InputFindings, Found
<1>4. Else(EntryFindings(w)) /\ Else(AgreementFindings(w))
  BY <1>1 DEF EntryFindings, AgreementFindings, Found
<1>5. ASSUME NEW f \in RecordFindings(w)
      PROVE  /\ f.code # "generated_view_invalid"
             /\ f.code = "summary_invalid" => \E r \in Records : f.path = Summary(r)
  <2>1. PICK r \in Records :
          f \in Modes(w, {Record(r)})
                \cup (IF {Record(r), Summary(r)} \cap w.links # {}
                      THEN Linked(w, {Record(r), Summary(r)}) ELSE RecordFinding(w, r))
    BY <1>5, Zenon DEF RecordFindings
  <2>2. CASE f \in Modes(w, {Record(r)}) \/ f \in Linked(w, {Record(r), Summary(r)})
    BY <1>1, <2>2
  <2>3. CASE f \in RecordFinding(w, r)
    <3>1. \/ f \in Modes(w, {Summary(r)})
          \/ f.code \in {"attempt_history_invalid", "newer_honeymoney_required",
                         "import_record_invalid"}
          \/ f.code = "summary_invalid" /\ f.path = Summary(r)
      BY <2>3 DEF RecordFinding, Found
    <3> QED BY <1>1, <3>1
  <2> QED BY <2>1, <2>2, <2>3
<1> HIDE DEF Else
<1>6. ASSUME NEW f \in DurableFindings(w), f \notin RecordFindings(w)
      PROVE  f.code \notin {"summary_invalid", "generated_view_invalid"}
  BY <1>2, <1>3, <1>4, <1>6 DEF DurableFindings, Else
<1> QED BY <1>5, <1>6 DEF Addressed

LEMMA DerivedAddressed ==
    ASSUME NEW w, NEW found, NEW index, NEW config, Addressed(found)
    PROVE  Addressed(DerivedFindings(w, found, index, config))
<1> DEFINE Else(findings) ==
             \A f \in findings : f.code \notin {"summary_invalid", "generated_view_invalid"}
<1>1. \A S : Else(Modes(w, S)) /\ Else(Linked(w, S))
  BY DEF Modes, Linked, Found
<1>2. Else(ProofFindings(w, index, config)) /\ Else(CorrectionFindings(w, index, config))
  BY DEF ProofFindings, CorrectionFindings, Found
<1>3. Else(UnknownViews(w, index))
  BY DEF UnknownViews, Found
<1>4. ASSUME NEW f \in ViewFindings(w, index)
      PROVE  /\ f.code # "summary_invalid"
             /\ f.code = "generated_view_invalid" => f.path = ViewOf(f.path[2])
  <2>1. CASE f \in UnknownViews(w, index) \/ f \in Modes(w, {Views})
    BY <1>1, <1>3, <2>1
  <2>2. CASE f \notin UnknownViews(w, index) /\ f \notin Modes(w, {Views})
    <3>1. PICK p \in Registered(index) :
            f \in IF ViewOf(p) \in w.links THEN Linked(w, {ViewOf(p)})
                  ELSE Modes(w, {ViewOf(p)})
                       \cup IF w.file[ViewOf(p)] = index.views[p] THEN {}
                            ELSE {Found("generated_view_invalid", ViewOf(p))}
      BY <1>4, <2>2, Zenon DEF ViewFindings
    <3>2. \/ f \in Linked(w, {ViewOf(p)}) \/ f \in Modes(w, {ViewOf(p)})
          \/ f.code = "generated_view_invalid" /\ f.path = ViewOf(p)
      BY <3>1 DEF Found
    <3> QED BY <1>1, <3>2, Names
  <2> QED BY <2>1, <2>2
<1> HIDE DEF Else
<1>5. ASSUME NEW g, NEW f \in RegisteredViewFindings(w, index, g)
      PROVE  /\ f.code # "summary_invalid"
             /\ f.code = "generated_view_invalid" => f.path = ViewOf(f.path[2])
  <2>1. \/ f \in Linked(w, {Views}) \/ f \in ViewFindings(w, index)
        \/ f = Found("durable_state_conflict", Index)
    BY <1>5 DEF RegisteredViewFindings
  <2> QED BY <1>1, <1>4, <2>1 DEF Else, Found
<1>6. ASSUME NEW f \in DerivedFindings(w, found, index, config)
      PROVE  \/ f \in found
             \/ f \in ProofFindings(w, index, config) \/ f \in CorrectionFindings(w, index, config)
             \/ \E g : f \in RegisteredViewFindings(w, index, g)
  BY <1>6, Zenon DEF DerivedFindings
<1> QED BY <1>2, <1>5, <1>6 DEF Addressed, Else

LEMMA UnionAddressed ==
    ASSUME NEW f, NEW g, Addressed(f), Addressed(g)
    PROVE  Addressed(f \cup g)
BY DEF Addressed

LEMMA ReportAddressed ==
    ASSUME NEW findings, Addressed(findings), NEW report \in Reports(findings)
    PROVE  Addressed(report)
<1>1. report \subseteq findings
  BY DEF Reports
<1> QED BY <1>1 DEF Addressed

\* An empty report is one of no findings.
LEMMA NothingReported ==
    ASSUME NEW findings, {} \in Reports(findings)
    PROVE  findings = {}
<1>1. Cardinality({}) = 0
  BY FS_EmptySet
<1>2. {} = findings \/ Cardinality({}) = MaxFindings
  BY DEF Reports
<1> QED BY <1>1, <1>2, AuditAssumption

-------------------------------------------------------------------------------
(***************************************************************************)
(* What doctor's steps keep.                                               *)
(***************************************************************************)
LEMMA EmptyIndexIs == Consistent(EmptyIndex)
<1>1. /\ EmptyIndex.gen = 0 /\ EmptyIndex.rev = [r \in Records |-> 0]
      /\ EmptyIndex.proofs = None /\ EmptyIndex.model = FALSE
      /\ EmptyIndex.views = [p \in {} |-> None]
  BY DEF EmptyIndex, NewIndex
<1>2. EmptyIndex = NewIndex(EmptyIndex.gen, EmptyIndex.rev, EmptyIndex.proofs,
                            EmptyIndex.views, EmptyIndex.model)
  BY <1>1, Zenon DEF EmptyIndex
<1>3. Indexed(EmptyIndex) = {}
  BY <1>1 DEF Indexed
<1>4. EmptyIndex.views =
         [p \in {PeriodOf[r] : r \in Indexed(EmptyIndex)} |->
            [rows |-> {<<r, EmptyIndex.rev[r]>> :
                         r \in {s \in Indexed(EmptyIndex) : PeriodOf[s] = p}},
             inputs |-> EmptyIndex.proofs, answer |-> EmptyIndex.model]]
  <2>1. {PeriodOf[r] : r \in Indexed(EmptyIndex)} = {}
    BY <1>3
  <2> QED BY <1>1, <2>1
<1>5. EmptyIndex.gen \in Nat /\ EmptyIndex.rev \in [Records -> Nat]
  BY <1>1
<1>6. EmptyIndex.model \in BOOLEAN
  BY <1>1, Zenon
<1> QED BY <1>1, <1>2, <1>4, <1>5, <1>6, Zenon DEF Consistent

LEMMA InitInv ==
    ASSUME Init
    PROVE  Inv
<1> DEFINE files == [i \in Items |->
                       IF i = Config THEN "plain" ELSE IF i = Rules THEN "v1"
                       ELSE IF i = Corrections THEN {}
                       ELSE IF i \in Directories \ {Views} THEN "there"
                       ELSE IF i = Index THEN EmptyIndex ELSE Missing]
<1>1. ws = [file |-> files, loose |-> {}, links |-> {}]
  BY Zenon DEF Init, Fresh
<1>2. lock = "absent" /\ journal = None /\ command = None /\ doctor = Idle /\ result = None
  BY DEF Init
<1>3. files[Index] = EmptyIndex
  BY ItemsAre, Names DEF Directories
<1>4. \A r \in Records : files[Summary(r)] = Missing
  BY ItemsAre, Names DEF Directories
<1>5. files = [i \in Items |-> files[i]]
  OBVIOUS
<1> HIDE DEF files
<1>6. ws.file = files /\ ws = [file |-> ws.file, loose |-> ws.loose, links |-> ws.links]
  BY <1>1
<1>7. Indexes
  BY <1>3, <1>4, <1>6, EmptyIndexIs DEF Indexes, Acceptable, Summarized
<1>8. doctor.pc = "idle" /\ doctor.audit = "none"
      /\ doctor = Doing("idle", "none", {}, None, None, {}, {})
  BY <1>2, IdleIs
<1>9. Shapes
  BY <1>2, <1>5, <1>6, <1>8 DEF Shapes, Doing
<1> QED BY <1>2, <1>7, <1>8, <1>9
        DEF Inv, Locks, Journals, Commands, Reported, Knows, Verdict, Planned

\* Every action of a plan is proved by the files that it was made from.
LEMMA PlanProved ==
    ASSUME NEW report, Addressed(report), NEW a \in Plan(ws, report),
           ~ Settles(Plan(ws, report))
    PROVE  Proved(ws, a)
<1>1. \A k, p, c : /\ Action(k, p, c).kind = k /\ Action(k, p, c).path = p
                   /\ Action(k, p, c).content = c
                   /\ Action(k, p, c) = Action(Action(k, p, c).kind, Action(k, p, c).path,
                                               Action(k, p, c).content)
  BY DEF Action
<1>2. ~ Blocked(report) /\ "publication_recovery_required" \notin Codes(report)
  BY <1>1 DEF Plan, Settles, Kinds
<1>3. \/ a \in {Action("remove_stale_lock", f.path, None) :
                  f \in {g \in report : g.code = "stale_lock"}}
      \/ a \in SummaryActions(ws, report) \/ a \in ModeActions(ws, report)
      \/ a \in ViewActions(ws, report)
  BY <1>2 DEF Plan
<1>4. CASE a \in {Action("remove_stale_lock", f.path, None) :
                    f \in {g \in report : g.code = "stale_lock"}}
  BY <1>1, <1>4 DEF Proved
<1>5. CASE a \in SummaryActions(ws, report)
  <2>1. PICK f \in report : /\ f.code = "summary_invalid"
                            /\ a = Action("rebuild_summary", f.path, ws.file[Record(f.path[2])])
    BY <1>5 DEF SummaryActions
  <2>2. PICK r \in Records : f.path = Summary(r)
    BY <2>1 DEF Addressed
  <2>3. f.path[2] = r
    BY <2>2, Names
  <2> QED BY <1>1, <2>1, <2>2, <2>3 DEF Proved
<1>6. CASE a \in ModeActions(ws, report)
  <2>1. PICK f \in report :
          /\ There(ws, f.path) \/ f.path = Container
          /\ a = IF There(ws, f.path) THEN Action("set_private_mode", f.path, ws.file[f.path])
                 ELSE Action("create_private_directory", f.path, "there")
    BY <1>6 DEF ModeActions
  <2>2. CASE There(ws, f.path)
    BY <1>1, <2>1, <2>2 DEF Proved
  <2>3. CASE ~ There(ws, f.path)
    BY <1>1, <2>1, <2>3 DEF Proved, Directories
  <2> QED BY <2>2, <2>3
<1>7. CASE a \in ViewActions(ws, report)
  <2>1. IndexOf(ws) # None
    BY <1>7 DEF ViewActions
  <2>2. IndexOf(ws) = ws.file[Index]
    BY <2>1 DEF IndexOf
  <2>3. PICK f \in report :
          /\ f.code = "generated_view_invalid" /\ f.path[2] \in Registered(IndexOf(ws))
          /\ Content(ws, f.path[2], FALSE) = IndexOf(ws).views[f.path[2]]
          /\ a = Action("rebuild_generated_view", f.path, Content(ws, f.path[2], FALSE))
    BY <1>7, <2>1 DEF ViewActions
  <2> DEFINE p == f.path[2]
             content == Content(ws, p, FALSE)
  <2>4. /\ p \in Registered(ws.file[Index]) /\ content = ws.file[Index].views[p]
        /\ a = Action("rebuild_generated_view", f.path, content)
    BY <2>2, <2>3, Zenon
  <2>5. f.path = ViewOf(p)
    BY <2>3 DEF Addressed
  <2> HIDE DEF p, content
  <2> QED BY <1>1, <2>4, <2>5 DEF Proved
<1> QED BY <1>3, <1>4, <1>5, <1>6, <1>7

\* A step to where nothing is known yet.
LEMMA MoveOn ==
    ASSUME NEW pc, NEW audit, NEW found, NEW index, NEW config, NEW report, NEW plan,
           doctor' = Doing(pc, audit, found, index, config, report, plan),
           pc \in {"idle", "head", "settle", "unlock", "acquire"}, result' = None
    PROVE  Reported' /\ Knows' /\ Verdict' /\ Planned'
<1>1. doctor'.pc = pc
  BY DoingAt
<1> QED BY <1>1 DEF Reported, Knows, Verdict, Planned

LEMMA Unfinished ==
    ASSUME Inv, doctor.pc # "idle"
    PROVE  result = None
BY DEF Inv, Verdict

\* A verdict that does not count, or is that of the audit.
LEMMA FinishKeeps ==
    ASSUME NEW report, NEW raised, Finish(report, raised),
           quiet /\ ~ raised => report \in Reports(Findings(ws', lock', journal'))
    PROVE  Reported' /\ Knows' /\ Verdict' /\ Planned'
<1>1. doctor'.pc = "idle"
  BY IdleIs DEF Finish
<1>2. result'.report = report /\ result'.quiet = quiet /\ result'.raised = raised
  BY DEF Finish
<1> QED BY <1>1, <1>2 DEF Reported, Knows, Verdict, Planned

\* The shape of what a step leaves, and that the lock stays with its holder.
LEMMA DoctorShape ==
    ASSUME Inv, NEW pc, NEW audit, NEW found, NEW index, NEW config, NEW report, NEW plan,
           doctor' = Doing(pc, audit, found, index, config, report, plan),
           pc \in {"idle", "head", "durable", "derived", "plan", "settle", "unlock",
                   "acquire", "publish"},
           pc \in {"head", "durable", "derived"} =>
             audit \in {"before", "after", "recovered", "locked"},
           pc = "plan" => audit \in {"before", "recovered", "locked"},
           pc = "publish" \/ (audit = "locked" /\ pc \in {"head", "durable", "derived", "plan"})
             => lock' = "doctor",
           UNCHANGED command, command # None => lock' = "command",
           lock' \in {"absent", "command", "doctor", "stale", "unknown"},
           ws' = [file |-> ws'.file, loose |-> ws'.loose, links |-> ws'.links],
           ws'.file = [i \in Items |-> ws'.file[i]]
    PROVE  Shapes' /\ Locks'
<1>1. doctor'.pc = pc /\ doctor'.audit = audit
  BY DoingAt
<1>2. doctor' = [pc |-> doctor'.pc, audit |-> doctor'.audit, found |-> doctor'.found,
                 index |-> doctor'.index, config |-> doctor'.config,
                 report |-> doctor'.report, plan |-> doctor'.plan]
  BY DoingAt DEF Doing
<1>3. Shapes'
  BY <1>1, <1>2 DEF Inv, Shapes
<1> QED BY <1>1, <1>3 DEF Inv, Locks

\* Files, journal and command are as they were.
LEMMA FilesStay ==
    ASSUME Inv, UNCHANGED <<ws, journal, command>>, Shapes', Locks',
           Reported', Knows', Verdict', Planned'
    PROVE  Inv'
<1>1. Journals'
  BY JournalStays DEF Inv
<1>2. Indexes' /\ Commands'
  BY DEF Inv, Indexes, Commands
<1> QED BY <1>1, <1>2 DEF Inv

\* A move that leaves the files alone, to where nothing is known yet.
LEMMA MoveKeeps ==
    ASSUME Inv, UNCHANGED <<ws, journal, command>>,
           NEW pc, NEW audit, NEW found, NEW index, NEW config, NEW report, NEW plan,
           doctor' = Doing(pc, audit, found, index, config, report, plan),
           pc \in {"idle", "head", "settle", "unlock", "acquire"}, result' = None,
           pc = "head" => audit \in {"before", "after", "recovered", "locked"},
           pc = "head" /\ audit = "locked" => lock' = "doctor",
           command # None => lock' = "command",
           lock' \in {"absent", "command", "doctor", "stale", "unknown"}
    PROVE  Inv'
<1>1. /\ ws' = [file |-> ws'.file, loose |-> ws'.loose, links |-> ws'.links]
      /\ ws'.file = [i \in Items |-> ws'.file[i]]
  BY DEF Inv, Shapes
<1>2. Shapes' /\ Locks'
  BY <1>1, DoctorShape
<1>3. Reported' /\ Knows' /\ Verdict' /\ Planned'
  BY MoveOn
<1> QED BY <1>2, <1>3, FilesStay

LEMMA EndKept ==
    ASSUME Inv, UNCHANGED <<ws, journal, command>>, NEW report, NEW raised,
           Finish(report, raised),
           quiet /\ ~ raised => report \in Reports(Findings(ws', lock', journal')),
           command # None => lock' = "command",
           lock' \in {"absent", "command", "doctor", "stale", "unknown"}
    PROVE  Inv'
<1>1. /\ ws' = [file |-> ws'.file, loose |-> ws'.loose, links |-> ws'.links]
      /\ ws'.file = [i \in Items |-> ws'.file[i]]
  BY DEF Inv, Shapes
<1>2. doctor' = Doing("idle", "none", {}, None, None, {}, {})
  BY IdleIs DEF Finish
<1>3. Shapes' /\ Locks'
  BY <1>1, <1>2, DoctorShape
<1>4. Reported' /\ Knows' /\ Verdict' /\ Planned'
  BY FinishKeeps
<1> QED BY <1>3, <1>4, FilesStay

LEMMA AuditIs ==
    ASSUME NEW which, Audit(which)
    PROVE  /\ doctor' = Doing("head", which, {}, None, None, {}, {})
           /\ UNCHANGED result
BY StepIs DEF Audit

LEMMA RunKeeps ==
    ASSUME Inv, Run
    PROVE  Inv'
<1>1. /\ Step("head", "before", {}, {}) /\ result' = None
      /\ UNCHANGED <<ws, lock, journal, command>>
  BY DEF Run
<1>2. doctor' = Doing("head", "before", {}, None, None, {}, {})
  BY <1>1, StepIs
<1>3. /\ command # None => lock' = "command"
      /\ lock' \in {"absent", "command", "doctor", "stale", "unknown"}
  BY <1>1 DEF Inv, Locks, Shapes
<1> QED BY <1>1, <1>2, <1>3, MoveKeeps

\* What an audit ends with is what it has seen, if nothing else moved.
LEMMA ConcludeKeeps ==
    ASSUME Inv, doctor.pc \in {"head", "derived"}, NEW findings, Conclude(findings),
           UNCHANGED <<ws, lock, journal, command, quiet>>, Addressed(findings),
           quiet => findings = Seen(ws, lock, journal, doctor.audit = "locked")
    PROVE  Inv'
<1>1. PICK report \in Reports(findings) :
         IF doctor.audit = "after" THEN Finish(report, FALSE)
         ELSE Step("plan", doctor.audit, report, {}) /\ UNCHANGED result
  BY DEF Conclude
<1>2. /\ command # None => lock' = "command"
      /\ lock' \in {"absent", "command", "doctor", "stale", "unknown"}
      /\ doctor.audit = "locked" => lock' = "doctor"
      /\ doctor.audit \in {"before", "after", "recovered", "locked"}
  BY DEF Inv, Locks, Shapes
<1>3. CASE doctor.audit = "after"
  <2>1. Finish(report, FALSE)
    BY <1>1, <1>3
  <2>2. quiet => report \in Reports(Findings(ws', lock', journal'))
    <3>1. Seen(ws, lock, journal, FALSE) = Findings(ws, lock, journal)
      BY Zenon DEF Seen, Findings
    <3> QED BY <1>1, <1>3, <3>1
  <2> QED BY <1>2, <2>1, <2>2, EndKept
<1>4. CASE doctor.audit # "after"
  <2>1. doctor' = Doing("plan", doctor.audit, {}, None, None, report, {})
    BY <1>1, <1>4, StepIs
  <2>2. UNCHANGED result /\ result = None
    BY <1>1, <1>4, Unfinished
  <2>3. /\ doctor'.pc = "plan" /\ doctor'.audit = doctor.audit /\ doctor'.report = report
    BY <2>1, DoingAt
  <2>4. /\ ws' = [file |-> ws'.file, loose |-> ws'.loose, links |-> ws'.links]
        /\ ws'.file = [i \in Items |-> ws'.file[i]]
    BY DEF Inv, Shapes
  <2>5. Shapes' /\ Locks'
    BY <1>2, <1>4, <2>1, <2>4, DoctorShape
  <2>6. Reported'
    BY <1>1, <2>3, ReportAddressed DEF Reported
  <2>7. Knows'
    BY <1>1, <2>3 DEF Knows
  <2>8. Verdict' /\ Planned'
    BY <2>2, <2>3 DEF Verdict, Planned
  <2> QED BY <2>5, <2>6, <2>7, <2>8, FilesStay
<1> QED BY <1>3, <1>4

LEMMA ReadHeadKeeps ==
    ASSUME Inv, ReadHead
    PROVE  Inv'
<1> DEFINE locked == doctor.audit = "locked"
           head == Head(ws, lock, journal, locked)
<1>1. /\ doctor.pc = "head"
      /\ IF head.ends THEN Conclude(head.found)
         ELSE /\ doctor' = [doctor EXCEPT !.pc = "durable", !.found = head.found]
              /\ UNCHANGED result
      /\ UNCHANGED <<ws, lock, journal, command, quiet, used>>
  BY DEF ReadHead
<1>2. Addressed(head.found)
  BY HeadAddressed
<1>3. CASE head.ends
  <2>1. head.found = Seen(ws, lock, journal, locked)
    BY <1>3 DEF Seen
  <2>2. Conclude(head.found)
    BY <1>1, <1>3
  <2> HIDE DEF head
  <2> QED BY <1>1, <1>2, <2>1, <2>2, ConcludeKeeps
<1>4. CASE ~ head.ends
  <2>1. doctor' = Doing("durable", doctor.audit, head.found, doctor.index, doctor.config,
                        doctor.report, doctor.plan)
    <3> HIDE DEF head
    <3> QED BY <1>1, <1>4, DurableIs DEF Inv
  <2>2. UNCHANGED result /\ result = None
    BY <1>1, <1>4, Unfinished
  <2>3. doctor'.pc = "durable" /\ doctor'.audit = doctor.audit /\ doctor'.found = head.found
    BY <2>1, DoingAt
  <2>4. /\ command # None => lock' = "command"
        /\ lock' \in {"absent", "command", "doctor", "stale", "unknown"}
        /\ doctor.audit = "locked" => lock' = "doctor"
        /\ doctor.audit \in {"before", "after", "recovered", "locked"}
        /\ ws' = [file |-> ws'.file, loose |-> ws'.loose, links |-> ws'.links]
        /\ ws'.file = [i \in Items |-> ws'.file[i]]
    BY <1>1 DEF Inv, Locks, Shapes
  <2>5. Shapes' /\ Locks'
    <3> HIDE DEF head
    <3> QED BY <1>1, <2>1, <2>4, DoctorShape
  <2>6. Reported' /\ Knows'
    <3>1. UNCHANGED <<ws, lock, journal, quiet>>
      BY <1>1
    <3> QED BY <1>2, <1>4, <2>3, <3>1 DEF Reported, Knows
  <2>7. Verdict' /\ Planned'
    BY <2>2, <2>3 DEF Verdict, Planned
  <2> QED BY <1>1, <2>5, <2>6, <2>7, FilesStay
<1> QED BY <1>3, <1>4

LEMMA ReadDurableKeeps ==
    ASSUME Inv, ReadDurable
    PROVE  Inv'
<1> DEFINE found == doctor.found \cup DurableFindings(ws)
<1>1. /\ doctor.pc = "durable"
      /\ doctor' = [doctor EXCEPT !.pc = "derived", !.found = found,
                                  !.index = IndexOf(ws), !.config = ConfigOf(ws)]
      /\ UNCHANGED <<ws, lock, journal, command, result, quiet, used>>
  BY DEF ReadDurable
<1>2. Addressed(found)
  BY <1>1, DurableAddressed, UnionAddressed DEF Inv, Reported
<1>3. quiet => ~ Head(ws, lock, journal, doctor.audit = "locked").ends
               /\ doctor.found = Head(ws, lock, journal, doctor.audit = "locked").found
  BY <1>1 DEF Inv, Knows
<1>4. quiet => found = Head(ws, lock, journal, doctor.audit = "locked").found
                         \cup DurableFindings(ws)
  BY <1>3
<1> HIDE DEF found
<1>5. doctor' = Doing("derived", doctor.audit, found, IndexOf(ws), ConfigOf(ws),
                      doctor.report, doctor.plan)
  BY <1>1, DerivedIs DEF Inv
<1>6. UNCHANGED result /\ result = None
  BY <1>1, Unfinished
<1>7. /\ doctor'.pc = "derived" /\ doctor'.audit = doctor.audit /\ doctor'.found = found
      /\ doctor'.index = IndexOf(ws) /\ doctor'.config = ConfigOf(ws)
  BY <1>5, DoingAt
<1>8. /\ command # None => lock' = "command"
      /\ lock' \in {"absent", "command", "doctor", "stale", "unknown"}
      /\ doctor.audit = "locked" => lock' = "doctor"
      /\ doctor.audit \in {"before", "after", "recovered", "locked"}
      /\ ws' = [file |-> ws'.file, loose |-> ws'.loose, links |-> ws'.links]
      /\ ws'.file = [i \in Items |-> ws'.file[i]]
  BY <1>1 DEF Inv, Locks, Shapes
<1>9. Shapes' /\ Locks'
  BY <1>1, <1>5, <1>8, DoctorShape
<1>10. Reported' /\ Knows'
  BY <1>1, <1>2, <1>3, <1>4, <1>7 DEF Reported, Knows
<1>11. Verdict' /\ Planned'
  BY <1>6, <1>7 DEF Verdict, Planned
<1> QED BY <1>1, <1>9, <1>10, <1>11, FilesStay

LEMMA ReadDerivedKeeps ==
    ASSUME Inv, ReadDerived
    PROVE  Inv'
<1> DEFINE f == DerivedFindings(ws, doctor.found, doctor.index, doctor.config)
<1>1. /\ doctor.pc = "derived" /\ Conclude(f)
      /\ UNCHANGED <<ws, lock, journal, command, quiet, used>>
  BY DEF ReadDerived
<1>2. Addressed(f)
  BY <1>1, DerivedAddressed DEF Inv, Reported
<1>3. quiet => f = Seen(ws, lock, journal, doctor.audit = "locked")
  <2>1. quiet =>
          /\ ~ Head(ws, lock, journal, doctor.audit = "locked").ends
          /\ doctor.found = Head(ws, lock, journal, doctor.audit = "locked").found
                              \cup DurableFindings(ws)
          /\ doctor.index = IndexOf(ws) /\ doctor.config = ConfigOf(ws)
    BY <1>1 DEF Inv, Knows
  <2> QED BY <2>1 DEF Seen
<1> HIDE DEF f
<1> QED BY <1>1, <1>2, <1>3, ConcludeKeeps

LEMMA LockStays ==
    ASSUME Inv
    PROVE  /\ command # None => lock = "command"
           /\ lock \in {"absent", "command", "doctor", "stale", "unknown"}
           /\ ws = [file |-> ws.file, loose |-> ws.loose, links |-> ws.links]
           /\ ws.file = [i \in Items |-> ws.file[i]]
BY DEF Inv, Locks, Shapes

LEMMA MakePlanKeeps ==
    ASSUME Inv, MakePlan
    PROVE  Inv'
<1> DEFINE plan == Plan(ws, doctor.report)
<1>1. /\ doctor.pc = "plan" /\ doctor.audit # "locked"
      /\ \/ plan # {} /\ GoOn(plan) /\ UNCHANGED result
         \/ plan = {} /\ doctor.audit = "before" /\ Audit("after")
         \/ plan = {} /\ doctor.audit = "recovered" /\ Finish(doctor.report, FALSE)
      /\ UNCHANGED <<ws, lock, journal, command, quiet, used>>
  BY DEF MakePlan
<1> HIDE DEF plan
<1>2. result = None
  BY <1>1, Unfinished
<1>3. /\ command # None => lock' = "command"
      /\ lock' \in {"absent", "command", "doctor", "stale", "unknown"}
  BY <1>1, LockStays
<1>4. CASE GoOn(plan) /\ UNCHANGED result
  <2>1. \/ Step("settle", doctor.audit, {}, plan) \/ Step("unlock", doctor.audit, {}, plan)
    BY <1>4 DEF GoOn
  <2>2. \/ doctor' = Doing("settle", doctor.audit, {}, None, None, {}, plan)
        \/ doctor' = Doing("unlock", doctor.audit, {}, None, None, {}, plan)
    BY <2>1, StepIs
  <2> QED BY <1>1, <1>2, <1>3, <1>4, <2>2, MoveKeeps
<1>5. CASE Audit("after")
  <2>1. doctor' = Doing("head", "after", {}, None, None, {}, {}) /\ UNCHANGED result
    BY <1>5, AuditIs
  <2> QED BY <1>1, <1>2, <1>3, <2>1, MoveKeeps
<1>6. CASE Finish(doctor.report, FALSE)
  <2>1. quiet => doctor.report \in Reports(Seen(ws, lock, journal, FALSE))
    BY <1>1 DEF Inv, Knows
  <2>2. Seen(ws, lock, journal, FALSE) = Findings(ws, lock, journal)
    BY Zenon DEF Seen, Findings
  <2>3. quiet => doctor.report \in Reports(Findings(ws', lock', journal'))
    BY <1>1, <2>1, <2>2
  <2> QED BY <1>1, <1>3, <1>6, <2>3, EndKept
<1> QED BY <1>1, <1>4, <1>5, <1>6

LEMMA MakeLockedPlanKeeps ==
    ASSUME Inv, MakeLockedPlan
    PROVE  Inv'
<1> DEFINE plan == Plan(ws, doctor.report)
<1>1. /\ doctor.pc = "plan" /\ doctor.audit = "locked"
      /\ \/ plan = {} /\ lock' = "absent" /\ Audit("after")
         \/ /\ Settles(plan) /\ lock' = "absent"
            /\ Step("settle", "locked", {}, plan) /\ UNCHANGED result
         \/ /\ plan # {} /\ ~ Settles(plan)
            /\ Step("publish", "locked", {}, plan) /\ UNCHANGED <<lock, result>>
      /\ UNCHANGED <<ws, journal, command, quiet, used>>
  BY DEF MakeLockedPlan
<1>2. ~ Settles(plan) => \A a \in plan : Proved(ws, a)
  BY <1>1, PlanProved DEF Inv, Reported
<1>8. plan # {} => ~ Blocked(doctor.report)
  BY DEF Plan
<1> HIDE DEF plan
<1>3. result = None
  BY <1>1, Unfinished
<1>4. lock = "doctor" /\ command = None
  BY <1>1 DEF Inv, Locks
<1>5. CASE lock' = "absent" /\ Audit("after")
  <2>1. doctor' = Doing("head", "after", {}, None, None, {}, {}) /\ UNCHANGED result
    BY <1>5, AuditIs
  <2> QED BY <1>1, <1>3, <1>4, <1>5, <2>1, MoveKeeps
<1>6. CASE lock' = "absent" /\ Step("settle", "locked", {}, plan) /\ UNCHANGED result
  <2>1. doctor' = Doing("settle", "locked", {}, None, None, {}, plan)
    BY <1>6, StepIs
  <2> QED BY <1>1, <1>3, <1>4, <1>6, <2>1, MoveKeeps
<1>7. CASE /\ plan # {} /\ ~ Settles(plan)
           /\ Step("publish", "locked", {}, plan) /\ UNCHANGED <<lock, result>>
  <2>1. doctor' = Doing("publish", "locked", {}, None, None, {}, plan)
    BY <1>7, StepIs
  <2>2. doctor'.pc = "publish" /\ doctor'.plan = plan
    BY <2>1, DoingAt
  <2>3. Shapes' /\ Locks'
    BY <1>1, <1>4, <1>7, <2>1, LockStays, DoctorShape
  <2>4. Planned'
    BY <1>1, <1>2, <1>7, <2>2 DEF Planned
  <2>5. Reported' /\ Verdict'
    BY <1>3, <1>7, <2>2 DEF Reported, Verdict
  <2>6. quiet => doctor.report \in Reports(Seen(ws, lock, journal, TRUE))
    BY <1>1 DEF Inv, Knows
  <2>7. Knows'
    BY <1>1, <1>7, <1>8, <2>2, <2>6 DEF Knows
  <2> QED BY <1>1, <2>3, <2>4, <2>5, <2>7, FilesStay
<1> QED BY <1>1, <1>5, <1>6, <1>7

LEMMA RemoveStaleLockKeeps ==
    ASSUME Inv, RemoveStaleLock
    PROVE  Inv'
<1>1. /\ doctor.pc = "unlock"
      /\ lock' = lock \/ (lock = "stale" /\ lock' = "absent")
      /\ \/ doctor' = [doctor EXCEPT !.pc = "acquire"] /\ UNCHANGED result
         \/ Audit("after")
      /\ UNCHANGED <<ws, journal, command, quiet, used>>
  BY DEF RemoveStaleLock
<1>2. result = None
  BY <1>1, Unfinished
<1>3. /\ command # None => lock' = "command"
      /\ lock' \in {"absent", "command", "doctor", "stale", "unknown"}
  BY <1>1, LockStays
<1>4. CASE doctor' = [doctor EXCEPT !.pc = "acquire"] /\ UNCHANGED result
  <2>1. doctor' = Doing("acquire", doctor.audit, doctor.found, doctor.index, doctor.config,
                        doctor.report, doctor.plan)
    BY <1>4, AcquireIs DEF Inv
  <2> QED BY <1>1, <1>2, <1>3, <1>4, <2>1, MoveKeeps
<1>5. CASE Audit("after")
  <2>1. doctor' = Doing("head", "after", {}, None, None, {}, {}) /\ UNCHANGED result
    BY <1>5, AuditIs
  <2> QED BY <1>1, <1>2, <1>3, <2>1, MoveKeeps
<1> QED BY <1>1, <1>4, <1>5

LEMMA AcquireKeeps ==
    ASSUME Inv, Acquire
    PROVE  Inv'
<1>1. /\ doctor.pc = "acquire"
      /\ \/ lock = "absent" /\ lock' = "doctor" /\ Audit("locked")
         \/ Finish({}, TRUE) /\ UNCHANGED lock
      /\ UNCHANGED <<ws, journal, command, quiet, used>>
  BY DEF Acquire
<1>2. CASE lock = "absent" /\ lock' = "doctor" /\ Audit("locked")
  <2>1. doctor' = Doing("head", "locked", {}, None, None, {}, {}) /\ UNCHANGED result
    BY <1>2, AuditIs
  <2>2. result = None /\ command = None
    BY <1>1, <1>2, Unfinished, LockStays
  <2> QED BY <1>1, <1>2, <2>1, <2>2, MoveKeeps
<1>3. CASE Finish({}, TRUE) /\ UNCHANGED lock
  BY <1>1, <1>3, LockStays, EndKept
<1> QED BY <1>1, <1>2, <1>3

-------------------------------------------------------------------------------
(***************************************************************************)
(* A repair generation.                                                    *)
(***************************************************************************)
LEMMA NextGeneration ==
    ASSUME NEW index, Consistent(index)
    PROVE  Consistent([index EXCEPT !.gen = @ + 1])
<1> DEFINE next == [index EXCEPT !.gen = index.gen + 1]
<1>1. index = [gen |-> index.gen, rev |-> index.rev, proofs |-> index.proofs,
               views |-> index.views, model |-> index.model]
  BY DEF Consistent, NewIndex
<1>3. next = [gen |-> index.gen + 1, rev |-> index.rev, proofs |-> index.proofs,
              views |-> index.views, model |-> index.model]
  BY <1>1
<1> HIDE DEF next
<1>4. /\ next.gen = index.gen + 1 /\ next.rev = index.rev /\ next.proofs = index.proofs
      /\ next.views = index.views /\ next.model = index.model
      /\ next = NewIndex(next.gen, next.rev, next.proofs, next.views, next.model)
  BY <1>3 DEF NewIndex
<1>5. Indexed(next) = Indexed(index)
  BY <1>4 DEF Indexed
<1>6. /\ next.gen \in Nat /\ next.rev \in [Records -> Nat] /\ next.model \in BOOLEAN
      /\ next.proofs = None \/ next.proofs = [i \in Inputs |-> next.proofs[i]]
  BY <1>4 DEF Consistent
<1>7. next.views =
        [p \in {PeriodOf[r] : r \in Indexed(next)} |->
           [rows |-> {<<r, next.rev[r]>> : r \in {s \in Indexed(next) : PeriodOf[s] = p}},
            inputs |-> next.proofs, answer |-> next.model]]
  BY <1>4, <1>5 DEF Consistent
<1>8. Consistent(next)
  BY <1>4, <1>6, <1>7 DEF Consistent
<1> QED BY <1>8 DEF next

LEMMA FileReplaced ==
    ASSUME NEW f, NEW l, NEW k, NEW a, NEW n
    PROVE  [[file |-> f, loose |-> l, links |-> k] EXCEPT !.file[a] = n]
             = [file |-> [f EXCEPT ![a] = n], loose |-> l, links |-> k]
<1> DEFINE g == [f EXCEPT ![a] = n]
           w == [file |-> f, loose |-> l, links |-> k]
<1>1. [w EXCEPT !.file[a] = n] = [w EXCEPT !.file = g]
  OBVIOUS
<1> HIDE DEF g
<1>2. [w EXCEPT !.file = g] = [file |-> g, loose |-> l, links |-> k]
  OBVIOUS
<1> QED BY <1>1, <1>2 DEF g

LEMMA PutBack ==
    ASSUME NEW w, w = [file |-> w.file, loose |-> w.loose, links |-> w.links], NEW a, NEW n
    PROVE  [w EXCEPT !.file[a] = n]
             = [file |-> [w.file EXCEPT ![a] = n], loose |-> w.loose, links |-> w.links]
<1>1. [w EXCEPT !.file[a] = n]
        = [[file |-> w.file, loose |-> w.loose, links |-> w.links] EXCEPT !.file[a] = n]
  BY Zenon
<1> QED BY <1>1, FileReplaced

\* Under the lock a repair installs the next generation of the index in place,
\* leaves the records alone, and writes what its plan has proved.
LEMMA RepairedIs ==
    ASSUME Inv, doctor.pc = "publish", Publishable
    PROVE  LET u == Repaired(ws)
           IN  /\ u = [file |-> u.file, loose |-> u.loose, links |-> u.links]
               /\ u.file = [i \in Items |-> u.file[i]]
               /\ u.file[Index] = [ws.file[Index] EXCEPT !.gen = @ + 1]
               /\ Consistent(u.file[Index]) /\ Consistent(ws.file[Index])
               /\ \A r \in Records :
                    /\ u.file[Record(r)] = ws.file[Record(r)]
                    /\ u.file[Summary(r)] \in {ws.file[Summary(r)], ws.file[Record(r)]}
               /\ \A i \in Inputs \cup {ViewOf(p) : p \in Periods} :
                    \/ u.file[i] = ws.file[i]
                    \/ Action("set_private_mode", i, u.file[i]) \in doctor.plan
                    \/ \E p \in Registered(ws.file[Index]) :
                          i = ViewOf(p) /\ u.file[i] = ws.file[Index].views[p]
<1> DEFINE targets == FileTargets(doctor.plan) \cup DirectoryTargets(doctor.plan)
           file == [i \in Items |-> IF \E a \in targets : a.path = i
                                    THEN (CHOOSE a \in targets : a.path = i).content
                                    ELSE ws.file[i]]
           loose == ws.loose \ {a.path : a \in doctor.plan}
           next == [IndexOf(ws) EXCEPT !.gen = @ + 1]
           fin == [file EXCEPT ![Index] = next]
           u == Repaired(ws)
<1>1. Applied(ws, doctor.plan) = [file |-> file, loose |-> loose, links |-> ws.links]
  <2>1. Applied(ws, doctor.plan) = [ws EXCEPT !.file = file, !.loose = loose]
    BY Zenon DEF Applied
  <2>2. Applied(ws, doctor.plan)
          = [[file |-> ws.file, loose |-> ws.loose, links |-> ws.links]
               EXCEPT !.file = file, !.loose = loose]
    BY <2>1, LockStays, Zenon
  <2> QED BY <2>2, Workspace, Zenon
<1>2. u = [Applied(ws, doctor.plan) EXCEPT !.file[Index] = next]
  BY Zenon DEF Repaired
<1> HIDE DEF targets
<1>3. /\ file = [i \in Items |-> file[i]]
      /\ \A i \in Items : file[i] = IF \E a \in targets : a.path = i
                                    THEN (CHOOSE a \in targets : a.path = i).content
                                    ELSE ws.file[i]
  OBVIOUS
<1> HIDE DEF file, loose, next
<1>4. u = [file |-> fin, loose |-> loose, links |-> ws.links]
  <2>1. u = [[file |-> file, loose |-> loose, links |-> ws.links] EXCEPT !.file[Index] = next]
    BY <1>1, <1>2, Zenon
  <2> QED BY <2>1, FileReplaced, Zenon
<1>5. /\ fin = [i \in Items |-> fin[i]]
      /\ \A i \in Items : fin[i] = IF i = Index THEN next ELSE file[i]
  BY <1>3, Replacing, Zenon
<1> HIDE DEF fin
<1>6. u.file = fin /\ u = [file |-> u.file, loose |-> u.loose, links |-> u.links]
  <2> HIDE DEF u
  <2> QED BY <1>4
<1>7. IndexOf(ws) = ws.file[Index] /\ Consistent(ws.file[Index])
  BY ReadableIndex DEF Inv, Publishable
<1>8. fin[Index] = [ws.file[Index] EXCEPT !.gen = @ + 1] /\ Consistent(fin[Index])
  <2>1. fin[Index] = next
    BY <1>5, ItemsAre
  <2>2. next = [ws.file[Index] EXCEPT !.gen = @ + 1]
    BY <1>7, Zenon DEF next
  <2> QED BY <1>7, <2>1, <2>2, NextGeneration
<1>9. ASSUME NEW i \in Items \ {Index}, i \notin Directories
      PROVE  \/ fin[i] = ws.file[i]
             \/ \E a \in doctor.plan :
                  /\ Proved(ws, a) /\ a.path = i /\ a.content = fin[i]
                  /\ a.kind \in {"set_private_mode", "rebuild_summary", "rebuild_generated_view"}
  <2>1. fin[i] = file[i]
    BY <1>5
  <2>2. CASE \E a \in targets : a.path = i
    <3> DEFINE b == CHOOSE a \in targets : a.path = i
    <3>1. b \in targets /\ b.path = i
      BY <2>2
    <3>2. fin[i] = b.content
      BY <1>3, <2>1, <2>2
    <3>3. b \in doctor.plan /\ b.kind # "remove_stale_lock"
      BY <1>9, <3>1 DEF targets, FileTargets, DirectoryTargets
    <3>4. Proved(ws, b)
      BY <3>3 DEF Inv, Planned
    <3>5. b.kind \in {"set_private_mode", "rebuild_summary", "rebuild_generated_view"}
      BY <1>9, <3>1, <3>3, <3>4 DEF Proved
    <3> QED BY <3>1, <3>2, <3>3, <3>4, <3>5
  <2>3. CASE ~ \E a \in targets : a.path = i
    BY <1>3, <2>1, <2>3
  <2> QED BY <2>2, <2>3
<1>10. ASSUME NEW r \in Records
       PROVE  /\ fin[Record(r)] = ws.file[Record(r)]
              /\ fin[Summary(r)] \in {ws.file[Summary(r)], ws.file[Record(r)]}
  <2>1. /\ Record(r) \in Items \ {Index} /\ Record(r) \notin Directories
        /\ Summary(r) \in Items \ {Index} /\ Summary(r) \notin Directories
    BY ItemsAre, Names DEF Directories
  <2>2. fin[Record(r)] = ws.file[Record(r)]
    <3> SUFFICES ASSUME NEW a, Proved(ws, a), a.path = Record(r), a.content = fin[Record(r)],
                        a.kind \in {"set_private_mode", "rebuild_summary",
                                    "rebuild_generated_view"}
                 PROVE  fin[Record(r)] = ws.file[Record(r)]
      BY <1>9, <2>1
    <3>1. a.kind # "rebuild_summary" /\ a.kind # "rebuild_generated_view"
      BY Names DEF Proved
    <3> QED BY <3>1 DEF Proved
  <2>3. fin[Summary(r)] \in {ws.file[Summary(r)], ws.file[Record(r)]}
    <3> SUFFICES ASSUME NEW a, Proved(ws, a), a.path = Summary(r), a.content = fin[Summary(r)],
                        a.kind \in {"set_private_mode", "rebuild_summary",
                                    "rebuild_generated_view"}
                 PROVE  fin[Summary(r)] \in {ws.file[Summary(r)], ws.file[Record(r)]}
      BY <1>9, <2>1
    <3>1. a.kind # "rebuild_generated_view"
      BY Names DEF Proved
    <3>2. a.kind = "rebuild_summary" => a.content = ws.file[Record(r)]
      <4> SUFFICES ASSUME a.kind = "rebuild_summary" PROVE a.content = ws.file[Record(r)]
        OBVIOUS
      <4>1. PICK q \in Records : a.path = Summary(q) /\ a.content = ws.file[Record(q)]
        BY DEF Proved
      <4>2. q = r
        <5>1. Summary(q)[2] = q /\ Summary(r)[2] = r
          BY Names
        <5>2. Summary(q) = Summary(r)
          BY <4>1
        <5> QED BY <5>1, <5>2
      <4> QED BY <4>1, <4>2
    <3> QED BY <3>1, <3>2 DEF Proved
  <2> QED BY <2>2, <2>3
<1>11. ASSUME NEW i \in Inputs \cup {ViewOf(p) : p \in Periods}
       PROVE  \/ fin[i] = ws.file[i]
              \/ Action("set_private_mode", i, fin[i]) \in doctor.plan
              \/ \E p \in Registered(ws.file[Index]) :
                    i = ViewOf(p) /\ fin[i] = ws.file[Index].views[p]
  <2>1. i \in Items \ {Index} /\ i \notin Directories
    BY Names DEF Inputs, Items, Directories
  <2> SUFFICES ASSUME NEW a \in doctor.plan, Proved(ws, a), a.path = i, a.content = fin[i],
                      a.kind \in {"set_private_mode", "rebuild_summary", "rebuild_generated_view"}
               PROVE  \/ Action("set_private_mode", i, fin[i]) \in doctor.plan
                      \/ \E p \in Registered(ws.file[Index]) :
                            i = ViewOf(p) /\ fin[i] = ws.file[Index].views[p]
    BY <1>9, <2>1
  <2>2. a.kind # "rebuild_summary"
    BY Names DEF Proved, Inputs
  <2>3. CASE a.kind = "set_private_mode"
    BY <2>3 DEF Proved
  <2>4. CASE a.kind = "rebuild_generated_view"
    BY <2>4 DEF Proved
  <2> QED BY <2>2, <2>3, <2>4
<1> HIDE DEF u
<1> QED BY <1>5, <1>6, <1>7, <1>8, <1>10, <1>11 DEF u

\* A generation with the records as they are keeps every summary with a record.
LEMMA StaySummarized ==
    ASSUME NEW old, NEW new, Summarized(old),
           \A r \in Records :
              /\ new[Record(r)] = old[Record(r)]
              /\ new[Summary(r)] \in {old[Summary(r)], old[Record(r)]}
    PROVE  Summarized(new)
BY DEF Summarized

LEMMA PublishKeeps ==
    ASSUME Inv, Publish
    PROVE  Inv'
<1>1. /\ doctor.pc = "publish" /\ lock' = "absent"
      /\ IF Publishable THEN ws' = Repaired(ws) /\ Audit("after")
         ELSE Finish({}, TRUE) /\ UNCHANGED ws
      /\ UNCHANGED <<journal, command, quiet, used>>
  BY DEF Publish
<1>2. command = None /\ result = None
  BY <1>1, Unfinished DEF Inv, Locks
<1>3. CASE ~ Publishable
  BY <1>1, <1>2, <1>3, EndKept
<1>4. CASE Publishable
  <2>1. ws' = Repaired(ws) /\ doctor' = Doing("head", "after", {}, None, None, {}, {})
        /\ UNCHANGED result
    BY <1>1, <1>4, AuditIs
  <2>2. /\ ws' = [file |-> ws'.file, loose |-> ws'.loose, links |-> ws'.links]
        /\ ws'.file = [i \in Items |-> ws'.file[i]]
        /\ Consistent(ws'.file[Index])
        /\ \A r \in Records :
             /\ ws'.file[Record(r)] = ws.file[Record(r)]
             /\ ws'.file[Summary(r)] \in {ws.file[Summary(r)], ws.file[Record(r)]}
    BY <1>1, <1>4, <2>1, RepairedIs
  <2>3. Shapes' /\ Locks'
    BY <1>1, <1>2, <2>1, <2>2, DoctorShape
  <2>4. Indexes'
    BY <2>2, StaySummarized DEF Inv, Indexes, Acceptable
  <2>5. Journals'
    BY <1>1, <2>2, JournalStays DEF Inv, There
  <2>6. Commands'
    BY <1>1, <1>2 DEF Commands
  <2>7. Reported' /\ Knows' /\ Verdict' /\ Planned'
    BY <1>2, <2>1, MoveOn
  <2> QED BY <2>3, <2>4, <2>5, <2>6, <2>7 DEF Inv
<1> QED BY <1>3, <1>4

\* Either side of a journal is a generation.
LEMMA SettledIs ==
    ASSUME Shapes, Indexes, Journals, journal # None
    PROVE  /\ Settled = [file |-> Settled.file, loose |-> Settled.loose, links |-> Settled.links]
           /\ Settled.file = [i \in Items |-> Settled.file[i]]
           /\ Acceptable(Settled.file[Index]) /\ Summarized(Settled.file)
<1> DEFINE D == DOMAIN journal.new
           new == Winner(ws, journal) = "new"
           file == [i \in Items |-> IF i \notin D THEN ws.file[i]
                                    ELSE IF new THEN journal.new[i] ELSE journal.old[i]]
           fin == IF new THEN file ELSE Interrupted(file, journal.reserved)
           loose == ws.loose \ D
<1>1. Settled = [file |-> fin, loose |-> loose, links |-> ws.links]
  <2>1. Settled = [ws EXCEPT !.file = fin, !.loose = loose]
    BY Zenon DEF Settled
  <2>2. ws = [file |-> ws.file, loose |-> ws.loose, links |-> ws.links]
    BY DEF Shapes
  <2>3. Settled = [[file |-> ws.file, loose |-> ws.loose, links |-> ws.links]
                     EXCEPT !.file = fin, !.loose = loose]
    BY <2>1, <2>2, Zenon
  <2> QED BY <2>3, Workspace, Zenon
<1> HIDE DEF new
<1>2. /\ file = [i \in Items |-> file[i]]
      /\ \A i \in Items : file[i] = IF i \notin D THEN ws.file[i]
                                    ELSE IF new THEN journal.new[i] ELSE journal.old[i]
  OBVIOUS
<1> HIDE DEF file, loose
<1>3. /\ Index \in D => Acceptable(journal.old[Index]) /\ Acceptable(journal.new[Index])
      /\ \A r \in Records :
           /\ Record(r) \in D => journal.new[Record(r)] # Missing
           /\ Record(r) \in D /\ journal.old[Record(r)] = Missing =>
                Summary(r) \in D /\ journal.old[Summary(r)] = Missing
           /\ Summary(r) \in D /\ Record(r) \notin D => ws.file[Record(r)] # Missing
  BY DEF Journals, There
<1> HIDE DEF D
<1>4. Acceptable(file[Index])
  <2>1. Acceptable(ws.file[Index])
    BY DEF Indexes
  <2> QED BY <1>2, <1>3, <2>1, ItemsAre
<1>5. Summarized(file)
  <2> SUFFICES ASSUME NEW r \in Records, file[Record(r)] = Missing
               PROVE  file[Summary(r)] = Missing
    BY DEF Summarized
  <2>1. Record(r) \in Items /\ Summary(r) \in Items
    BY ItemsAre
  <2>2. ws.file[Record(r)] = Missing => ws.file[Summary(r)] = Missing
    BY DEF Indexes, Summarized
  <2> QED BY <1>2, <1>3, <2>1, <2>2
<1>6. /\ fin = [i \in Items |-> fin[i]] /\ Acceptable(fin[Index]) /\ Summarized(fin)
  <2>1. CASE new
    BY <1>2, <1>4, <1>5, <2>1
  <2>2. CASE ~ new
    <3> DEFINE g == Interrupted(file, journal.reserved)
    <3> HIDE DEF fin
    <3>0. file = [i \in Items |-> file[i]]
      BY <1>2
    <3>1. /\ g = [i \in Items |-> g[i]] /\ g[Index] = file[Index]
          /\ \A q \in Records :
               /\ g[Summary(q)] = file[Summary(q)]
               /\ \/ g[Record(q)] = file[Record(q)]
                  \/ file[Record(q)] = Missing /\ g[Record(q)] = 0
          /\ journal.reserved \in Records => g[Record(journal.reserved)] # Missing
      BY <3>0, InterruptedIs, Zenon
    <3>2. fin = g
      BY <2>2 DEF fin
    <3> HIDE DEF g
    <3>3. Summarized(g)
      BY <1>5, <3>1, AuditAssumption DEF Summarized
    <3> QED BY <1>4, <3>1, <3>2, <3>3
  <2> QED BY <2>1, <2>2
<1> HIDE DEF fin
<1>7. Settled.file = fin /\ Settled.loose = loose /\ Settled.links = ws.links
  BY <1>1
<1> QED BY <1>1, <1>6, <1>7

LEMMA SettleKeeps ==
    ASSUME Inv, Settle
    PROVE  Inv'
<1>1. /\ doctor.pc = "settle" /\ UNCHANGED command /\ result = None
  BY Unfinished DEF Settle
<1>2. CASE lock \in {"command", "unknown"} \/ journal = None
  <2>1. /\ Audit("after") /\ lock' = IF lock = "stale" THEN "absent" ELSE lock
        /\ UNCHANGED <<ws, journal>>
    BY <1>2 DEF Settle
  <2>2. doctor' = Doing("head", "after", {}, None, None, {}, {}) /\ UNCHANGED result
    BY <2>1, AuditIs
  <2>3. /\ command # None => lock' = "command"
        /\ lock' \in {"absent", "command", "doctor", "stale", "unknown"}
    BY <2>1, LockStays
  <2> QED BY <1>1, <2>1, <2>2, <2>3, MoveKeeps
<1>3. CASE ~ (lock \in {"command", "unknown"} \/ journal = None)
  <2>1. /\ lock' = "absent"
        /\ IF Settleable(ws, journal)
           THEN ws' = Settled /\ DropJournal /\ Audit("recovered")
           ELSE UNCHANGED <<ws, journal>> /\ Audit("after")
    BY <1>3 DEF Settle
  <2>2. command = None /\ journal # None
    BY <1>3, LockStays
  <2>3. CASE ~ Settleable(ws, journal)
    <3>1. doctor' = Doing("head", "after", {}, None, None, {}, {}) /\ UNCHANGED result
          /\ UNCHANGED <<ws, journal>>
      BY <2>1, <2>3, AuditIs
    <3> QED BY <1>1, <2>1, <2>2, <3>1, MoveKeeps
  <2>4. CASE Settleable(ws, journal)
    <3>1. doctor' = Doing("head", "recovered", {}, None, None, {}, {}) /\ UNCHANGED result
          /\ ws' = Settled /\ journal' = None
      BY <2>1, <2>4, AuditIs DEF DropJournal
    <3>2. /\ ws' = [file |-> ws'.file, loose |-> ws'.loose, links |-> ws'.links]
          /\ ws'.file = [i \in Items |-> ws'.file[i]]
          /\ Acceptable(ws'.file[Index]) /\ Summarized(ws'.file)
      BY <2>2, <3>1, SettledIs DEF Inv
    <3>3. Shapes' /\ Locks'
      BY <1>1, <2>1, <2>2, <3>1, <3>2, DoctorShape
    <3>4. Indexes' /\ Journals' /\ Commands'
      BY <1>1, <2>2, <3>1, <3>2 DEF Indexes, Journals, Commands
    <3>5. Reported' /\ Knows' /\ Verdict' /\ Planned'
      BY <1>1, <3>1, MoveOn
    <3> QED BY <3>3, <3>4, <3>5 DEF Inv
  <2> QED BY <2>3, <2>4
<1> QED BY <1>2, <1>3

\* A stop may leave any part of the repair generation behind, and its journal.
LEMMA DoctorStopKeeps ==
    ASSUME Inv, DoctorStop
    PROVE  Inv'
<1>1. /\ doctor.pc # "idle" /\ lock' = IF lock = "doctor" THEN "stale" ELSE lock
      /\ doctor' = Idle /\ result' = None /\ UNCHANGED command
      /\ \/ UNCHANGED <<ws, journal>>
         \/ /\ doctor.pc = "publish" /\ Publishable
            /\ journal' = Publishing(ws.file, Repaired(ws).file, None)
            /\ ws' \in {ws, Repaired(ws),
                        [Repaired(ws) EXCEPT !.file[Index] = ws.file[Index]]}
  BY Zenon DEF DoctorStop
<1>2. doctor' = Doing("idle", "none", {}, None, None, {}, {})
  BY <1>1, IdleIs
<1>3. /\ command # None => lock' = "command"
      /\ lock' \in {"absent", "command", "doctor", "stale", "unknown"}
  BY <1>1, LockStays
<1>4. CASE UNCHANGED <<ws, journal>>
  BY <1>1, <1>2, <1>3, <1>4, MoveKeeps
<1>5. CASE /\ doctor.pc = "publish" /\ Publishable
           /\ journal' = Publishing(ws.file, Repaired(ws).file, None)
           /\ ws' \in {ws, Repaired(ws),
                       [Repaired(ws) EXCEPT !.file[Index] = ws.file[Index]]}
  <2> DEFINE u == Repaired(ws)
             half == [u.file EXCEPT ![Index] = ws.file[Index]]
  <2>1. /\ u = [file |-> u.file, loose |-> u.loose, links |-> u.links]
        /\ u.file = [i \in Items |-> u.file[i]]
        /\ Consistent(u.file[Index]) /\ Consistent(ws.file[Index])
        /\ \A r \in Records :
             /\ u.file[Record(r)] = ws.file[Record(r)]
             /\ u.file[Summary(r)] \in {ws.file[Summary(r)], ws.file[Record(r)]}
    BY <1>5, RepairedIs
  <2>2. /\ journal' = Publishing(ws.file, u.file, None)
        /\ ws' \in {ws, u, [u EXCEPT !.file[Index] = ws.file[Index]]}
    BY <1>5
  <2> HIDE DEF u
  <2>3. [u EXCEPT !.file[Index] = ws.file[Index]]
          = [file |-> half, loose |-> u.loose, links |-> u.links]
    <3>1. u = [file |-> u.file, loose |-> u.loose, links |-> u.links]
      BY <2>1
    <3> QED BY <3>1, PutBack
  <2>4. /\ half = [i \in Items |-> half[i]]
        /\ \A i \in Items : half[i] = IF i = Index THEN ws.file[Index] ELSE u.file[i]
    BY <2>1, Replacing, Zenon
  <2> HIDE DEF half
  <2>5. \A r \in Records : {Record(r), Summary(r)} \subseteq Items \ {Index}
    BY ItemsAre, Names
  <2>6. \/ ws' = ws \/ ws' = u
        \/ ws' = [file |-> half, loose |-> u.loose, links |-> u.links]
    BY <2>2, <2>3
  <2>7. /\ ws' = [file |-> ws'.file, loose |-> ws'.loose, links |-> ws'.links]
        /\ ws'.file \in {ws.file, u.file, half}
        /\ ws'.file = [i \in Items |-> ws'.file[i]]
    BY <2>1, <2>4, <2>6, LockStays
  <2>8. ws'.file[Index] \in {ws.file[Index], u.file[Index]}
    BY <2>4, <2>7, ItemsAre
  <2>9. \A r \in Records :
          /\ ws'.file[Record(r)] = ws.file[Record(r)]
          /\ ws'.file[Summary(r)] \in {ws.file[Summary(r)], ws.file[Record(r)]}
    BY <2>1, <2>4, <2>5, <2>7
  <2>10. Shapes' /\ Locks'
    BY <1>1, <1>2, <1>3, <2>7, DoctorShape
  <2>11. Indexes'
    BY <2>1, <2>8, <2>9, StaySummarized DEF Inv, Indexes, Acceptable
  <2>12. Journals'
    <3>1. Summarized(ws.file)
      BY DEF Inv, Indexes
    <3>2. ws.file = [i \in Items |-> ws.file[i]]
      BY LockStays
    <3>3. \A r \in Records :
            \/ ws.file[Record(r)] = u.file[Record(r)] /\ ws.file[Summary(r)] = u.file[Summary(r)]
            \/ /\ ws.file[Record(r)] # u.file[Record(r)] /\ u.file[Record(r)] # Missing
               /\ u.file[Summary(r)] # Missing
            \/ ws.file[Record(r)] = u.file[Record(r)] /\ ws'.file[Record(r)] # Missing
      BY <2>1, <2>9, <3>1 DEF Summarized
    <3>4. Acceptable(ws.file[Index]) /\ Acceptable(u.file[Index])
      BY <2>1 DEF Acceptable
    <3> QED BY <2>1, <2>2, <3>1, <3>2, <3>3, <3>4, JournalKeeps
  <2>13. Commands'
    BY <1>1, <1>5 DEF Inv, Locks, Commands
  <2>14. Reported' /\ Knows' /\ Verdict' /\ Planned'
    BY <1>1, <1>2, MoveOn
  <2> QED BY <2>10, <2>11, <2>12, <2>13, <2>14 DEF Inv
<1> QED BY <1>1, <1>4, <1>5

-------------------------------------------------------------------------------
(***************************************************************************)
(* Theorems.                                                               *)
(***************************************************************************)
LEMMA Invariance ==
    ASSUME Inv, [Next]_vars
    PROVE  Inv'
<1>1. CASE UNCHANGED vars
  <2>1. ws' = ws /\ lock' = lock /\ journal' = journal /\ command' = command
        /\ doctor' = doctor /\ result' = result /\ quiet' = quiet
    BY <1>1 DEF vars
  <2>2. Shapes' /\ Locks' /\ Indexes' /\ Commands'
    BY <2>1 DEF Inv, Shapes, Locks, Indexes, Commands
  <2>3. Journals'
    BY <2>1, JournalStays DEF Inv
  <2>4. Reported' /\ Verdict' /\ Planned'
    BY <2>1 DEF Inv, Reported, Verdict, Planned
  <2>5. Knows'
    BY <2>1 DEF Inv, Knows
  <2> QED BY <2>2, <2>3, <2>4, <2>5 DEF Inv
<1>2. CASE \E r \in Records : BeginImport(r)
  BY <1>2, BeginImportKeeps
<1>3. CASE \E e \in Edits : Save(e[1], e[2])
  BY <1>3, SaveKeeps
<1>4. CASE \E h \in Harm : Hurt(h[1], h[2])
  BY <1>4, HurtKeeps
<1>5. CASE \E i \in Loosened : Loosen(i)
  BY <1>5, MarkKeeps DEF Loosen
<1>6. CASE \E i \in Replaced : Replace(i)
  BY <1>6, MarkKeeps DEF Replace
<1>7. CASE BeginRebuild \/ Install \/ InstallIndex \/ End \/ Fail \/ Stop
  BY <1>7, BeginRebuildKeeps, InstallKeeps, InstallIndexKeeps, EndKeeps, FailKeeps, StopKeeps
<1>8. CASE Run \/ DoctorStep \/ DoctorStop
  BY <1>8, RunKeeps, ReadHeadKeeps, ReadDurableKeeps, ReadDerivedKeeps, MakePlanKeeps,
     MakeLockedPlanKeeps, RemoveStaleLockKeeps, AcquireKeeps, PublishKeeps, SettleKeeps,
     DoctorStopKeeps DEF DoctorStep
<1> QED BY <1>1, <1>2, <1>3, <1>4, <1>5, <1>6, <1>7, <1>8 DEF Next

\* In every reachable state doctor knows what the invariant says it knows, and
\* every index and journal is one that a command or a repair wrote.
THEOREM Invariant == Spec => []Inv
BY InitInv, Invariance, PTL DEF Spec

\* A healthy verdict on a workspace that stood still is a true one: all its
\* checks were made of one and the same workspace, and none of them is of a
\* fact that another file could contradict unseen.
THEOREM HealthyIsSound == Spec => []HealthyMeansSound
<1>1. Inv => HealthyMeansSound
  <2> SUFFICES ASSUME Inv, result # None, result.quiet, ~ result.raised, result.report = {}
               PROVE  InOrder(ws)
    BY DEF HealthyMeansSound
  <2>1. {} \in Reports(Findings(ws, lock, journal))
    BY DEF Inv, Verdict
  <2>2. Findings(ws, lock, journal) = {}
    BY <2>1, NothingReported
  <2> QED BY <2>2, NothingWrong DEF Inv
<1> QED BY <1>1, Invariant, PTL

\* Only a repair writes without a journal, and it writes what its plan proved
\* from the files that its lock has kept in place since.
LEMMA RepairProved ==
    ASSUME Inv, [Next]_vars, doctor # doctor', ws # ws', journal = None
    PROVE  /\ doctor.pc = "publish" /\ Publishable /\ command = None
           /\ ws' \in {Repaired(ws), [Repaired(ws) EXCEPT !.file[Index] = ws.file[Index]]}
<1>1. Publish \/ DoctorStop
  <2>1. ~ UNCHANGED vars
    BY DEF vars
  <2>2. /\ \A r \in Records : ~ BeginImport(r)
        /\ ~ BeginRebuild /\ ~ Install /\ ~ InstallIndex /\ ~ End /\ ~ Fail /\ ~ Stop
    BY Zenon DEF BeginImport, BeginRebuild, Begin, Install, InstallIndex, End, Fail, Stop
  <2>3. /\ \A e \in Edits : ~ Save(e[1], e[2])
        /\ \A h \in Harm : ~ Hurt(h[1], h[2])
        /\ \A i \in Loosened : ~ Loosen(i)
        /\ \A i \in Replaced : ~ Replace(i)
    BY Zenon DEF Save, Hurt, Loosen, Replace, Touch
  <2>4. /\ ~ Run /\ ~ ReadHead /\ ~ ReadDurable /\ ~ ReadDerived /\ ~ MakePlan
        /\ ~ MakeLockedPlan /\ ~ RemoveStaleLock /\ ~ Acquire /\ ~ Settle
    BY DEF Run, ReadHead, ReadDurable, ReadDerived, MakePlan, MakeLockedPlan,
           RemoveStaleLock, Acquire, Settle
  <2> QED BY <2>1, <2>2, <2>3, <2>4 DEF Next, DoctorStep
<1>2. doctor.pc = "publish" /\ Publishable
      /\ ws' \in {Repaired(ws), [Repaired(ws) EXCEPT !.file[Index] = ws.file[Index]]}
  BY <1>1 DEF Publish, DoctorStop
<1> QED BY <1>2 DEF Inv, Locks

\* Without a journal doctor writes only while no command runs, no record, and
\* only what the records and the index that are in place prove.
THEOREM RepairsAlwaysProved == Spec => RepairsAreProved
<1>1. ASSUME Inv, [Next]_vars, doctor # doctor', ws # ws', journal = None
      PROVE  /\ command = None
             /\ ws'.file[Index] \in {ws.file[Index], [ws.file[Index] EXCEPT !.gen = @ + 1]}
             /\ \A r \in Records :
                  /\ ws'.file[Record(r)] = ws.file[Record(r)]
                  /\ ws'.file[Summary(r)] \in {ws.file[Summary(r)], ws.file[Record(r)]}
             /\ \A i \in Inputs \cup {ViewOf(p) : p \in Periods} :
                  \/ ws'.file[i] = ws.file[i]
                  \/ Action("set_private_mode", i, ws'.file[i]) \in doctor.plan
                  \/ \E p \in Registered(ws.file[Index]) :
                        i = ViewOf(p) /\ ws'.file[i] = ws.file[Index].views[p]
  <2> DEFINE u == Repaired(ws)
             half == [u.file EXCEPT ![Index] = ws.file[Index]]
  <2>1. /\ doctor.pc = "publish" /\ Publishable /\ command = None
        /\ ws' \in {u, [u EXCEPT !.file[Index] = ws.file[Index]]}
    BY <1>1, RepairProved
  <2>2. /\ u = [file |-> u.file, loose |-> u.loose, links |-> u.links]
        /\ u.file = [i \in Items |-> u.file[i]]
        /\ u.file[Index] = [ws.file[Index] EXCEPT !.gen = @ + 1]
        /\ \A r \in Records :
             /\ u.file[Record(r)] = ws.file[Record(r)]
             /\ u.file[Summary(r)] \in {ws.file[Summary(r)], ws.file[Record(r)]}
        /\ \A i \in Inputs \cup {ViewOf(p) : p \in Periods} :
             \/ u.file[i] = ws.file[i]
             \/ Action("set_private_mode", i, u.file[i]) \in doctor.plan
             \/ \E p \in Registered(ws.file[Index]) :
                   i = ViewOf(p) /\ u.file[i] = ws.file[Index].views[p]
    BY <1>1, <2>1, RepairedIs
  <2> HIDE DEF u
  <2>3. [u EXCEPT !.file[Index] = ws.file[Index]]
          = [file |-> half, loose |-> u.loose, links |-> u.links]
    <3>1. u = [file |-> u.file, loose |-> u.loose, links |-> u.links]
      BY <2>2
    <3> QED BY <3>1, PutBack
  <2>4. \A i \in Items : half[i] = IF i = Index THEN ws.file[Index] ELSE u.file[i]
    BY <2>2, Replacing, Zenon
  <2> HIDE DEF half
  <2>5. ws'.file = u.file \/ ws'.file = half
    BY <2>1, <2>3
  <2>6. /\ \A r \in Records : {Record(r), Summary(r)} \subseteq Items \ {Index}
        /\ \A i \in Inputs \cup {ViewOf(p) : p \in Periods} : i \in Items \ {Index}
    BY ItemsAre, Names DEF Inputs
  <2>7. /\ ws'.file[Index] \in {ws.file[Index], u.file[Index]}
        /\ \A i \in Items \ {Index} : ws'.file[i] = u.file[i]
    BY <2>4, <2>5, ItemsAre
  <2> QED BY <2>1, <2>2, <2>6, <2>7
<1> QED BY <1>1, Invariant, PTL DEF Spec, RepairsAreProved

\* As long as all findings fit into a report, no repair is published over hard
\* damage that doctor has looked at: the plan is empty, and what was audited is
\* what is in place.  A report that keeps only the first findings may lack the
\* hard ones, and then no such thing holds.
THEOREM HardDamageIsRefused ==
    Spec /\ [](Cardinality(Findings(ws, "absent", None)) <= MaxFindings) => HardDamageRefused
<1> DEFINE Whole == Cardinality(Findings(ws, "absent", None)) <= MaxFindings
<1>1. ASSUME Inv, Whole, [Next]_vars, doctor # doctor', ws # ws', journal = None, quiet
      PROVE  ~ Blocked(Findings(ws, "absent", None))
  <2>1. doctor.pc = "publish" /\ lock = "doctor"
    BY <1>1, RepairProved DEF Inv, Locks
  <2>2. PICK report \in Reports(Seen(ws, "doctor", None, TRUE)) : ~ Blocked(report)
    BY <1>1, <2>1 DEF Inv, Knows
  <2>3. Seen(ws, "doctor", None, TRUE) = Findings(ws, "absent", None)
    <3>1. Head(ws, "doctor", None, TRUE) = Head(ws, "absent", None, FALSE)
      BY DEF Head
    <3> QED BY <3>1, Zenon DEF Seen, Findings
  <2>4. report = Findings(ws, "absent", None)
    BY <1>1, <2>2, <2>3 DEF Reports
  <2> QED BY <2>2, <2>4
<1>2. Inv /\ Whole /\ [Next]_vars =>
        [doctor # doctor' /\ ws # ws' /\ journal = None /\ quiet =>
           ~ Blocked(Findings(ws, "absent", None))]_vars
  BY <1>1
<1> HIDE DEF Whole
<1>3. Spec /\ []Whole => HardDamageRefused
  BY <1>2, Invariant, PTL DEF Spec, HardDamageRefused
<1> QED BY <1>3 DEF Whole
===============================================================================
