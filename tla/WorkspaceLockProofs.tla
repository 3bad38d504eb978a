-------------------------- MODULE WorkspaceLockProofs -------------------------
(***************************************************************************)
(* Proofs about the workspace lock for any number of commands and doctors. *)
(* A doctor may unlink a lock that took the name of the one it read; who   *)
(* has lost a lock like that is excepted, and nobody else.  Commands that  *)
(* edit a document keep the lock's protocol, and lose no edit.             *)
(***************************************************************************)
EXTENDS BindingCommands, TLAPS

LEMMA TypeInit == Init => TypeOK
BY DEF Init, TypeOK, Steps

LEMMA TypeStep == TypeOK /\ [Next]_vars => TypeOK'
<1> SUFFICES ASSUME TypeOK, [Next]_vars PROVE TypeOK'
  OBVIOUS
<1> USE DEF TypeOK, Goto, Steps, Unlink
<1>1. ASSUME NEW p \in Procs, Step(p) PROVE TypeOK'
  <2>1. CASE CommandStart(p) \/ Create(p)
    BY <2>1 DEF CommandStart, Create
  <2>2. CASE WriteOwner(p)
    BY <2>2 DEF WriteOwner
  <2>3. CASE WriteFails(p)
    BY <2>3 DEF WriteFails
  <2>4. CASE CheckOwned(p) \/ CheckRelease(p)
    BY <2>4 DEF CheckOwned, CheckRelease
  <2>5. CASE Release(p) \/ Kill(p)
    BY <2>5 DEF Release, Kill
  <2> QED
    BY <1>1, <2>1, <2>2, <2>3, <2>4, <2>5 DEF Step
<1>2. ASSUME NEW d \in Doctors, DoctorStep(d) PROVE TypeOK'
  <2>1. d \in Procs
    BY DEF Procs
  <2>2. CASE ReadLock(d)
    BY <2>1, <2>2 DEF ReadLock
  <2>3. CASE Probe(d) \/ RemoveStale(d)
    BY <2>1, <2>3 DEF Probe, RemoveStale
  <2> QED
    BY <1>2, <2>2, <2>3 DEF DoctorStep
<1>3. CASE UNCHANGED vars
  BY <1>3 DEF vars
<1> QED
  BY <1>1, <1>2, <1>3 DEF Next

\* Every variable keeps its type, with doctors too.
THEOREM TypeCorrect == Spec => []TypeOK
BY TypeInit, TypeStep, PTL DEF Spec

\* A lock is a process's that has begun, and a doctor that is about to unlink
\* has seen its owner dead.
Inspected ==
    /\ lock # NoFile => pc[lock] # "start"
    /\ \A d \in Doctors :
          /\ pc[d] \in {"probe", "stale"} => seen[d] \in Procs /\ pc[seen[d]] # "start"
          /\ pc[d] = "stale" => ~ Alive(seen[d])

\* Whoever created the lock file and lives has it still, or has lost it.
CreatorHasLock ==
    \A p \in Procs \ lost :
        pc[p] \in {"created", "held", "publishing", "releasing"} => lock = p

Held == TypeOK /\ Inspected /\ CreatorHasLock

LEMMA HeldInit == Init => Held
<1> SUFFICES ASSUME Init PROVE Held
  OBVIOUS
<1>1. \A p \in Procs : pc[p] = "start"
  BY DEF Init
<1>2. Inspected /\ CreatorHasLock
  BY <1>1 DEF Init, Inspected, CreatorHasLock, Procs
<1> QED
  BY <1>2, TypeInit DEF Held

\* A step of one process that neither makes the lock its own nor unlinks it.
LEMMA HeldElsewhere ==
    ASSUME Held, TypeOK', lock' = lock, lost' = lost, seen' = seen,
           NEW p \in Procs, NEW step, pc' = [pc EXCEPT ![p] = step],
           step \notin {"start", "probe", "stale"},
           step \in {"created", "held", "publishing", "releasing"} =>
              pc[p] \in {"created", "held", "publishing", "releasing"},
           pc[p] \in {"start", "done", "killed"} => pc[p] = "start"
    PROVE  Held'
<1> USE DEF Held, TypeOK
<1>1. \A q \in Procs : pc'[q] = IF q = p THEN step ELSE pc[q]
  OBVIOUS
<1>2. Doctors \subseteq Procs
  BY DEF Procs
<1>3. Inspected'
  <2>1. lock' # NoFile => pc'[lock'] # "start"
    BY <1>1 DEF Inspected
  <2>2. ASSUME NEW d \in Doctors, pc'[d] \in {"probe", "stale"}
        PROVE  /\ pc[d] = pc'[d] /\ seen'[d] \in Procs /\ pc'[seen'[d]] # "start"
               /\ pc'[d] = "stale" => ~ Alive(seen[d]) /\ seen[d] # p
    BY <1>1, <1>2, <2>2 DEF Inspected, Alive
  <2> QED
    BY <1>1, <2>1, <2>2 DEF Inspected, Alive
<1>4. CreatorHasLock'
  BY <1>1 DEF CreatorHasLock
<1> QED
  BY <1>3, <1>4

LEMMA HeldUnlink ==
    ASSUME Held, TypeOK', NEW p \in Procs, NEW owner,
           pc' = [pc EXCEPT ![p] = "done"] \/ pc' = [pc EXCEPT ![p] = "acquire"],
           seen' = seen, Unlink(owner), Alive(p),
           owner = p \/ ~ Alive(owner)
    PROVE  Held'
<1> USE DEF Held, TypeOK, Unlink
<1>1. \A q \in Procs : q # p => pc'[q] = pc[q]
  OBVIOUS
<1>2. pc'[p] \in {"done", "acquire"}
  OBVIOUS
<1>3. Inspected'
  <2>1. ASSUME NEW d \in Doctors, pc'[d] \in {"probe", "stale"}
        PROVE  /\ seen'[d] \in Procs /\ pc'[seen'[d]] # "start"
               /\ pc'[d] = "stale" => ~ Alive(seen[d]) /\ seen[d] # p
    <3>1. d # p /\ pc[d] = pc'[d]
      BY <1>1, <1>2, <2>1 DEF Procs
    <3> QED
      BY <1>1, <1>2, <2>1, <3>1 DEF Inspected
  <2> QED
    BY <1>1, <1>2, <2>1 DEF Inspected, Alive
<1>4. ASSUME NEW q \in Procs \ lost',
             pc'[q] \in {"created", "held", "publishing", "releasing"}
      PROVE  FALSE
  <2>1. q # p /\ pc[q] = pc'[q] /\ q \notin lost
    BY <1>1, <1>2, <1>4
  <2>2. lock = q /\ Alive(q)
    BY <1>4, <2>1 DEF CreatorHasLock, Alive
  <2>3. q # owner
    BY <2>1, <2>2
  <2> QED
    BY <1>4, <2>2, <2>3
<1> QED
  BY <1>3, <1>4 DEF CreatorHasLock

LEMMA HeldStep == Held /\ [Next]_vars => Held'
<1> SUFFICES ASSUME Held, [Next]_vars PROVE Held'
  OBVIOUS
<1>0. TypeOK'
  BY TypeStep DEF Held
<1>1. ASSUME NEW p \in Procs, Step(p) PROVE Held'
  <2> USE DEF Goto
  <2>1. CASE CommandStart(p)
    BY <1>0, <2>1, HeldElsewhere DEF CommandStart
  <2>2. CASE Create(p)
    <3>1. CASE lock = NoFile
      <4>1. \A q \in Procs : pc'[q] = IF q = p THEN "created" ELSE pc[q]
        BY <2>2, <3>1 DEF Create, Held, TypeOK
      <4>2. lock' = p /\ lost' = lost /\ seen' = seen
        BY <2>2, <3>1 DEF Create
      <4>3. Doctors \subseteq Procs /\ NoFile \notin Procs
        BY ProcsAssumption DEF Procs
      <4>4. pc[p] = "acquire"
        BY <2>2 DEF Create
      <4>5. ASSUME NEW d \in Doctors, pc'[d] \in {"probe", "stale"}
            PROVE  /\ pc[d] = pc'[d] /\ seen'[d] \in Procs /\ pc'[seen'[d]] # "start"
                   /\ pc'[d] = "stale" => ~ Alive(seen[d]) /\ seen[d] # p
        BY <4>1, <4>2, <4>3, <4>4, <4>5 DEF Held, Inspected, Alive
      <4>6. Inspected'
        BY <4>1, <4>2, <4>5 DEF Inspected, Alive
      <4>7. CreatorHasLock'
        BY <3>1, <4>1, <4>2, <4>3 DEF Held, CreatorHasLock
      <4> QED
        BY <1>0, <4>6, <4>7 DEF Held
    <3>2. CASE lock # NoFile
      BY <1>0, <2>2, <3>2, HeldElsewhere DEF Create
    <3> QED
      BY <3>1, <3>2
  <2>3. CASE WriteOwner(p)
    BY <1>0, <2>3, HeldElsewhere DEF WriteOwner
  <2>4. CASE WriteFails(p)
    BY <1>0, <2>4, HeldElsewhere DEF WriteFails
  <2>5. CASE CheckOwned(p)
    BY <1>0, <2>5, HeldElsewhere DEF CheckOwned
  <2>6. CASE CheckRelease(p)
    BY <1>0, <2>6, HeldElsewhere DEF CheckRelease
  <2>7. CASE Release(p)
    BY <1>0, <2>7, HeldUnlink DEF Release, Alive
  <2>8. CASE Kill(p)
    BY <1>0, <2>8, HeldElsewhere DEF Kill, Alive
  <2> QED
    BY <1>1, <2>1, <2>2, <2>3, <2>4, <2>5, <2>6, <2>7, <2>8 DEF Step
<1>2. ASSUME NEW d \in Doctors, DoctorStep(d) PROVE Held'
  <2> USE DEF Goto
  <2>0. d \in Procs
    BY DEF Procs
  <2>1. CASE ReadLock(d)
    <3>1. CASE /\ pc' = [pc EXCEPT ![d] = "acquire"] \/ pc' = [pc EXCEPT ![d] = "done"]
               /\ UNCHANGED seen
      BY <1>0, <2>0, <2>1, <3>1, HeldElsewhere DEF ReadLock
    <3>2. CASE /\ lock # NoFile /\ pc' = [pc EXCEPT ![d] = "probe"]
               /\ seen' = [seen EXCEPT ![d] = lock]
      <4>1. \A q \in Procs : pc'[q] = IF q = d THEN "probe" ELSE pc[q]
        BY <3>2 DEF Held, TypeOK
      <4>2. lock' = lock /\ lost' = lost /\ pc[d] = "start"
        BY <2>1 DEF ReadLock
      <4>3. \A o \in Doctors : seen'[o] = IF o = d THEN lock ELSE seen[o]
        BY <3>2 DEF Held, TypeOK
      <4>4. lock \in Procs /\ pc[lock] # "start"
        BY <3>2 DEF Held, TypeOK, Inspected
      <4>5. Inspected'
        BY <2>0, <4>1, <4>2, <4>3, <4>4 DEF Held, Inspected, Alive, Procs
      <4>6. CreatorHasLock'
        BY <4>1, <4>2 DEF Held, CreatorHasLock
      <4> QED
        BY <1>0, <4>5, <4>6 DEF Held
    <3> QED
      BY <2>1, <3>1, <3>2 DEF ReadLock
  <2>2. CASE Probe(d)
    <3>1. CASE Alive(seen[d])
      BY <1>0, <2>0, <2>2, <3>1, HeldElsewhere DEF Probe
    <3>2. CASE ~ Alive(seen[d])
      <4>1. \A q \in Procs : pc'[q] = IF q = d THEN "stale" ELSE pc[q]
        BY <2>2, <3>2 DEF Probe, Held, TypeOK
      <4>2. lock' = lock /\ lost' = lost /\ seen' = seen /\ pc[d] = "probe"
        BY <2>2 DEF Probe
      <4>3. seen[d] # d
        BY <3>2, <4>2 DEF Alive
      <4> DEFINE Fine(o) == /\ pc'[o] \in {"probe", "stale"}
                                  => seen[o] \in Procs /\ pc'[seen[o]] # "start"
                            /\ pc'[o] = "stale" => ~ Alive(seen[o])'
      <4>4. /\ seen[d] \in Procs /\ pc[seen[d]] # "start"
            /\ pc'[seen[d]] = pc[seen[d]]
        BY <4>1, <4>2, <4>3 DEF Held, Inspected
      <4>6. Fine(d)
        BY <2>0, <3>2, <4>2, <4>4 DEF Alive
      <4>7. ASSUME NEW o \in Doctors, o # d PROVE Fine(o)
        <5>1. o \in Procs /\ pc'[o] = pc[o]
          BY <4>1, <4>7 DEF Procs
        <5> QED
          BY <2>0, <4>1, <4>2, <5>1 DEF Held, Inspected, Alive
      <4>8. lock' # NoFile => pc'[lock'] # "start"
        BY <4>1, <4>2 DEF Held, TypeOK, Inspected
      <4> HIDE DEF Fine
      <4>9. \A o \in Doctors : Fine(o)
        BY <4>6, <4>7
      <4>10. Inspected'
        BY <4>2, <4>8, <4>9 DEF Inspected, Fine
      <4>5. CreatorHasLock'
        BY <4>1, <4>2 DEF Held, CreatorHasLock
      <4> QED
        BY <1>0, <4>5, <4>10 DEF Held
    <3> QED
      BY <3>1, <3>2
  <2>3. CASE RemoveStale(d)
    <3>1. Alive(d) /\ ~ Alive(seen[d])
      BY <2>3 DEF RemoveStale, Alive, Held, Inspected
    <3> QED
      BY <1>0, <2>0, <2>3, <3>1, HeldUnlink DEF RemoveStale
  <2> QED
    BY <1>2, <2>1, <2>2, <2>3 DEF DoctorStep
<1>3. CASE UNCHANGED vars
  BY <1>3 DEF vars, Held, TypeOK, Inspected, CreatorHasLock, Alive
<1> QED
  BY <1>1, <1>2, <1>3 DEF Next

LEMMA HeldInvariant == Spec => []Held
BY HeldInit, HeldStep, PTL DEF Spec

\* Any number of commands and doctors, each of which may be killed or fail at
\* any step: of those that have not lost their lock, at most one is between its
\* ownership check and its release.
THEOREM ProcessesExclude == Spec => []MutualExclusion
<1>1. Held => MutualExclusion
  BY DEF Held, CreatorHasLock, MutualExclusion
<1> QED
  BY <1>1, HeldInvariant, PTL

\* A live owner loses its lock by its own release or to a process that meant
\* another lock, never to a doctor that read this one.
THEOREM LiveLocksKept == Spec => LiveLockKept
<1> DEFINE Kept == \A p \in Procs :
                     lock = p /\ lock' # p
                       => ~Alive(p) \/ pc[p] = "releasing" \/ p \in lost'
<1>1. Held /\ [Next]_vars => [Kept]_vars
  <2> SUFFICES ASSUME Held, [Next]_vars,
                      NEW q \in Procs, lock = q, lock' # q, Alive(q)
               PROVE  pc[q] = "releasing" \/ q \in lost'
    OBVIOUS
  <2>1. CASE \E p \in Procs : Step(p)
    <3>1. PICK p \in Procs : Step(p)
      BY <2>1
    <3>2. Create(p) \/ Release(p)
      BY <3>1 DEF Step, CommandStart, WriteOwner, WriteFails, CheckOwned,
                  CheckRelease, Kill
    <3>3. NoFile # q
      BY ProcsAssumption
    <3> QED
      BY <3>2, <3>3 DEF Create, Release, Unlink
  <2>2. CASE \E d \in Doctors : DoctorStep(d)
    <3>1. PICK d \in Doctors : RemoveStale(d)
      BY <2>2 DEF DoctorStep, ReadLock, Probe
    <3>2. ~ Alive(seen[d])
      BY <3>1 DEF RemoveStale, Held, Inspected
    <3> QED
      BY <3>1, <3>2 DEF RemoveStale, Unlink
  <2> QED
    BY <2>1, <2>2 DEF Next, vars
<1> QED
  BY <1>1, HeldInvariant, PTL DEF Spec, LiveLockKept

-------------------------------------------------------------------------------
LEMMA EditStepIsLockStep == [EditNext]_allVars => [Next]_vars
<1> SUFFICES ASSUME EditNext PROVE [Next]_vars
  BY DEF allVars, vars
<1>1. ASSUME NEW p \in Commands, EditStep(p) PROVE [Next]_vars
  BY <1>1 DEF EditStep, NoteGeneration, ReadMappings, StageConfig, StartEdit,
              StartOther, CheckMappings, CheckConfig, InstallMappings,
              InstallConfig, Next, Step, Procs
<1>2. ASSUME NEW p \in Procs, LockStep(p) \/ InstallIndex(p) PROVE [Next]_vars
  BY <1>2 DEF LockStep, InstallIndex, Next, Step
<1>3. ASSUME NEW d \in Doctors, DoctorLockStep(d) PROVE [Next]_vars
  BY <1>3 DEF DoctorLockStep, Next
<1> QED
  BY <1>1, <1>2, <1>3 DEF EditNext

\* The commands that edit a document follow the lock's protocol: every step of
\* theirs is one of its steps or leaves the lock alone.
THEOREM EditsFollowTheLock == EditSpec => Spec
<1>1. EditInit => Init
  BY DEF EditInit
<1> QED
  BY <1>1, EditStepIsLockStep, PTL DEF EditSpec, Spec

\* Nobody may read a document between its installation and the index that names
\* it without having noted the generation before that one.
NoneInstalling == \A q \in Commands : stage[q] # "installing"

Drafts ==
    /\ documents = [f \in Files |-> documents[f]]
    /\ stage \in [Procs -> Stages]
    /\ generation \in Nat
    /\ noted \in [Commands -> Nat]
    /\ edit \in [Commands -> Requests \cup {None}]
    /\ draft = [p \in Commands |-> draft[p]]
    /\ \A p \in Commands :
          /\ noted[p] <= generation
          /\ stage[p] \in {"noted", "drafted", "checked"} => edit[p] \in Requests
          /\ stage[p] = "noted" => edit[p] \notin ConfigEdit
          /\ stage[p] = "installing" => pc[p] = "publishing"
          /\ stage[p] = "checked" => pc[p] \notin {"start", "acquire", "created"}
          /\ stage[p] = "checked" /\ pc[p] \in {"held", "publishing"}
                => noted[p] = generation
          /\ stage[p] \in {"drafted", "checked"} /\ noted[p] = generation /\ NoneInstalling
                => draft[p] \in Outcome(edit[p], documents[File(edit[p])])

LEMMA FileOfEdit == \A e : File(e) \in Files
BY DEF File, Files

LEMMA DraftsInit == EditInit => Drafts
<1> SUFFICES ASSUME EditInit PROVE Drafts
  OBVIOUS
<1>1. documents = [f \in Files |-> documents[f]]
  BY RequestsAssumption DEF EditInit, Documents
<1>2. stage \in [Procs -> Stages]
  BY DEF EditInit, Stages
<1>3. \A p \in Commands : stage[p] = "new"
  BY DEF EditInit, Procs
<1>4. draft = [p \in Commands |-> draft[p]]
  BY DEF EditInit
<1>5. generation = 0 /\ noted \in [Commands -> Nat]
      /\ \A p \in Commands : noted[p] <= generation
  BY DEF EditInit
<1>6. edit \in [Commands -> Requests \cup {None}]
  BY DEF EditInit
<1> QED
  BY <1>1, <1>2, <1>3, <1>4, <1>5, <1>6 DEF Drafts

\* Only the process whose lock it is publishes, so a step of another process
\* leaves documents and generation alone.
LEMMA DraftsStep ==
    ASSUME TypeOK, CreatorHasLock, lost = {}, Drafts, [EditNext]_allVars
    PROVE  Drafts'
<1>1. /\ Commands \subseteq Procs /\ Doctors \subseteq Procs
      /\ \A d \in Doctors : d \notin Commands
  BY ProcsAssumption DEF Procs
<1>2. /\ \A q \in Commands : stage[q] = "installing" => lock = q
      /\ \A p \in Procs : pc[p] \in {"created", "held", "publishing"} => lock = p
  BY <1>1 DEF CreatorHasLock, Drafts
<1> USE <1>1, FileOfEdit DEF Goto, Reach, Stages
<1>3. ASSUME NEW p \in Commands, NoteGeneration(p) PROVE Drafts'
  BY <1>3 DEF NoteGeneration, Drafts, vars, NoneInstalling
<1>4. ASSUME NEW p \in Commands, ReadMappings(p) PROVE Drafts'
  <2>1. File(edit[p]) = "mappings"
    BY <1>4 DEF ReadMappings, Drafts, File
  <2> QED
    BY <1>4, <2>1 DEF ReadMappings, Drafts, vars, NoneInstalling
<1>5. ASSUME NEW p \in Commands, StageConfig(p) PROVE Drafts'
  <2>1. \A e \in ConfigEdit : File(e) = "config"
    BY DEF File
  <2> QED
    BY <1>5, <2>1 DEF StageConfig, Drafts, vars, NoneInstalling
<1>6. ASSUME NEW p \in Commands, StartEdit(p) \/ StartOther(p) PROVE Drafts'
  <2>1. CASE StartEdit(p)
    BY <2>1 DEF StartEdit, CommandStart, TypeOK, Drafts, editVars, NoneInstalling
  <2>2. CASE StartOther(p)
    BY <2>2 DEF StartOther, CommandStart, TypeOK, Drafts, NoneInstalling
  <2> QED
    BY <1>6, <2>1, <2>2
<1>7. ASSUME NEW p \in Commands, CheckMappings(p) \/ CheckConfig(p) PROVE Drafts'
  BY <1>7 DEF CheckMappings, CheckConfig, Fresh, Drafts, vars, NoneInstalling
<1>8. ASSUME NEW p \in Commands, InstallMappings(p) \/ InstallConfig(p) PROVE Drafts'
  <2>1. CASE InstallMappings(p)
    BY <2>1 DEF InstallMappings, Drafts, vars, NoneInstalling
  <2>2. CASE InstallConfig(p)
    BY <2>2 DEF InstallConfig, Drafts, vars, NoneInstalling
  <2> QED
    BY <1>8, <2>1, <2>2
<1>9. ASSUME NEW p \in Procs, InstallIndex(p) PROVE Drafts'
  BY <1>2, <1>9 DEF InstallIndex, Drafts, vars, NoneInstalling
<1>10. ASSUME NEW p \in Procs, LockStep(p) PROVE Drafts'
  <2> USE DEF TypeOK, Drafts, editVars, NoneInstalling
  <2>1. CASE Create(p) /\ UNCHANGED editVars
    BY <2>1 DEF Create
  <2>2. CASE (WriteOwner(p) \/ WriteFails(p)) /\ UNCHANGED editVars
    BY <2>2 DEF WriteOwner, WriteFails
  <2>3. CASE Release(p) /\ UNCHANGED editVars
    BY <2>3 DEF Release
  <2>4. CASE CheckOwned(p) /\ UNCHANGED editVars
    BY <2>4 DEF CheckOwned
  <2>5. CASE /\ stage[p] # "installing" /\ (CheckRelease(p) \/ Kill(p))
             /\ UNCHANGED editVars
    BY <2>5 DEF CheckRelease, Kill
  <2> QED
    BY <1>10, <2>1, <2>2, <2>3, <2>4, <2>5 DEF LockStep
<1>11. ASSUME NEW d \in Doctors, DoctorLockStep(d) PROVE Drafts'
  <2>1. ReadLock(d) \/ Probe(d) \/ RemoveStale(d)
    BY <1>11 DEF DoctorLockStep, DoctorStep
  <2>2. \A p \in Commands : pc'[p] = pc[p]
    BY <2>1 DEF TypeOK, ReadLock, Probe, RemoveStale
  <2> QED
    BY <1>11, <2>2 DEF DoctorLockStep, editVars, Drafts, NoneInstalling
<1>12. CASE UNCHANGED allVars
  BY <1>12 DEF allVars, vars, editVars, Drafts, NoneInstalling
<1> QED
  BY <1>3, <1>4, <1>5, <1>6, <1>7, <1>8, <1>9, <1>10, <1>11, <1>12
     DEF EditNext, EditStep

\* Who has lost a lock has lost it for ever.
LEMMA LostStays == [Next]_vars /\ lost' = {} => lost = {}
BY DEF Next, vars, Step, DoctorStep, Unlink, CommandStart, ReadLock, Probe, RemoveStale,
       Create, WriteOwner, WriteFails, CheckOwned, CheckRelease, Release, Kill

DraftsInOrder == Held /\ (lost = {} => Drafts)

LEMMA DraftsInvariant == EditSpec => []DraftsInOrder
<1>1. EditInit => DraftsInOrder
  BY HeldInit, DraftsInit DEF DraftsInOrder, EditInit
<1>2. DraftsInOrder /\ [EditNext]_allVars => DraftsInOrder'
  <2>1. [EditNext]_allVars /\ lost' = {} => lost = {}
    BY LostStays, EditStepIsLockStep
  <2> QED
    BY <2>1, HeldStep, DraftsStep, EditStepIsLockStep DEF DraftsInOrder, Held
<1> QED
  BY <1>1, <1>2, PTL DEF EditSpec

\* Any number of commands may edit at once, with doctors beside them: while
\* nobody has lost a lock to a late unlink, each change of a document is one
\* command's edit of the document as it then is.
THEOREM EditsAlwaysCompose == EditSpec => EditsCompose
<1> DEFINE Composes ==
      documents' # documents /\ lost = {} =>
          \E p \in Commands :
             LET file == File(edit[p]) IN
             /\ pc[p] = "publishing"
             /\ documents'[file] \in Outcome(edit[p], documents[file])
             /\ \A other \in Files \ {file} : documents'[other] = documents[other]
<1>1. DraftsInOrder /\ [EditNext]_allVars => [Composes]_allVars
  <2> SUFFICES ASSUME CreatorHasLock, Drafts, EditNext, documents' # documents, lost = {}
               PROVE  Composes
    BY DEF allVars, editVars, DraftsInOrder, Held
  <2>1. PICK p \in Commands : InstallMappings(p) \/ InstallConfig(p)
    BY DEF EditNext, EditStep, NoteGeneration, ReadMappings, StageConfig, StartEdit,
           StartOther, CheckMappings, CheckConfig, LockStep, InstallIndex,
           DoctorLockStep, editVars
  <2>2. NoneInstalling
    BY <2>1, ProcsAssumption DEF NoneInstalling, InstallMappings, InstallConfig,
                                 Drafts, CreatorHasLock, Procs
  <2>3. draft[p] \in Outcome(edit[p], documents[File(edit[p])])
    BY <2>1, <2>2 DEF InstallMappings, InstallConfig, Drafts
  <2>4. documents' = [documents EXCEPT ![File(edit[p])] = draft[p]]
    BY <2>1 DEF InstallMappings, InstallConfig, File
  <2> QED
    BY <2>1, <2>3, <2>4, FileOfEdit DEF InstallMappings, InstallConfig, Drafts
<1> QED
  BY <1>1, DraftsInvariant, PTL DEF EditSpec, EditsCompose

-------------------------------------------------------------------------------
\* What an edit left in the document of its binding: enough for the same edit
\* to be recognised when it is asked for again.
Left(doc, e) ==
    \/ /\ e.kind = "bind"
       /\ e.id \in DOMAIN doc.bindings /\ doc.bindings[e.id] = e.binding
       /\ Selects(doc, e.pattern, e.binding.profile, e.id)
       /\ \A r \in doc.removed \cup doc.replaced : r.binding # e.id
    \/ /\ e.kind = "replace"
       /\ e.id \in DOMAIN doc.bindings
       /\ \/ /\ e.old \notin Uses(doc, e.id)
             /\ [binding |-> e.id, old |-> e.old, new |-> e.new] \in doc.replaced
             /\ Selects(doc, e.new, doc.bindings[e.id].profile, e.id)
          \/ e.old = e.new /\ e.old \in Uses(doc, e.id)
    \/ /\ e.kind = "remove"
       /\ e.id \notin DOMAIN doc.bindings \/ e.pattern \notin Uses(doc, e.id)
       /\ [binding |-> e.id, pattern |-> e.pattern] \in doc.removed

LEMMA LeftIsAnswered ==
    ASSUME NEW doc \in Document, NEW e \in Edit, Left(doc, e)
    PROVE  Edited(doc, e) = {doc}
<1>1. CASE e.kind = "bind"
  <2>1. Forget(doc, e.id) = doc
    BY <1>1 DEF Left, Forget, Document
  <2>2. With(doc.bindings, e.id, e.binding) = doc.bindings
    BY <1>1 DEF Left, With, Document
  <2>3. With(doc.patterns, e.pattern, [profile |-> e.binding.profile, binding |-> e.id])
          = doc.patterns
    BY <1>1 DEF Left, With, Selects, Document
  <2> QED
    BY <1>1, <2>1, <2>2, <2>3 DEF Edited, Bind, Left, Selects, Document
<1>2. CASE e.kind = "replace"
  BY <1>2 DEF Left, Edited, ReplacePattern, ReplayReplace
<1>3. CASE e.kind = "remove"
  BY <1>3 DEF Left, Edited, RemovePattern, ReplayRemove
<1> QED
  BY <1>1, <1>2, <1>3 DEF Edit

\* The kinds of edit.
LEMMA EditKinds ==
    ASSUME NEW e \in Edit
    PROVE  /\ e.kind \in {"bind", "replace", "remove"} /\ e.id \in BindingIds
           /\ e.kind = "bind" => e.binding \in Binding /\ e.pattern \in Patterns
           /\ e.kind = "replace" => e.old \in Patterns /\ e.new \in Patterns
           /\ e.kind = "remove" => e.pattern \in Patterns
BY DEF Edit

LEMMA DocumentIs ==
    ASSUME NEW doc
    PROVE  doc \in Document <=>
             /\ doc = [bindings |-> doc.bindings, patterns |-> doc.patterns,
                       removed |-> doc.removed, replaced |-> doc.replaced]
             /\ DOMAIN doc.bindings \subseteq BindingIds
             /\ doc.bindings \in [DOMAIN doc.bindings -> Binding]
             /\ DOMAIN doc.patterns \subseteq Patterns
             /\ doc.patterns \in [DOMAIN doc.patterns -> Selection]
             /\ doc.removed \subseteq [binding : BindingIds, pattern : Patterns]
             /\ doc.replaced \subseteq
                  [binding : BindingIds, old : Patterns, new : Patterns]
BY DEF Document

LEMMA ForgetIs ==
    ASSUME NEW doc \in Document, NEW id
    PROVE  /\ Forget(doc, id) =
                [bindings |-> Forget(doc, id).bindings,
                 patterns |-> Forget(doc, id).patterns,
                 removed |-> Forget(doc, id).removed,
                 replaced |-> Forget(doc, id).replaced]
           /\ Forget(doc, id).bindings = doc.bindings
           /\ Forget(doc, id).patterns = doc.patterns
           /\ Forget(doc, id).removed = {r \in doc.removed : r.binding # id}
           /\ Forget(doc, id).replaced = {r \in doc.replaced : r.binding # id}
<1> DEFINE kept == {r \in doc.removed : r.binding # id}
           left == {r \in doc.replaced : r.binding # id}
<1>1. Forget(doc, id) = [doc EXCEPT !.removed = kept, !.replaced = left]
  BY DEF Forget
<1>2. doc = [bindings |-> doc.bindings, patterns |-> doc.patterns,
             removed |-> doc.removed, replaced |-> doc.replaced]
  BY DocumentIs
<1> HIDE DEF kept, left
<1>3. /\ Forget(doc, id) = [bindings |-> doc.bindings, patterns |-> doc.patterns,
                            removed |-> kept, replaced |-> left]
  BY <1>1, <1>2
<1>4. /\ Forget(doc, id).bindings = doc.bindings
      /\ Forget(doc, id).patterns = doc.patterns
      /\ Forget(doc, id).removed = kept
      /\ Forget(doc, id).replaced = left
  BY <1>3
<1> QED
  BY <1>3, <1>4 DEF kept, left

\* What each kind of edit makes of a document.
LEMMA BindIs ==
    ASSUME NEW doc \in Document, NEW e \in Edit, e.kind = "bind",
           NEW next \in Edited(doc, e)
    PROVE  /\ next.bindings = With(doc.bindings, e.id, e.binding)
           /\ next.patterns = With(doc.patterns, e.pattern,
                                [profile |-> e.binding.profile, binding |-> e.id])
           /\ next.removed = {r \in doc.removed : r.binding # e.id}
           /\ next.replaced = {r \in doc.replaced : r.binding # e.id}
           /\ next = [bindings |-> next.bindings, patterns |-> next.patterns,
                      removed |-> next.removed, replaced |-> next.replaced]
           /\ e.pattern \in DOMAIN doc.patterns =>
                 doc.patterns[e.pattern].binding \in {e.id, None}
<1> DEFINE selection == [profile |-> e.binding.profile, binding |-> e.id]
<1>1. next \in Bind(doc, e)
  BY DEF Edited
<1>2. e.pattern \in DOMAIN doc.patterns =>
         doc.patterns[e.pattern] \in {selection, [selection EXCEPT !.binding = None]}
  BY <1>1 DEF Bind
<1>3. next = [Forget(doc, e.id) EXCEPT
                !.bindings = With(@, e.id, e.binding),
                !.patterns = With(@, e.pattern, selection)]
  BY <1>1 DEF Bind
<1> DEFINE base == Forget(doc, e.id)
           bound == With(base.bindings, e.id, e.binding)
           chosen == With(base.patterns, e.pattern, selection)
<1>4. next = [base EXCEPT !.bindings = bound, !.patterns = chosen]
  BY <1>3
<1>5. /\ base = [bindings |-> base.bindings, patterns |-> base.patterns,
                 removed |-> base.removed, replaced |-> base.replaced]
      /\ base.bindings = doc.bindings /\ base.patterns = doc.patterns
      /\ base.removed = {r \in doc.removed : r.binding # e.id}
      /\ base.replaced = {r \in doc.replaced : r.binding # e.id}
  BY ForgetIs
<1>6. /\ bound = With(doc.bindings, e.id, e.binding)
      /\ chosen = With(doc.patterns, e.pattern, selection)
  BY <1>5
<1>7. e.pattern \in DOMAIN doc.patterns =>
         doc.patterns[e.pattern].binding \in {e.id, None}
  BY <1>2
<1> HIDE DEF base, bound, chosen
<1>8. /\ next.bindings = bound /\ next.patterns = chosen
      /\ next.removed = base.removed /\ next.replaced = base.replaced
      /\ next = [bindings |-> next.bindings, patterns |-> next.patterns,
                 removed |-> next.removed, replaced |-> next.replaced]
  BY <1>4, <1>5
<1> QED
  BY <1>5, <1>6, <1>7, <1>8

LEMMA ReplaceIs ==
    ASSUME NEW doc \in Document, NEW e \in Edit, e.kind = "replace",
           NEW next \in Edited(doc, e), next # doc
    PROVE  /\ e.old # e.new /\ e.old \in Uses(doc, e.id)
           /\ e.id \in DOMAIN doc.bindings
           /\ next.bindings = doc.bindings
           /\ next.patterns = With(Without(doc.patterns, e.old), e.new,
                 [profile |-> doc.bindings[e.id].profile, binding |-> e.id])
           /\ next.removed = {r \in doc.removed : r.binding # e.id}
           /\ next.replaced = {r \in doc.replaced : r.binding # e.id} \cup
                 {[binding |-> e.id, old |-> e.old, new |-> e.new]}
           /\ next = [bindings |-> next.bindings, patterns |-> next.patterns,
                      removed |-> next.removed, replaced |-> next.replaced]
           /\ e.new \in DOMAIN doc.patterns => doc.patterns[e.new].binding = e.id
<1> DEFINE selection == [profile |-> doc.bindings[e.id].profile, binding |-> e.id]
<1>1. next \in ReplaceUsed(doc, e) /\ e.old # e.new /\ e.old \in Uses(doc, e.id)
      /\ e.id \in DOMAIN doc.bindings
  BY DEF Edited, ReplacePattern, ReplayReplace
<1>2. e.new \in DOMAIN doc.patterns => doc.patterns[e.new] = selection
  BY <1>1 DEF ReplaceUsed, Selects
<1>3. next = [Forget(doc, e.id) EXCEPT
                !.patterns = With(Without(@, e.old), e.new, selection),
                !.replaced = @ \cup {[binding |-> e.id, old |-> e.old, new |-> e.new]}]
  BY <1>1 DEF ReplaceUsed
<1> DEFINE base == Forget(doc, e.id)
           chosen == With(Without(base.patterns, e.old), e.new, selection)
           receipts == base.replaced \cup
                       {[binding |-> e.id, old |-> e.old, new |-> e.new]}
<1>4. next = [base EXCEPT !.patterns = chosen, !.replaced = receipts]
  BY <1>3
<1>5. /\ base = [bindings |-> base.bindings, patterns |-> base.patterns,
                 removed |-> base.removed, replaced |-> base.replaced]
      /\ base.bindings = doc.bindings /\ base.patterns = doc.patterns
      /\ base.removed = {r \in doc.removed : r.binding # e.id}
      /\ base.replaced = {r \in doc.replaced : r.binding # e.id}
  BY ForgetIs
<1>6. /\ chosen = With(Without(doc.patterns, e.old), e.new, selection)
      /\ receipts = {r \in doc.replaced : r.binding # e.id} \cup
                    {[binding |-> e.id, old |-> e.old, new |-> e.new]}
  BY <1>5
<1>7. e.new \in DOMAIN doc.patterns => doc.patterns[e.new].binding = e.id
  BY <1>2
<1> HIDE DEF base, chosen, receipts
<1>8. /\ next.bindings = base.bindings /\ next.patterns = chosen
      /\ next.removed = base.removed /\ next.replaced = receipts
      /\ next = [bindings |-> next.bindings, patterns |-> next.patterns,
                 removed |-> next.removed, replaced |-> next.replaced]
  BY <1>4, <1>5
<1> QED
  BY <1>1, <1>5, <1>6, <1>7, <1>8

LEMMA RemoveIs ==
    ASSUME NEW doc \in Document, NEW e \in Edit, e.kind = "remove",
           NEW next \in Edited(doc, e), next # doc
    PROVE  /\ e.pattern \in Uses(doc, e.id)
           /\ next.bindings \in {doc.bindings, Without(doc.bindings, e.id)}
           /\ next.patterns = Without(doc.patterns, e.pattern)
           /\ next.removed = {r \in doc.removed : r.binding # e.id} \cup
                 {[binding |-> e.id, pattern |-> e.pattern]}
           /\ next.replaced = {r \in doc.replaced : r.binding # e.id}
           /\ next = [bindings |-> next.bindings, patterns |-> next.patterns,
                      removed |-> next.removed, replaced |-> next.replaced]
<1> DEFINE final == Uses(doc, e.id) = {e.pattern}
<1>1. next \in RemoveUsed(doc, e) /\ e.pattern \in Uses(doc, e.id)
  BY DEF Edited, RemovePattern, ReplayRemove
<1>2. next = [Forget(doc, e.id) EXCEPT
                !.patterns = Without(@, e.pattern),
                !.bindings = IF final THEN Without(@, e.id) ELSE @,
                !.removed  = @ \cup {[binding |-> e.id, pattern |-> e.pattern]}]
  BY <1>1 DEF RemoveUsed
<1> DEFINE base == Forget(doc, e.id)
           others == Without(base.patterns, e.pattern)
           bound == IF final THEN Without(base.bindings, e.id) ELSE base.bindings
           receipts == base.removed \cup {[binding |-> e.id, pattern |-> e.pattern]}
<1>3. next = [base EXCEPT !.patterns = others, !.bindings = bound,
                          !.removed = receipts]
  BY <1>2
<1>4. /\ base = [bindings |-> base.bindings, patterns |-> base.patterns,
                 removed |-> base.removed, replaced |-> base.replaced]
      /\ base.bindings = doc.bindings /\ base.patterns = doc.patterns
      /\ base.removed = {r \in doc.removed : r.binding # e.id}
      /\ base.replaced = {r \in doc.replaced : r.binding # e.id}
  BY ForgetIs
<1>5. /\ others = Without(doc.patterns, e.pattern)
      /\ bound \in {doc.bindings, Without(doc.bindings, e.id)}
      /\ receipts = {r \in doc.removed : r.binding # e.id} \cup
                      {[binding |-> e.id, pattern |-> e.pattern]}
  BY <1>4
<1> HIDE DEF base, others, bound, receipts
<1>6. /\ next.bindings = bound /\ next.patterns = others
      /\ next.removed = receipts /\ next.replaced = base.replaced
      /\ next = [bindings |-> next.bindings, patterns |-> next.patterns,
                 removed |-> next.removed, replaced |-> next.replaced]
  BY <1>3, <1>4
<1> QED
  BY <1>1, <1>4, <1>5, <1>6

LEMMA EditedType ==
    ASSUME NEW doc \in Document, NEW e \in Edit, NEW next \in Edited(doc, e)
    PROVE  next \in Document
<1> SUFFICES ASSUME next # doc PROVE next \in Document
  OBVIOUS
<1> USE EditKinds
<1>1. /\ \A b \in DOMAIN doc.bindings : doc.bindings[b] \in Binding
      /\ \A b \in Binding, id \in BindingIds :
            [profile |-> b.profile, binding |-> id] \in Selection
  BY DocumentIs DEF Binding, Selection
<1> DEFINE WellTyped(d) ==
             /\ DOMAIN d.bindings \subseteq BindingIds
             /\ d.bindings \in [DOMAIN d.bindings -> Binding]
             /\ DOMAIN d.patterns \subseteq Patterns
             /\ d.patterns \in [DOMAIN d.patterns -> Selection]
             /\ d.removed \subseteq [binding : BindingIds, pattern : Patterns]
             /\ d.replaced \subseteq
                  [binding : BindingIds, old : Patterns, new : Patterns]
<1>0. WellTyped(doc)
  BY DocumentIs
<1>2. CASE e.kind = "bind"
  <2>1. /\ next.bindings = With(doc.bindings, e.id, e.binding)
        /\ next.patterns = With(doc.patterns, e.pattern,
              [profile |-> e.binding.profile, binding |-> e.id])
        /\ next.removed = {r \in doc.removed : r.binding # e.id}
        /\ next.replaced = {r \in doc.replaced : r.binding # e.id}
        /\ next = [bindings |-> next.bindings, patterns |-> next.patterns,
              removed |-> next.removed, replaced |-> next.replaced]
    BY <1>2, BindIs
  <2>2. /\ DOMAIN next.bindings \subseteq BindingIds
        /\ next.bindings \in [DOMAIN next.bindings -> Binding]
    BY <1>0, <1>2, <2>1 DEF With
  <2>3. /\ DOMAIN next.patterns \subseteq Patterns
        /\ next.patterns \in [DOMAIN next.patterns -> Selection]
    BY <1>0, <1>1, <1>2, <2>1 DEF With
  <2>4. /\ next.removed \subseteq [binding : BindingIds, pattern : Patterns]
        /\ next.replaced \subseteq [binding : BindingIds, old : Patterns, new : Patterns]
    BY <1>0, <2>1
  <2> QED
    BY <2>1, <2>2, <2>3, <2>4, DocumentIs
<1>3. CASE e.kind = "replace"
  <2>1. /\ next.bindings = doc.bindings /\ e.id \in DOMAIN doc.bindings
        /\ next.patterns = With(Without(doc.patterns, e.old), e.new,
              [profile |-> doc.bindings[e.id].profile, binding |-> e.id])
        /\ next.removed = {r \in doc.removed : r.binding # e.id}
        /\ next.replaced = {r \in doc.replaced : r.binding # e.id} \cup
              {[binding |-> e.id, old |-> e.old, new |-> e.new]}
        /\ next = [bindings |-> next.bindings, patterns |-> next.patterns,
              removed |-> next.removed, replaced |-> next.replaced]
    BY <1>3, ReplaceIs
  <2>2. /\ DOMAIN next.bindings \subseteq BindingIds
        /\ next.bindings \in [DOMAIN next.bindings -> Binding]
    BY <1>0, <2>1
  <2>3. /\ DOMAIN next.patterns \subseteq Patterns
        /\ next.patterns \in [DOMAIN next.patterns -> Selection]
    BY <1>0, <1>1, <1>3, <2>1 DEF With, Without, Restrict
  <2>4. /\ next.removed \subseteq [binding : BindingIds, pattern : Patterns]
        /\ next.replaced \subseteq [binding : BindingIds, old : Patterns, new : Patterns]
    BY <1>0, <1>3, <2>1
  <2> QED
    BY <2>1, <2>2, <2>3, <2>4, DocumentIs
<1>4. CASE e.kind = "remove"
  <2>1. /\ next.bindings \in {doc.bindings, Without(doc.bindings, e.id)}
        /\ next.patterns = Without(doc.patterns, e.pattern)
        /\ next.removed = {r \in doc.removed : r.binding # e.id} \cup
              {[binding |-> e.id, pattern |-> e.pattern]}
        /\ next.replaced = {r \in doc.replaced : r.binding # e.id}
        /\ next = [bindings |-> next.bindings, patterns |-> next.patterns,
              removed |-> next.removed, replaced |-> next.replaced]
    BY <1>4, RemoveIs
  <2>2. /\ DOMAIN next.bindings \subseteq BindingIds
        /\ next.bindings \in [DOMAIN next.bindings -> Binding]
    BY <1>0, <2>1 DEF Without, Restrict
  <2>3. /\ DOMAIN next.patterns \subseteq Patterns
        /\ next.patterns \in [DOMAIN next.patterns -> Selection]
    BY <1>0, <2>1 DEF Without, Restrict
  <2>4. /\ next.removed \subseteq [binding : BindingIds, pattern : Patterns]
        /\ next.replaced \subseteq [binding : BindingIds, old : Patterns, new : Patterns]
    BY <1>0, <1>4, <2>1
  <2> QED
    BY <2>1, <2>2, <2>3, <2>4, DocumentIs
<1> QED
  BY <1>2, <1>3, <1>4

\* An edit leaves itself to be recognised ...
LEMMA LeftByItself ==
    ASSUME NEW doc \in Document, NEW e \in Edit, NEW next \in Edited(doc, e)
    PROVE  Left(next, e)
<1>1. CASE e.kind = "bind"
  <2>0. /\ next.bindings = With(doc.bindings, e.id, e.binding)
        /\ next.patterns = With(doc.patterns, e.pattern,
                             [profile |-> e.binding.profile, binding |-> e.id])
    BY <1>1, BindIs
  <2>1. /\ next.bindings[e.id] = e.binding /\ e.id \in DOMAIN next.bindings
        /\ e.pattern \in DOMAIN next.patterns
        /\ next.patterns[e.pattern] = [profile |-> e.binding.profile, binding |-> e.id]
    BY <2>0 DEF With
  <2>3. /\ next.removed = {r \in doc.removed : r.binding # e.id}
        /\ next.replaced = {r \in doc.replaced : r.binding # e.id}
    BY <1>1, BindIs
  <2>2. \A r \in next.removed \cup next.replaced : r.binding # e.id
    BY <2>3
  <2> QED
    BY <1>1, <2>1, <2>2 DEF Left, Selects
<1>2. CASE e.kind = "replace" /\ next # doc
  <2>0. /\ e.id \in DOMAIN doc.bindings /\ e.old # e.new
        /\ next.bindings = doc.bindings
        /\ next.patterns = With(Without(doc.patterns, e.old), e.new,
              [profile |-> doc.bindings[e.id].profile, binding |-> e.id])
        /\ next.replaced = {r \in doc.replaced : r.binding # e.id} \cup
              {[binding |-> e.id, old |-> e.old, new |-> e.new]}
    BY <1>2, ReplaceIs
  <2>1. /\ e.new \in DOMAIN next.patterns /\ e.old \notin DOMAIN next.patterns
        /\ next.patterns[e.new]
             = [profile |-> next.bindings[e.id].profile, binding |-> e.id]
    BY <2>0 DEF With, Without, Restrict
  <2>2. /\ [binding |-> e.id, old |-> e.old, new |-> e.new] \in next.replaced
        /\ e.id \in DOMAIN next.bindings
    BY <2>0
  <2> QED
    BY <1>2, <2>1, <2>2 DEF Left, Selects, Uses
<1>3. CASE e.kind = "replace" /\ next = doc
  <2>1. doc \in ReplacePattern(doc, e)
    BY <1>3 DEF Edited
  <2>2. e.id \in DOMAIN doc.bindings
    BY <2>1 DEF ReplacePattern
  <2>3. CASE e.old \notin Uses(doc, e.id)
    BY <1>3, <2>1, <2>2, <2>3 DEF ReplacePattern, ReplayReplace, Left
  <2>4. CASE e.old \in Uses(doc, e.id) /\ e.old = e.new
    BY <1>3, <2>2, <2>4 DEF Left
  <2>5. CASE e.old \in Uses(doc, e.id) /\ e.old # e.new
    <3>1. doc \in ReplaceUsed(doc, e)
      BY <2>1, <2>2, <2>5 DEF ReplacePattern
    <3>2. doc.patterns = With(Without(doc.patterns, e.old), e.new,
                           [profile |-> doc.bindings[e.id].profile, binding |-> e.id])
      <4> DEFINE base == Forget(doc, e.id)
                 chosen == With(Without(base.patterns, e.old), e.new,
                             [profile |-> doc.bindings[e.id].profile, binding |-> e.id])
                 receipts == base.replaced \cup
                               {[binding |-> e.id, old |-> e.old, new |-> e.new]}
      <4>1. doc = [base EXCEPT !.patterns = chosen, !.replaced = receipts]
        BY <3>1 DEF ReplaceUsed
      <4>2. base.patterns = doc.patterns
            /\ base = [bindings |-> base.bindings, patterns |-> base.patterns,
                       removed |-> base.removed, replaced |-> base.replaced]
        BY ForgetIs
      <4>3. doc.patterns = chosen
        <5> HIDE DEF base, chosen, receipts
        <5> QED BY <4>1, <4>2
      <4> QED
        BY <4>2, <4>3
    <3>3. e.old \notin DOMAIN doc.patterns
      BY <2>5, <3>2 DEF With, Without, Restrict
    <3> QED
      BY <2>5, <3>3 DEF Uses
  <2> QED
    BY <2>3, <2>4, <2>5
<1>4. CASE e.kind = "remove" /\ next # doc
  <2>0. /\ next.patterns = Without(doc.patterns, e.pattern)
        /\ next.removed = {r \in doc.removed : r.binding # e.id} \cup
              {[binding |-> e.id, pattern |-> e.pattern]}
    BY <1>4, RemoveIs
  <2>1. e.pattern \notin DOMAIN next.patterns
    BY <2>0 DEF Without, Restrict
  <2>2. [binding |-> e.id, pattern |-> e.pattern] \in next.removed
    BY <2>0
  <2> QED
    BY <1>4, <2>1, <2>2 DEF Left, Uses
<1>5. CASE e.kind = "remove" /\ next = doc
  <2>1. doc \in RemovePattern(doc, e)
    BY <1>5 DEF Edited
  <2>2. CASE e.id \in DOMAIN doc.bindings /\ e.pattern \in Uses(doc, e.id)
    <3>1. doc \in RemoveUsed(doc, e)
      BY <2>1, <2>2 DEF RemovePattern
    <3>2. doc.patterns = Without(doc.patterns, e.pattern)
      <4> DEFINE base == Forget(doc, e.id)
                 others == Without(base.patterns, e.pattern)
                 bound == IF Uses(doc, e.id) = {e.pattern}
                          THEN Without(base.bindings, e.id) ELSE base.bindings
                 receipts == base.removed \cup
                               {[binding |-> e.id, pattern |-> e.pattern]}
      <4>1. doc = [base EXCEPT !.patterns = others, !.bindings = bound,
                               !.removed = receipts]
        BY <3>1 DEF RemoveUsed
      <4>2. base.patterns = doc.patterns
            /\ base = [bindings |-> base.bindings, patterns |-> base.patterns,
                       removed |-> base.removed, replaced |-> base.replaced]
        BY ForgetIs
      <4>3. doc.patterns = others
        <5> HIDE DEF base, others, bound, receipts
        <5> QED BY <4>1, <4>2
      <4> QED
        BY <4>2, <4>3
    <3>3. e.pattern \notin DOMAIN doc.patterns
      BY <3>2 DEF Without, Restrict
    <3> QED
      BY <2>2, <3>3 DEF Uses
  <2>3. CASE ~ (e.id \in DOMAIN doc.bindings /\ e.pattern \in Uses(doc, e.id))
    BY <1>5, <2>1, <2>3 DEF RemovePattern, ReplayRemove, Left
  <2> QED
    BY <2>2, <2>3
<1> QED
  BY <1>1, <1>2, <1>3, <1>4, <1>5, EditKinds

\* ... and does not touch what an edit of another binding left.
LEMMA LeftByOthers ==
    ASSUME NEW doc \in Document, NEW e \in Edit, NEW next \in Edited(doc, e),
           NEW l \in Edit, l.id # e.id, l.id # None, Left(doc, l)
    PROVE  Left(next, l)
<1> SUFFICES ASSUME next # doc PROVE Left(next, l)
  OBVIOUS
<1> DEFINE BindingKept ==
             /\ l.id \in DOMAIN next.bindings <=> l.id \in DOMAIN doc.bindings
             /\ l.id \in DOMAIN doc.bindings =>
                   next.bindings[l.id] = doc.bindings[l.id]
           PatternsKept ==
             \A p : /\ p \in Uses(doc, l.id) <=> p \in Uses(next, l.id)
                    /\ p \in Uses(doc, l.id) => next.patterns[p] = doc.patterns[p]
           ReceiptsKept ==
             \A r : r.binding = l.id =>
                      /\ r \in next.removed <=> r \in doc.removed
                      /\ r \in next.replaced <=> r \in doc.replaced
<1>1. ASSUME e.kind = "bind"
      PROVE  BindingKept /\ PatternsKept /\ ReceiptsKept
  <2>1. /\ next.bindings = With(doc.bindings, e.id, e.binding)
        /\ next.patterns = With(doc.patterns, e.pattern,
              [profile |-> e.binding.profile, binding |-> e.id])
        /\ next.removed = {r \in doc.removed : r.binding # e.id}
        /\ next.replaced = {r \in doc.replaced : r.binding # e.id}
        /\ e.pattern \in DOMAIN doc.patterns =>
                 doc.patterns[e.pattern].binding \in {e.id, None}
    BY <1>1, BindIs
  <2>2. BindingKept
    BY <2>1 DEF With
  <2>3. PatternsKept
    BY <2>1 DEF With, Uses
  <2>4. ReceiptsKept
    BY <2>1
  <2> QED
    BY <2>2, <2>3, <2>4
<1>2. ASSUME e.kind = "replace"
      PROVE  BindingKept /\ PatternsKept /\ ReceiptsKept
  <2>1. /\ next.bindings = doc.bindings /\ e.old \in Uses(doc, e.id)
        /\ next.patterns = With(Without(doc.patterns, e.old), e.new,
              [profile |-> doc.bindings[e.id].profile, binding |-> e.id])
        /\ next.removed = {r \in doc.removed : r.binding # e.id}
        /\ next.replaced = {r \in doc.replaced : r.binding # e.id} \cup
              {[binding |-> e.id, old |-> e.old, new |-> e.new]}
        /\ e.new \in DOMAIN doc.patterns => doc.patterns[e.new].binding = e.id
    BY <1>2, ReplaceIs
  <2>2. PatternsKept
    BY <2>1 DEF With, Without, Restrict, Uses
  <2>3. ReceiptsKept
    BY <2>1
  <2> QED
    BY <2>1, <2>2, <2>3
<1>3. ASSUME e.kind = "remove"
      PROVE  BindingKept /\ PatternsKept /\ ReceiptsKept
  <2>1. /\ e.pattern \in Uses(doc, e.id)
        /\ next.bindings \in {doc.bindings, Without(doc.bindings, e.id)}
        /\ next.patterns = Without(doc.patterns, e.pattern)
        /\ next.removed = {r \in doc.removed : r.binding # e.id} \cup
              {[binding |-> e.id, pattern |-> e.pattern]}
        /\ next.replaced = {r \in doc.replaced : r.binding # e.id}
    BY <1>3, RemoveIs
  <2>2. BindingKept
    BY <2>1 DEF Without, Restrict
  <2>3. PatternsKept
    BY <2>1 DEF Without, Restrict, Uses
  <2>4. ReceiptsKept
    BY <2>1
  <2> QED
    BY <2>2, <2>3, <2>4
<1>4. BindingKept /\ PatternsKept /\ ReceiptsKept
  BY <1>1, <1>2, <1>3, EditKinds
<1> HIDE DEF BindingKept, PatternsKept, ReceiptsKept
<1>5. \A p, profile : Selects(doc, p, profile, l.id) => Selects(next, p, profile, l.id)
  BY <1>4 DEF PatternsKept, Selects, Uses
<1>6. CASE l.kind = "bind"
  BY <1>4, <1>5, <1>6 DEF Left, BindingKept, ReceiptsKept
<1>7. CASE l.kind = "replace"
  BY <1>4, <1>5, <1>7 DEF Left, BindingKept, PatternsKept, ReceiptsKept
<1>8. CASE l.kind = "remove"
  BY <1>4, <1>8 DEF Left, BindingKept, PatternsKept, ReceiptsKept
<1> QED
  BY <1>6, <1>7, <1>8, EditKinds

\* Every binding's latest edit is still to be recognised in the mappings document.
Answers ==
    /\ documents["mappings"] \in Document
    /\ last \in [BindingIds -> Edit \cup {None}]
    /\ \A b \in BindingIds :
          last[b] # None => last[b].id = b /\ Left(documents["mappings"], last[b])

LEMMA AnswersInit == EditInit => Answers
BY RequestsAssumption DEF EditInit, Answers, Documents

LEMMA AnswersStep ==
    lost = {} /\ CreatorHasLock /\ Drafts /\ Answers /\ [EditNext]_allVars => Answers'
<1> SUFFICES ASSUME lost = {}, CreatorHasLock, Drafts, Answers, [EditNext]_allVars
             PROVE  Answers'
  OBVIOUS
<1>1. CASE documents'["mappings"] = documents["mappings"] /\ last' = last
  BY <1>1 DEF Answers
<1>2. ASSUME NEW p \in Commands, InstallMappings(p) PROVE Answers'
  <2> DEFINE doc == documents["mappings"]
             next == documents'["mappings"]
             e == edit[p]
  <2>1. /\ e \in Edit /\ e \notin ConfigEdit /\ File(e) = "mappings"
    BY <1>2, RequestsAssumption DEF InstallMappings, Drafts, File
  <2>2. NoneInstalling
    BY <1>2, ProcsAssumption DEF NoneInstalling, InstallMappings, Drafts,
                                 CreatorHasLock, Procs
  <2>3. draft[p] \in Edited(doc, e)
    BY <1>2, <2>1, <2>2 DEF InstallMappings, Drafts, Outcome
  <2>4. next = draft[p] /\ last' = [last EXCEPT ![e.id] = e]
    BY <1>2 DEF InstallMappings, Drafts, Files
  <2>5. e.id \in BindingIds
    BY <2>1, EditKinds
  <2> HIDE DEF doc, next, e
  <2>6. doc \in Document /\ next \in Edited(doc, e)
    BY <2>3, <2>4 DEF Answers, doc
  <2>7. next \in Document
    BY <2>1, <2>6, EditedType
  <2>8. ASSUME NEW b \in BindingIds, last'[b] # None
        PROVE  last'[b].id = b /\ Left(next, last'[b])
    <3>1. CASE b = e.id /\ last'[b] = e
      BY <2>1, <2>6, <3>1, LeftByItself
    <3>2. CASE b # e.id /\ last'[b] = last[b]
      <4>1. last[b] \in Edit /\ last[b].id = b /\ Left(doc, last[b])
        BY <2>8, <3>2 DEF Answers, doc
      <4>2. last[b].id # None
        BY <4>1, NoneAssumption
      <4> QED
        BY <2>1, <2>6, <3>2, <4>1, <4>2, LeftByOthers
    <3>3. last'[b] = IF b = e.id THEN e ELSE last[b]
      BY <2>4 DEF Answers
    <3> QED
      BY <3>1, <3>2, <3>3
  <2>9. last' \in [BindingIds -> Edit \cup {None}]
    BY <2>1, <2>4 DEF Answers
  <2> QED
    BY <2>7, <2>8, <2>9 DEF Answers, next
<1>3. ASSUME NEW p \in Commands, InstallConfig(p)
      PROVE  documents'["mappings"] = documents["mappings"] /\ last' = last
  BY <1>3 DEF InstallConfig, Drafts
<1> QED
  BY <1>1, <1>2, <1>3
     DEF allVars, editVars, EditNext, EditStep, NoteGeneration, ReadMappings,
         StageConfig, StartEdit, StartOther, CheckMappings, CheckConfig, LockStep,
         InstallIndex, DoctorLockStep

\* Whatever was done to other bindings since, and by however many commands, the
\* latest edit of a binding may be repeated and changes nothing, while nobody has
\* lost a lock to a late unlink.
THEOREM RetriesAlwaysAnswered == EditSpec => []RetriesAnswered
<1> DEFINE Answered == lost = {} => Answers
<1>1. Answered => RetriesAnswered
  BY LeftIsAnswered DEF Answers, RetriesAnswered
<1>2. EditInit => Answered
  BY AnswersInit
<1>3. DraftsInOrder /\ Answered /\ [EditNext]_allVars => Answered'
  <2>1. [EditNext]_allVars /\ lost' = {} => lost = {}
    BY LostStays, EditStepIsLockStep
  <2> QED
    BY <2>1, AnswersStep DEF DraftsInOrder, Held
<1> QED
  BY <1>1, <1>2, <1>3, DraftsInvariant, PTL DEF EditSpec

-------------------------------------------------------------------------------
\* Types, with what a stage says of a command's edit and of its draft.
EditsTyped ==
    /\ EditTypeOK
    /\ \A p \in Commands :
          /\ stage[p] \in {"noted", "drafted", "checked"} => edit[p] \in Requests
          /\ stage[p] = "noted" => edit[p] \notin ConfigEdit
          /\ stage[p] \in {"drafted", "checked"} =>
                draft[p] \in (IF edit[p] \in ConfigEdit THEN Config ELSE Document)

LEMMA EditedConfigType ==
    ASSUME NEW config \in Config, NEW e \in ConfigEdit
    PROVE  EditedConfig(config, e) \in Config
BY DEF Config, ConfigEdit, EditedConfig

LEMMA EditsTypedInit == EditInit => EditsTyped
<1> SUFFICES ASSUME EditInit PROVE EditsTyped
  OBVIOUS
<1>1. TypeOK
  BY TypeInit DEF EditInit
<1>2. documents \in Documents /\ generation \in Nat
  BY RequestsAssumption DEF EditInit
<1>3. \A p \in Commands : stage[p] = "new"
  BY DEF EditInit, Procs
<1> QED
  BY <1>1, <1>2, <1>3 DEF EditInit, EditsTyped, EditTypeOK, Stages

\* What a document becomes keeps its type.
LEMMA InstallType ==
    ASSUME documents \in Documents, NEW file \in Files,
           NEW next \in (IF file = "config" THEN Config ELSE Document)
    PROVE  [documents EXCEPT ![file] = next] \in Documents
BY DEF Documents, Files

LEMMA EditsTypedStep == EditsTyped /\ TypeOK' /\ [EditNext]_allVars => EditsTyped'
<1> SUFFICES ASSUME EditsTyped, TypeOK', [EditNext]_allVars PROVE EditsTyped'
  OBVIOUS
<1>0. Commands \subseteq Procs
  BY DEF Procs
<1> USE <1>0 DEF EditsTyped, EditTypeOK, Reach, Stages
<1>1. ASSUME NEW p \in Commands, NoteGeneration(p) PROVE EditsTyped'
  BY <1>1 DEF NoteGeneration
<1>2. ASSUME NEW p \in Commands, ReadMappings(p) PROVE EditsTyped'
  <2>1. edit[p] \in Edit /\ edit[p] \notin ConfigEdit
    BY <1>2, RequestsAssumption DEF ReadMappings
  <2>2. documents["mappings"] \in Document
    BY DEF Documents
  <2>3. Outcome(edit[p], documents["mappings"]) \subseteq Document
    BY <2>1, <2>2, EditedType DEF Outcome
  <2> QED
    BY <1>2, <2>1, <2>3 DEF ReadMappings
<1>3. ASSUME NEW p \in Commands, StageConfig(p) PROVE EditsTyped'
  <2>1. PICK e \in Requests \cap ConfigEdit :
           \E next \in Outcome(e, documents["config"]) :
              /\ edit' = [edit EXCEPT ![p] = e]
              /\ draft' = [draft EXCEPT ![p] = next]
    BY <1>3 DEF StageConfig
  <2>2. documents["config"] \in Config
    BY DEF Documents
  <2>3. Outcome(e, documents["config"]) \subseteq Config
    BY <2>1, <2>2, EditedConfigType DEF Outcome
  <2> QED
    BY <1>3, <2>1, <2>3 DEF StageConfig
<1>4. ASSUME NEW p \in Commands, StartEdit(p) \/ StartOther(p) PROVE EditsTyped'
  BY <1>4 DEF StartEdit, StartOther, editVars
<1>5. ASSUME NEW p \in Commands, CheckMappings(p) \/ CheckConfig(p) PROVE EditsTyped'
  BY <1>5 DEF CheckMappings, CheckConfig
<1>6. ASSUME NEW p \in Commands, InstallMappings(p) PROVE EditsTyped'
  <2>1. edit[p] \in Edit /\ edit[p].id \in BindingIds /\ draft[p] \in Document
    BY <1>6, RequestsAssumption, EditKinds DEF InstallMappings
  <2>2. documents' \in Documents
    BY <1>6, <2>1, InstallType DEF InstallMappings, Files
  <2> QED
    BY <1>6, <2>1, <2>2 DEF InstallMappings
<1>7. ASSUME NEW p \in Commands, InstallConfig(p) PROVE EditsTyped'
  <2>1. documents' \in Documents
    BY <1>7, InstallType DEF InstallConfig, Files
  <2> QED
    BY <1>7, <2>1 DEF InstallConfig
<1>8. ASSUME NEW p \in Procs, InstallIndex(p) PROVE EditsTyped'
  BY <1>8 DEF InstallIndex
<1>9. CASE UNCHANGED editVars
  BY <1>9 DEF editVars
<1> QED
  BY <1>1, <1>2, <1>3, <1>4, <1>5, <1>6, <1>7, <1>8, <1>9
     DEF EditNext, EditStep, LockStep, DoctorLockStep, allVars

\* Every variable of the editing commands keeps its type, with doctors too.
THEOREM EditTypeCorrect == EditSpec => []EditTypeOK
<1>1. EditsTyped => EditTypeOK
  BY DEF EditsTyped
<1> QED
  BY <1>1, EditsTypedInit, EditsTypedStep, EditsFollowTheLock, TypeCorrect, PTL
     DEF EditSpec
===============================================================================
