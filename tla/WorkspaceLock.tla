----------------------------- MODULE WorkspaceLock ----------------------------
(***************************************************************************)
(* The exclusive workspace lock: WorkspaceLock, inspect_lock, the lock     *)
(* prologue of settle_retained_publication and doctor's                    *)
(* _remove_proved_stale_lock.                                              *)
(*                                                                         *)
(* The lock is a file created exclusively and then filled with its owner's *)
(* process id.  Doctor reads the file, asks the system whether that        *)
(* process lives, and removes the file by name: three separate steps, at   *)
(* any time.  The name may be another lock's by then; lost tells whose.    *)
(* Each process runs once; process ids are not reused.                     *)
(***************************************************************************)
EXTENDS Naturals, FiniteSets

CONSTANTS
    Commands,   \* processes of state-changing commands
    Doctors,    \* processes of doctor --fix
    NoFile      \* there is no lock file

Procs == Commands \cup Doctors

ASSUME ProcsAssumption ==
    /\ Commands \cap Doctors = {}
    /\ NoFile \notin Procs

VARIABLES
    lock,   \* the process whose lock file bears the name, or NoFile
    filled, \* that file holds its owner's process id
    pc,     \* process -> its next step
    seen,   \* doctor -> the owner it read
    lost    \* history: processes whose lock another process unlinked while
            \* they lived, because it bore the name of the one it meant

vars == <<lock, filled, pc, seen, lost>>

Steps == {"start", "probe", "stale", "acquire", "created", "held", "publishing",
          "releasing", "done", "killed"}

TypeOK ==
    /\ lock \in Procs \cup {NoFile}
    /\ filled \in BOOLEAN
    /\ pc \in [Procs -> Steps]
    /\ seen \in [Doctors -> Procs \cup {NoFile}]
    /\ lost \subseteq Procs

Alive(p) == pc[p] \notin {"start", "done", "killed"}

Init ==
    /\ lock = NoFile
    /\ filled = FALSE
    /\ pc = [p \in Procs |-> "start"]
    /\ seen = [d \in Doctors |-> NoFile]
    /\ lost = {}

\* What a reader of the lock file learns: the owner it names.
Names(p) == lock = p /\ filled

Goto(p, step) == pc' = [pc EXCEPT ![p] = step]

\* The name is unlinked by a process that means the lock of owner.
Unlink(owner) ==
    /\ lock' = NoFile /\ filled' = FALSE
    /\ lost' = lost \cup {p \in Procs : lock = p /\ p # owner /\ Alive(p)}

-------------------------------------------------------------------------------
\* A command goes straight for the lock.
CommandStart(p) ==
    /\ p \in Commands /\ pc[p] = "start"
    /\ Goto(p, "acquire")
    /\ UNCHANGED <<lock, filled, seen, lost>>

\* inspect_lock, first half: absent, unreadable, or an owner to ask about.
ReadLock(d) ==
    /\ pc[d] = "start"
    /\ \/ lock = NoFile /\ Goto(d, "acquire") /\ UNCHANGED seen
       \/ lock # NoFile /\ ~filled /\ Goto(d, "done") /\ UNCHANGED seen
       \/ /\ lock # NoFile /\ filled
          /\ Goto(d, "probe")
          /\ seen' = [seen EXCEPT ![d] = lock]
    /\ UNCHANGED <<lock, filled, lost>>

\* Mutant: the owner's life is not looked at.
ProbeNothing(d) ==
    /\ pc[d] = "probe"
    /\ Goto(d, "stale")
    /\ UNCHANGED <<lock, filled, seen, lost>>

\* inspect_lock, second half: a live owner makes the workspace busy.
Probe(d) ==
    /\ pc[d] = "probe"
    /\ Goto(d, IF Alive(seen[d]) THEN "done" ELSE "stale")
    /\ UNCHANGED <<lock, filled, seen, lost>>

\* The lock proved stale is unlinked by name; a missing file raises.
RemoveStale(d) ==
    /\ pc[d] = "stale"
    /\ IF lock = NoFile THEN Goto(d, "done") ELSE Goto(d, "acquire")
    /\ Unlink(seen[d])
    /\ UNCHANGED seen

\* Mutant: creation is not exclusive.
CreateOver(p) ==
    /\ pc[p] = "acquire"
    /\ lock' = p /\ filled' = FALSE
    /\ Goto(p, "created")
    /\ UNCHANGED <<seen, lost>>

\* acquire: exclusive creation.  An existing file makes the caller give up.
Create(p) ==
    /\ pc[p] = "acquire"
    /\ IF lock = NoFile
       THEN lock' = p /\ Goto(p, "created")
       ELSE UNCHANGED lock /\ Goto(p, "done")
    /\ UNCHANGED <<filled, seen, lost>>

\* acquire: the payload is written through the descriptor.  If another process
\* removed the name meanwhile, the bytes go to a file nobody can open.
WriteOwner(p) ==
    /\ pc[p] = "created"
    /\ filled' = (filled \/ lock = p)
    /\ Goto(p, "held")
    /\ UNCHANGED <<lock, seen, lost>>

\* acquire raises while it writes or syncs: the file stays and is not owned.
WriteFails(p) ==
    /\ pc[p] = "created"
    /\ \/ UNCHANGED filled
       \/ filled' = (filled \/ lock = p)
    /\ Goto(p, "done")
    /\ UNCHANGED <<lock, seen, lost>>

\* _require_owned_lock before every publication call.
CheckOwned(p) ==
    /\ pc[p] = "held"
    /\ Goto(p, IF Names(p) THEN "publishing" ELSE "done")
    /\ UNCHANGED <<lock, filled, seen, lost>>

\* release, with or without a publication: check the owner, then unlink by
\* name.
CheckRelease(p) ==
    /\ pc[p] \in {"held", "publishing"}
    /\ Goto(p, IF Names(p) THEN "releasing" ELSE "done")
    /\ UNCHANGED <<lock, filled, seen, lost>>

Release(p) ==
    /\ pc[p] = "releasing"
    /\ Unlink(p)
    /\ Goto(p, "done")
    /\ UNCHANGED seen

Kill(p) ==
    /\ Alive(p)
    /\ Goto(p, "killed")
    /\ UNCHANGED <<lock, filled, seen, lost>>

Step(p) ==
    \/ CommandStart(p)
    \/ Create(p) \/ WriteOwner(p) \/ WriteFails(p) \/ CheckOwned(p)
    \/ CheckRelease(p) \/ Release(p)
    \/ Kill(p)

DoctorStep(d) == ReadLock(d) \/ Probe(d) \/ RemoveStale(d)

Next == (\E p \in Procs : Step(p)) \/ (\E d \in Doctors : DoctorStep(d))

Spec == Init /\ [][Next]_vars

-------------------------------------------------------------------------------
\* Between the ownership check and the release of a process no other passes
\* the check, unless the lock of one of the two was unlinked under it by a
\* process that meant another: whatever is killed, and however many doctors
\* look at one stale lock.  (WorkspaceLock, _require_owned_lock)
MutualExclusion ==
    \A p, q \in Procs \ lost :
        pc[p] \in {"publishing", "releasing"} /\ pc[q] \in {"publishing", "releasing"}
          => p = q

\* A process that lives keeps the lock that a doctor read and asked about; its
\* lock goes when it releases it, or when it took its name between a doctor's
\* reading and unlinking.  (inspect_lock, RemoveStale)
LiveLockKept ==
    [][ \A p \in Procs :
          lock = p /\ lock' # p
            => ~Alive(p) \/ pc[p] = "releasing" \/ p \in lost' ]_vars

\* What the documents say: "One accepted state-changing command holds one
\* exclusive workspace lock", and doctor removes a stale lock "after proving that
\* its owner stopped".  (docs/architecture.md:113, docs/doctor.md:34)
OnePublisher ==
    \A p, q \in Procs : pc[p] = "publishing" /\ pc[q] = "publishing" => p = q

===============================================================================
