---------------------------- MODULE WorkspaceViews ----------------------------
(***************************************************************************)
(* Generated views, the index that vouches for them, and the input files   *)
(* they are derived from: workspace_views.py and the commands of           *)
(* workspace_commands.py that publish views, beside a user who edits input *)
(* files and view files at any time without the workspace lock.            *)
(*                                                                         *)
(* Commands exclude each other (WorkspaceLock) and publish atomically      *)
(* (Publication).  Derivation is the function View: the local model is     *)
(* off.  A proof is a keyed digest of the bytes it is of, so it is those   *)
(* bytes here; a view's three files are one value.                         *)
(***************************************************************************)
EXTENDS Naturals

CONSTANTS
    Periods,        \* calendar months and "undated"
    InputFiles,     \* corrections, rules, rates, mappings, config, profiles
    InputValues,
    Corrections,    \* the input file that reviews and resets write
    Facts,          \* what import records and the overlap manifest can hold
    NoFacts,        \* the facts of a new workspace
    View(_, _),     \* facts and inputs to the view of every period
    Contents,       \* views that a derivation can give
    Empty,          \* the view of a period without transactions
    UserBytes,      \* what a user may put in place of a view
    Absent,         \* no view files
    None            \* nothing

Inputs == [InputFiles -> InputValues]

ASSUME NamesAssumption ==
    /\ Corrections \in InputFiles /\ NoFacts \in Facts /\ Empty \in Contents
    /\ None \notin Contents \cup Inputs \cup InputFiles \cup InputValues
    /\ Absent \notin Contents /\ UserBytes \cap Contents = {}
ASSUME ViewAssumption ==
    \A i \in Inputs :
       /\ \A f \in Facts : View(f, i) \in [Periods -> Contents]
       /\ View(NoFacts, i) = [p \in Periods |-> Empty]

VARIABLES
    facts,          \* the workspace's facts
    inputs,         \* the input files
    proofs,         \* the index's input_proofs, None while the list is empty
    registered,     \* the index's registered_views: period -> proof, or None
    installed,      \* period -> its files
    cmd,            \* the command that holds the lock, or None
    held,           \* a review begun but not saved yet, or None
    torn            \* history: the views were derived from other inputs than
                    \* the index has proofs of

vars == <<facts, inputs, proofs, registered, installed, cmd, held, torn>>

\* A review: the views it derived, None before it has, whether the inputs it read
\* had been edited since it checked them, and whether no generation came since.
Review ==
    [view : [Periods -> Contents] \cup {None}, edited : BOOLEAN, fresh : BOOLEAN]

Command ==
    [kind : {"write", "import", "rebuild", "rebuild_all"},
     file : InputFiles \cup {None},     \* the input file it writes
     value : InputValues \cup {None},   \* what it writes there
     facts : Facts,                     \* the facts it leaves
     periods : SUBSET Periods,          \* selected to rebuild
     begun : Inputs,                    \* the inputs when it began
     seen : Inputs \cup {None},         \* the inputs it derives from
     decided : Review \cup {None}]      \* the review it saves

TypeOK ==
    /\ facts \in Facts /\ inputs \in Inputs /\ torn \in BOOLEAN
    /\ proofs \in Inputs \cup {None}
    /\ registered \in [Periods -> Contents \cup {None}]
    /\ installed \in [Periods -> Contents \cup UserBytes \cup {Absent}]
    /\ cmd = None \/ cmd \in Command
    /\ held = None \/ held \in Review

Init ==
    /\ facts = NoFacts /\ inputs \in Inputs
    /\ proofs = None
    /\ registered = [p \in Periods |-> None]
    /\ installed = [p \in Periods |-> Absent]
    /\ cmd = None /\ held = None /\ torn = FALSE

-------------------------------------------------------------------------------
(***************************************************************************)
(* Beginning a command.                                                    *)
(***************************************************************************)

\* _require_current_input_proofs
InputsCurrent == proofs = None \/ proofs = inputs

Start(kind, file, value, next, periods, decided) ==
    /\ cmd = None
    /\ cmd' = [kind |-> kind, file |-> file, value |-> value, facts |-> next,
               periods |-> periods, begun |-> inputs, seen |-> None,
               decided |-> decided]
    /\ UNCHANGED <<facts, inputs, proofs, registered, installed, torn>>

\* Corrections, learned rules, rates, mappings or a configuration.
BeginWrite(file, value) ==
    /\ InputsCurrent
    /\ Start("write", file, value, facts, {}, None)
    /\ UNCHANGED held

\* An import or a replacement, and a reset, which writes corrections as well.
BeginImport(next) ==
    /\ InputsCurrent
    /\ \/ Start("import", None, None, next, {}, None)
       \/ \E v \in InputValues : Start("import", Corrections, v, next, {}, None)
    /\ UNCHANGED held

\* A choice of duplicates writes corrections and the overlap manifest.
BeginResolve(next, value) ==
    /\ InputsCurrent
    /\ Start("write", Corrections, value, next, {}, None)
    /\ UNCHANGED held

\* Mutant: a narrow rebuild is content with any inputs.
BeginRebuildAnyway(periods) ==
    /\ Start("rebuild", None, None, facts, periods, None)
    /\ UNCHANGED held

BeginRebuild(periods) ==
    /\ InputsCurrent
    /\ Start("rebuild", None, None, facts, periods, None)
    /\ UNCHANGED held

BeginRebuildAll ==
    /\ Start("rebuild_all", None, None, facts, {}, None)
    /\ UNCHANGED held

\* A review checks the inputs; fresh stands for the generation id it notes.
BeginDecide ==
    /\ InputsCurrent
    /\ held' = [view |-> None, edited |-> FALSE, fresh |-> TRUE]
    /\ UNCHANGED <<facts, inputs, proofs, registered, installed, cmd, torn>>

\* It reads them and derives the views it looks at, with or without the lock.
Decide ==
    /\ held # None /\ held.view = None
    /\ held' = [held EXCEPT !.view = View(facts, inputs), !.edited = ~ InputsCurrent]
    /\ UNCHANGED <<facts, inputs, proofs, registered, installed, cmd, torn>>

\* Mutant: the generation may have changed.
BeginReviewLate(value) ==
    /\ held # None /\ held.view # None
    /\ InputsCurrent
    /\ Start("write", Corrections, value, facts, {}, held)
    /\ held' = None

\* apply_workspace_corrections with expected_generation_id.
BeginReview(value) ==
    /\ held # None /\ held.view # None /\ held.fresh
    /\ InputsCurrent
    /\ Start("write", Corrections, value, facts, {}, held)
    /\ held' = None

\* The command reads the inputs.
Derive ==
    /\ cmd # None /\ cmd.seen = None
    /\ cmd' = [cmd EXCEPT !.seen = inputs]
    /\ UNCHANGED <<facts, inputs, proofs, registered, installed, held, torn>>

\* A command that fails has published nothing.
Fail == cmd # None /\ cmd' = None
        /\ UNCHANGED <<facts, inputs, proofs, registered, installed, held, torn>>

-------------------------------------------------------------------------------
(***************************************************************************)
(* Planning views.                                                         *)
(***************************************************************************)
Implied(view) == {p \in Periods : view[p] # Empty}
Registered    == {p \in Periods : registered[p] # None}

\* The inputs with what the command writes.
Written(i) == IF cmd.file = None THEN i ELSE [i EXCEPT ![cmd.file] = cmd.value]

Prior == View(facts, cmd.seen)
After == View(cmd.facts, Written(cmd.seen))

Considered == Implied(Prior) \cup Implied(After) \cup Registered

\* Periods whose registered proof is not the next unit's.
Affected == {p \in Considered : registered[p] # After[p]}

\* Mutant: every view that differs is written.
RewrittenAll == {p \in Considered : installed[p] # After[p]}

\* Affected periods whose files are not the next unit's yet.
Rewritten == {p \in Affected : installed[p] # After[p]}

Update(map, set, view) ==
    [p \in Periods |-> IF p \in set THEN view[p] ELSE map[p]]

\* Every publication has a generation id of its own.
Stale == IF held = None THEN None ELSE [held EXCEPT !.fresh = FALSE]

\* A write that changes neither its file nor a view publishes nothing.
NothingToRefresh ==
    /\ cmd.kind = "write" /\ cmd.facts = facts /\ inputs[cmd.file] = cmd.value
    /\ Rewritten = {}

\* plan_automatic_view_refresh; the proofs are those of the inputs as they are
\* now, not as they were when they were read.
Refresh ==
    /\ cmd # None /\ cmd.kind \in {"write", "import"} /\ cmd.seen # None
    /\ cmd' = None
    /\ IF NothingToRefresh
       THEN UNCHANGED <<facts, inputs, proofs, registered, installed, held, torn>>
       ELSE /\ facts' = cmd.facts
            /\ inputs' = Written(inputs)
            /\ proofs' = inputs'
            /\ registered' = Update(registered, Affected, After)
            /\ installed' = Update(installed, Rewritten, After)
            /\ held' = Stale
            /\ torn' = (Written(cmd.seen) # inputs')

Selected == IF cmd.kind = "rebuild_all" THEN Implied(Prior) ELSE cmd.periods

\* Selected views whose registered proof or whose files differ.
Outdated == {p \in Selected : registered[p] # Prior[p] \/ installed[p] # Prior[p]}

Removed == IF cmd.kind = "rebuild_all" THEN Registered \ Implied(Prior) ELSE {}

NextRegistered ==
    [p \in Periods |->
       IF p \in Selected THEN Prior[p]
       ELSE IF cmd.kind = "rebuild_all" THEN None ELSE registered[p]]

\* plan_workspace_views; the proofs are those of the inputs when it began.
Rebuild ==
    /\ cmd # None /\ cmd.kind \in {"rebuild", "rebuild_all"} /\ cmd.seen # None
    /\ cmd' = None
    /\ UNCHANGED <<facts, inputs>>
    /\ IF Outdated = {} /\ Removed = {} /\ proofs = cmd.begun
       THEN UNCHANGED <<proofs, registered, installed, held, torn>>
       ELSE /\ proofs' = cmd.begun
            /\ registered' = NextRegistered
            /\ installed' = [p \in Periods |->
                               IF p \in Outdated THEN Prior[p]
                               ELSE IF p \in Removed THEN Absent
                               ELSE installed[p]]
            /\ held' = Stale
            /\ torn' = (cmd.seen # cmd.begun \/ (torn /\ cmd.kind = "rebuild"))

-------------------------------------------------------------------------------
(***************************************************************************)
(* Doctor and the user.                                                    *)
(***************************************************************************)

\* The views that doctor derives are the registered ones.
Rederivable ==
    /\ proofs = inputs
    /\ \A p \in Registered : registered[p] = View(facts, inputs)[p]

\* doctor --fix restores view files to the registered views.
DoctorRepair ==
    /\ cmd = None /\ Rederivable
    /\ \E p \in Registered : installed[p] # registered[p]
    /\ installed' = Update(installed, Registered, registered)
    /\ held' = Stale
    /\ UNCHANGED <<facts, inputs, proofs, registered, cmd, torn>>

EditInput(file, value) ==
    /\ inputs' = [inputs EXCEPT ![file] = value]
    /\ UNCHANGED <<facts, proofs, registered, installed, cmd, held, torn>>

EditView(p, bytes) ==
    /\ installed' = [installed EXCEPT ![p] = bytes]
    /\ UNCHANGED <<facts, inputs, proofs, registered, cmd, held, torn>>

Begin ==
    \/ \E f \in InputFiles, v \in InputValues : BeginWrite(f, v)
    \/ \E n \in Facts : BeginImport(n)
    \/ \E n \in Facts, v \in InputValues : BeginResolve(n, v)
    \/ \E s \in SUBSET Periods : BeginRebuild(s)
    \/ BeginRebuildAll
    \/ \E v \in InputValues : BeginReview(v)

User ==
    \/ \E f \in InputFiles, v \in InputValues : EditInput(f, v)
    \/ \E p \in Periods, b \in UserBytes \cup {Absent} : EditView(p, b)

Next ==
    \/ Begin \/ BeginDecide \/ Decide
    \/ Derive \/ Fail \/ Refresh \/ Rebuild \/ DoctorRepair \/ User

Spec == Init /\ [][Next]_vars

-------------------------------------------------------------------------------
(***************************************************************************)
(* Properties.                                                             *)
(***************************************************************************)

\* The registered views are those of the facts and of the inputs that the index
\* has proofs of.  (README.md, "Other writers fail with full_rebuild_required")
ProofsStand ==
    proofs # None =>
        \A p \in Registered : registered[p] = View(facts, proofs)[p]

\* They are, unless an input was edited while a command had read it already:
\* no sequence of refreshes, narrow rebuilds and full rebuilds mixes views of
\* different inputs under one set of proofs.
ViewsAsProved == ~ torn => ProofsStand

\* No period with transactions is without a registered view.
EveryPeriodRegistered ==
    ~ torn /\ proofs # None => Implied(View(facts, proofs)) \subseteq Registered

\* The files of a registered view are that view or what a user made of them;
\* never an older view.  (_unit_matches_installed)
InstalledAsRegistered ==
    \A p \in Registered :
        installed[p] \in {registered[p], Absent} \cup UserBytes

\* Registered views, their files and the periods that need one keep in step with
\* the inputs that the index has proofs of.
ViewsInStep == ViewsAsProved /\ EveryPeriodRegistered /\ InstalledAsRegistered

\* A refresh does not touch a view that does not change, even if its files are
\* missing or edited.  (docs/adr/0008, "It does not repair unrelated ... views")
RefreshLeavesAlone ==
    [][ Refresh /\ ~ torn /\ proofs # None /\ ~ torn' =>
          \A p \in Registered :
             View(facts, proofs)[p] = View(facts', proofs')[p]
               => installed'[p] = installed[p] ]_vars

\* After a full rebuild exactly the implied periods are registered, and their
\* files are the views, whatever was there before.  (docs/adr/0008, "the full
\* output oracle")
RebuildAllIsOracle ==
    [][ Rebuild /\ cmd.kind = "rebuild_all" =>
          \A p \in Periods :
             IF p \in Implied(Prior)
             THEN registered'[p] = Prior[p] /\ installed'[p] = Prior[p]
             ELSE registered'[p] = None ]_vars

\* A refresh writes no more than it must, a full rebuild no less.
WritesExactly == RefreshLeavesAlone /\ RebuildAllIsOracle

\* A review is saved over the views it was decided on, unless an input was edited
\* after the review checked it and before it read it.  (expected_generation_id)
ReviewStands ==
    cmd # None /\ cmd.decided # None /\ ~ cmd.decided.edited /\ proofs # None =>
       cmd.decided.view = View(facts, proofs)
===============================================================================
