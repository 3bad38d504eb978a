---------------------------- MODULE BindingCommands ----------------------------
(***************************************************************************)
(* The commands that edit the profile mappings or the configuration, under *)
(* the workspace lock: profile bind, replace-pattern, remove-pattern       *)
(* (src/honeymoney/cli.py, apply_workspace_profile_mappings) and config    *)
(* edit ollama (apply_workspace_config).                                   *)
(*                                                                         *)
(* A command computes its whole new document before it asks for the lock   *)
(* that it publishes under: a mappings document from a file it read with   *)
(* no lock at all, a configuration from a file it read under an earlier    *)
(* lock.  What keeps the edit of another command is the generation it      *)
(* noted before it read.                                                   *)
(*                                                                         *)
(* A command that publishes something else only moves the generation on.   *)
(* A stop inside a publication is the subject of module Publication; here  *)
(* a publication is the two steps another command can read between.        *)
(***************************************************************************)
EXTENDS WorkspaceLock, AccountBindings

CONSTANTS
    Models,     \* names of local models
    Requests,   \* the edits users ask for
    Workspaces  \* the documents of a workspace before these commands

VARIABLES
    documents,  \* the two documents on disk
    generation, \* the generation the index names
    edit,       \* command -> what its user asked for
    noted,      \* command -> the generation it noted
    draft,      \* command -> the document it will write
    stage,      \* process -> how far its change has come
    last        \* binding -> its latest edit that was installed (history)

editVars == <<documents, generation, edit, noted, draft, stage, last>>
allVars  == <<vars, editVars>>

Config == [enabled : BOOLEAN, model : Models]

ConfigEdit ==
    [kind : {"enable", "disable"}] \cup [kind : {"model"}, model : Models]

EditedConfig(config, e) ==
    CASE e.kind = "enable"  -> [config EXCEPT !.enabled = TRUE]
      [] e.kind = "disable" -> [config EXCEPT !.enabled = FALSE]
      [] e.kind = "model"   -> [enabled |-> TRUE, model |-> e.model]

File(e) == IF e \in ConfigEdit THEN "config" ELSE "mappings"

\* What an edit makes of its document: nothing if it is refused.
Outcome(e, document) ==
    IF e \in ConfigEdit THEN {EditedConfig(document, e)} ELSE Edited(document, e)

Stages == {"new", "noted", "drafted", "checked", "installing", "saved", "ended",
           "other"}

Files == {"mappings", "config"}

Documents ==
    {docs \in [Files -> Document \cup Config] :
        docs["mappings"] \in Document /\ docs["config"] \in Config}

ASSUME RequestsAssumption ==
    /\ Requests \subseteq Edit \cup ConfigEdit
    /\ Workspaces \subseteq Documents

EditTypeOK ==
    /\ TypeOK
    /\ documents \in Documents
    /\ generation \in Nat
    /\ edit \in [Commands -> Requests \cup {None}]
    /\ noted \in [Commands -> Nat]
    /\ draft \in [Commands -> Document \cup Config \cup {None}]
    /\ stage \in [Procs -> Stages]
    /\ last \in [BindingIds -> Edit \cup {None}]

EditInit ==
    /\ Init
    /\ documents \in Workspaces
    /\ generation = 0
    /\ edit = [p \in Commands |-> None]
    /\ noted = [p \in Commands |-> 0]
    /\ draft = [p \in Commands |-> None]
    /\ stage = [p \in Procs |-> IF p \in Commands THEN "new" ELSE "other"]
    /\ last = [b \in BindingIds |-> None]

Reach(p, next) == stage' = [stage EXCEPT ![p] = next]

-------------------------------------------------------------------------------
\* A mappings command loads the workspace: it notes the generation.
NoteGeneration(p) ==
    /\ stage[p] = "new"
    /\ \E e \in Requests \ ConfigEdit :
          edit' = [edit EXCEPT ![p] = e]
    /\ noted' = [noted EXCEPT ![p] = generation]
    /\ Reach(p, "noted")
    /\ UNCHANGED <<vars, documents, generation, draft, last>>

\* It reads the mappings file and edits what it read, holding no lock.
ReadMappings(p) ==
    LET edited == Outcome(edit[p], documents["mappings"]) IN
    /\ stage[p] = "noted"
    /\ \/ edited = {} /\ Reach(p, "ended") /\ UNCHANGED draft
       \/ \E next \in edited :
             draft' = [draft EXCEPT ![p] = next] /\ Reach(p, "drafted")
    /\ UNCHANGED <<vars, documents, generation, edit, noted, last>>

\* config edit: document and generation are read under one short lock.
StageConfig(p) ==
    /\ stage[p] = "new"
    /\ lock = NoFile
    /\ \E e \in Requests \cap ConfigEdit : \E next \in Outcome(e, documents["config"]) :
          /\ edit' = [edit EXCEPT ![p] = e]
          /\ draft' = [draft EXCEPT ![p] = next]
    /\ noted' = [noted EXCEPT ![p] = generation]
    /\ Reach(p, "drafted")
    /\ UNCHANGED <<vars, documents, generation, last>>

\* With its document ready the command goes for the lock.
StartEdit(p) ==
    /\ stage[p] = "drafted"
    /\ CommandStart(p)
    /\ UNCHANGED editVars

\* A command that leaves both documents alone.
StartOther(p) ==
    /\ stage[p] = "new"
    /\ CommandStart(p)
    /\ Reach(p, "other")
    /\ UNCHANGED <<documents, generation, edit, noted, draft, last>>

\* Mutant: the generation under the lock is not compared with the noted one.
AnyGeneration(p) == TRUE

\* No other command has published since this one noted the generation.
Fresh(p) == noted[p] = generation

\* Under the lock the draft goes on if it is fresh, accepted and differs from
\* the file; else the command ends without a publication.
CheckMappings(p) ==
    /\ pc[p] = "held" /\ stage[p] = "drafted" /\ edit[p] \notin ConfigEdit
    /\ Reach(p, IF Fresh(p) /\ Valid(draft[p]) /\ draft[p] # documents["mappings"]
                THEN "checked" ELSE "ended")
    /\ UNCHANGED <<vars, documents, generation, edit, noted, draft, last>>

CheckConfig(p) ==
    /\ pc[p] = "held" /\ stage[p] = "drafted" /\ edit[p] \in ConfigEdit
    /\ Reach(p, IF Fresh(p) /\ draft[p] # documents["config"]
                THEN "checked" ELSE "ended")
    /\ UNCHANGED <<vars, documents, generation, edit, noted, draft, last>>

\* The publication puts the document in place ...
InstallMappings(p) ==
    /\ pc[p] = "publishing" /\ stage[p] = "checked" /\ edit[p] \notin ConfigEdit
    /\ documents' = [documents EXCEPT !["mappings"] = draft[p]]
    /\ last' = [last EXCEPT ![edit[p].id] = edit[p]]
    /\ Reach(p, "installing")
    /\ UNCHANGED <<vars, generation, edit, noted, draft>>

InstallConfig(p) ==
    /\ pc[p] = "publishing" /\ stage[p] = "checked" /\ edit[p] \in ConfigEdit
    /\ documents' = [documents EXCEPT !["config"] = draft[p]]
    /\ Reach(p, "installing")
    /\ UNCHANGED <<vars, generation, edit, noted, draft, last>>

\* ... and, last, the index that names the new generation.
InstallIndex(p) ==
    /\ pc[p] = "publishing" /\ stage[p] \in {"installing", "other"}
    /\ generation' = generation + 1
    /\ Reach(p, "saved")
    /\ UNCHANGED <<vars, documents, edit, noted, draft, last>>

\* The lock's own steps, where the command's place in its change allows them.
LockStep(p) ==
    /\ \/ Create(p) \/ WriteOwner(p) \/ WriteFails(p) \/ Release(p)
       \/ stage[p] \in {"checked", "other"} /\ CheckOwned(p)
       \/ stage[p] # "installing" /\ (CheckRelease(p) \/ Kill(p))
    /\ UNCHANGED editVars

DoctorLockStep(d) ==
    /\ DoctorStep(d)
    /\ UNCHANGED editVars

EditStep(p) ==
    \/ NoteGeneration(p) \/ ReadMappings(p) \/ StageConfig(p)
    \/ StartEdit(p) \/ StartOther(p)
    \/ CheckMappings(p) \/ CheckConfig(p)
    \/ InstallMappings(p) \/ InstallConfig(p)

EditNext ==
    \/ \E p \in Commands : EditStep(p)
    \/ \E p \in Procs : LockStep(p) \/ InstallIndex(p)
    \/ \E d \in Doctors : DoctorLockStep(d)

EditSpec == EditInit /\ [][EditNext]_allVars

-------------------------------------------------------------------------------
\* No edit is lost: whatever changes a document is the edit some command was
\* asked for, applied to the document as it stands at that moment and not as
\* the command read it.  (cli.py:784, apply_workspace_profile_mappings)
EditsCompose ==
    [][ documents' # documents /\ lost = {} =>
          \E p \in Commands :
             LET file == File(edit[p]) IN
             /\ pc[p] = "publishing"
             /\ documents'[file] \in Outcome(edit[p], documents[file])
             /\ \A other \in Files \ {file} :
                   documents'[other] = documents[other] ]_allVars

\* A profile command whose answer was lost may be repeated: while its edit is
\* the latest of its binding, repeating it is accepted and changes nothing,
\* whatever was done to other bindings since.  (replace_binding_pattern,
\* remove_binding_pattern and their receipts)
RetriesAnswered ==
    lost = {} => \A b \in BindingIds :
        last[b] # None => Edited(documents["mappings"], last[b]) = {documents["mappings"]}

===============================================================================
