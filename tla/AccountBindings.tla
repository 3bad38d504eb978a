---------------------------- MODULE AccountBindings ----------------------------
(***************************************************************************)
(* The profile mappings document and the edits of it that the commands     *)
(* profile bind, replace-pattern and remove-pattern make                   *)
(* (src/honeymoney/account_bindings.py).                                   *)
(*                                                                         *)
(* A document binds filename patterns to profiles, and some of them to an  *)
(* account binding.  It also keeps a receipt of the last removal or        *)
(* replacement of a pattern of each binding, so that a command that is     *)
(* repeated because its answer was lost succeeds again and changes         *)
(* nothing.  An edit is an operator from a document to the set of          *)
(* documents it may lead to: empty when it is refused.                     *)
(***************************************************************************)
EXTENDS Functions

CONSTANTS
    Patterns,       \* filename patterns
    BindingIds,
    Profiles,
    Accounts,       \* identities of a user's own accounts
    None            \* no binding

ASSUME NoneAssumption == None \notin BindingIds

\* An account binding: the owner and the account names a row takes from it
\* tell no edits apart and are left out.
Binding == [profile : Profiles, accounts : SUBSET Accounts \ {{}}]

\* What a pattern selects.
Selection == [profile : Profiles, binding : BindingIds \cup {None}]

Document ==
    [bindings : UNION {[ids -> Binding] : ids \in SUBSET BindingIds},
     patterns : UNION {[set -> Selection] : set \in SUBSET Patterns},
     removed  : SUBSET [binding : BindingIds, pattern : Patterns],
     replaced : SUBSET [binding : BindingIds, old : Patterns, new : Patterns]]

Edit ==
    [kind : {"bind"}, id : BindingIds, binding : Binding, pattern : Patterns]
      \cup [kind : {"replace"}, id : BindingIds, old : Patterns, new : Patterns]
      \cup [kind : {"remove"}, id : BindingIds, pattern : Patterns, yes : BOOLEAN]

With(f, x, value) == [y \in DOMAIN f \cup {x} |-> IF y = x THEN value ELSE f[y]]
Without(f, x)     == Restrict(f, DOMAIN f \ {x})

Selects(doc, pattern, profile, id) ==
    /\ pattern \in DOMAIN doc.patterns
    /\ doc.patterns[pattern] = [profile |-> profile, binding |-> id]

\* The patterns that select one binding.
Uses(doc, id) == {p \in DOMAIN doc.patterns : doc.patterns[p].binding = id}

\* Mutant: every edit clears the receipts of all bindings.
ForgetAll(doc, id) == [doc EXCEPT !.removed = {}, !.replaced = {}]

\* An edit clears the receipts of its binding, and only those.
Forget(doc, id) ==
    [doc EXCEPT !.removed  = {r \in @ : r.binding # id},
                !.replaced = {r \in @ : r.binding # id}]

--------------------------------------------------------------------------------
\* A binding is added or replaced; its pattern may exist if it selects the same
\* profile and no other binding.
Bind(doc, e) ==
    LET selection == [profile |-> e.binding.profile, binding |-> e.id]
        taken == /\ e.pattern \in DOMAIN doc.patterns
                 /\ doc.patterns[e.pattern]
                      \notin {selection, [selection EXCEPT !.binding = None]}
    IN  IF taken THEN {}
        ELSE {[Forget(doc, e.id) EXCEPT
                 !.bindings = With(@, e.id, e.binding),
                 !.patterns = With(@, e.pattern, selection)]}

\* The new pattern takes the old one's place, or is there already for the same
\* binding.
ReplaceUsed(doc, e) ==
    LET profile == doc.bindings[e.id].profile
        taken == e.new \in DOMAIN doc.patterns /\ ~ Selects(doc, e.new, profile, e.id)
    IN  IF taken THEN {}
        ELSE {[Forget(doc, e.id) EXCEPT
                 !.patterns = With(Without(@, e.old), e.new,
                                   [profile |-> profile, binding |-> e.id]),
                 !.replaced = @ \cup {[binding |-> e.id, old |-> e.old, new |-> e.new]}]}

\* The old pattern is not the binding's: was it replaced by this very command?
ReplayReplace(doc, e) ==
    IF /\ [binding |-> e.id, old |-> e.old, new |-> e.new] \in doc.replaced
       /\ Selects(doc, e.new, doc.bindings[e.id].profile, e.id)
    THEN {doc} ELSE {}

ReplacePattern(doc, e) ==
    IF e.id \notin DOMAIN doc.bindings THEN {}
    ELSE IF e.old \notin Uses(doc, e.id) THEN ReplayReplace(doc, e)
    ELSE IF e.old = e.new THEN {doc}
    ELSE ReplaceUsed(doc, e)

\* The last pattern takes its binding with it, on confirmation.
RemoveUsed(doc, e) ==
    LET final == Uses(doc, e.id) = {e.pattern}
    IN  IF final /\ ~ e.yes THEN {}
        ELSE {[Forget(doc, e.id) EXCEPT
                 !.patterns = Without(@, e.pattern),
                 !.bindings = IF final THEN Without(@, e.id) ELSE @,
                 !.removed  = @ \cup {[binding |-> e.id, pattern |-> e.pattern]}]}

ReplayRemove(doc, e) ==
    IF [binding |-> e.id, pattern |-> e.pattern] \in doc.removed THEN {doc} ELSE {}

RemovePattern(doc, e) ==
    IF e.id \in DOMAIN doc.bindings /\ e.pattern \in Uses(doc, e.id)
    THEN RemoveUsed(doc, e) ELSE ReplayRemove(doc, e)

Edited(doc, e) ==
    CASE e.kind = "bind"    -> Bind(doc, e)
      [] e.kind = "replace" -> ReplacePattern(doc, e)
      [] e.kind = "remove"  -> RemovePattern(doc, e)

--------------------------------------------------------------------------------
\* No account belongs to two bindings.
AccountsApart(doc) ==
    \A a, b \in DOMAIN doc.bindings :
        a # b => doc.bindings[a].accounts \cap doc.bindings[b].accounts = {}

\* Every pattern's binding exists and has the pattern's profile.
PatternsResolve(doc) ==
    \A p \in DOMAIN doc.patterns :
        LET selected == doc.patterns[p] IN
        selected.binding # None =>
           /\ selected.binding \in DOMAIN doc.bindings
           /\ doc.bindings[selected.binding].profile = selected.profile

\* What validation refuses of a document that an edit made.
Valid(doc) == AccountsApart(doc) /\ PatternsResolve(doc)

NoMappings ==
    [bindings |-> [b \in {} |-> None], patterns |-> [p \in {} |-> None],
     removed |-> {}, replaced |-> {}]
================================================================================
