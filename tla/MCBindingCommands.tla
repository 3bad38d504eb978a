--------------------------- MODULE MCBindingCommands ---------------------------
(***************************************************************************)
(* Two bindings that may want the same filename patterns or the same       *)
(* account, from every document that at most two edits lead to.            *)
(***************************************************************************)
EXTENDS BindingCommands, TLC

CONSTANTS c1, c2, b1, b2, q1, q2, pr, a1, a2, m1, m2

Bound(accounts) == [profile |-> pr, accounts |-> accounts]

MCRequests ==
    {[kind |-> "bind", id |-> b1, binding |-> Bound({a1}), pattern |-> q1],
     [kind |-> "bind", id |-> b2, binding |-> Bound({a2}), pattern |-> q1],
     [kind |-> "bind", id |-> b2, binding |-> Bound({a1, a2}), pattern |-> q2],
     [kind |-> "replace", id |-> b1, old |-> q1, new |-> q2],
     [kind |-> "replace", id |-> b2, old |-> q2, new |-> q1],
     [kind |-> "remove", id |-> b1, pattern |-> q1, yes |-> TRUE],
     [kind |-> "remove", id |-> b2, pattern |-> q1, yes |-> FALSE],
     [kind |-> "remove", id |-> b2, pattern |-> q2, yes |-> TRUE],
     [kind |-> "disable"],
     [kind |-> "enable"],
     [kind |-> "model", model |-> m2]}

\* An empty document, or one with a pattern that a user wrote by hand.
Written == {NoMappings,
            [NoMappings EXCEPT !.patterns =
                (q1 :> [profile |-> pr, binding |-> None])]}

Later(documents_) ==
    documents_ \cup
    {d \in UNION {Edited(doc, e) : doc \in documents_, e \in MCRequests \ ConfigEdit} :
        Valid(d)}

MCWorkspaces ==
    {[mappings |-> doc, config |-> [enabled |-> TRUE, model |-> m1]] :
        doc \in Later(Later(Written))}

Symmetric == Permutations(Commands)
===============================================================================
