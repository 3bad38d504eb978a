-------------------------- MODULE ExchangeMatching --------------------------
(***************************************************************************)
(* Which exchange debits belong to which foreign deposits                   *)
(* (src/honeymoney/reconciliation.py).  The debits and the deposits of one  *)
(* event are numbered 1..n; edges[b] is the set of deposits whose amount,   *)
(* against debit b, gives an acceptable rate.  The event is paired only if  *)
(* there is exactly one perfect matching, which the code finds by           *)
(* augmenting paths and by a second search without each edge in turn.       *)
(***************************************************************************)
EXTENDS Integers, FiniteSets

\* Nothing is excluded: no debit and no deposit has the number 0.
NoEdge == <<0, 0>>

Allowing(edges, excluded) ==
    [b \in DOMAIN edges |-> {f \in edges[b] : <<b, f>> # excluded}]

(* A search: the deposits seen so far, which the whole search shares, as    *)
(* the set that assign mutates is, and held[f], the debit that holds        *)
(* deposit f, or 0.                                                         *)
Searches(n) == [ok : BOOLEAN, seen : SUBSET (1..n), held : [1..n -> 0..n]]

(* A debit b tries its deposits in increasing order.  "again" is the search *)
(* with one attempt less: for the debit that must give its deposit up, and  *)
(* for b with its next deposit.                                             *)
Attempt(edges, again, b, search) ==
    LET open == edges[b] \ search.seen
    IN  IF search.ok \/ open = {} THEN search
        ELSE LET f == CHOOSE f \in open : \A g \in open : f <= g
                 marked == [search EXCEPT !.seen = @ \cup {f}]
                 moved == IF marked.held[f] = 0 THEN [marked EXCEPT !.ok = TRUE]
                          ELSE again[marked.held[f]][marked]
             IN  IF moved.ok THEN [moved EXCEPT !.held[f] = b] ELSE again[b][moved]

(* Every attempt sees a new deposit, so as many as there are deposits are   *)
(* enough.                                                                  *)
Assign(edges, n) ==
    LET assign[k \in 0..n] ==
            [b \in 1..n |-> [search \in Searches(n) |->
                IF k = 0 THEN search ELSE Attempt(edges, assign[k - 1], b, search)]]
    IN  assign[n]

(* The debits find their deposits one after the other; a debit that finds  *)
(* none ends the search.                                                    *)
Augmented(edges, n, b, before) ==
    IF ~before.found THEN before
    ELSE LET after == Assign(edges, n)[b][[ok |-> FALSE, seen |-> {}, held |-> before.held]]
         IN  [found |-> after.ok, held |-> after.held]

Augment(edges, n) ==
    LET augment[b \in 0..n] ==
            IF b = 0 THEN [found |-> TRUE, held |-> [f \in 1..n |-> 0]]
            ELSE Augmented(edges, n, b, augment[b - 1])
    IN  augment[n]

PerfectMatching(edges, excluded) ==
    LET n == Cardinality(DOMAIN edges)
        result == Augment(Allowing(edges, excluded), n)
    IN  IF result.found
        THEN {[b \in 1..n |-> CHOOSE f \in 1..n : result.held[f] = b]}
        ELSE {}

(* The matching, as a set of at most one: none is returned when another    *)
(* perfect matching exists that avoids one of its edges.                    *)
UniqueMatching(edges) ==
    {m \in PerfectMatching(edges, NoEdge) :
        \A b \in DOMAIN m : PerfectMatching(edges, <<b, m[b]>>) = {}}

-----------------------------------------------------------------------------
(* What the search is for: every way to give each debit a deposit of its   *)
(* own over an acceptable rate.                                             *)
Matchings(edges) ==
    {m \in [DOMAIN edges -> DOMAIN edges] :
        /\ \A b \in DOMAIN edges : m[b] \in edges[b]
        /\ \A b, c \in DOMAIN edges : b # c => m[b] # m[c]}

OnlyMatching(edges) ==
    IF Cardinality(Matchings(edges)) = 1 THEN Matchings(edges) ELSE {}

(* The two agree on every relation between as many debits and deposits.    *)
ExactUpTo(max) ==
    \A n \in 1..max : \A edges \in [1..n -> SUBSET (1..n)] :
        UniqueMatching(edges) = OnlyMatching(edges)
=============================================================================
