------------------------------ MODULE Generation ------------------------------
(***************************************************************************)
(* What one accepted command promises its user: the managed files and the  *)
(* workspace index move from one generation to the next in a single step,  *)
(* and every attempt the command reserved gets one immutable report that   *)
(* tells the truth about that step.  There is no journal, no lock and no   *)
(* crash here; module Publication implements this specification.           *)
(***************************************************************************)
EXTENDS Naturals

CONSTANTS
    Files,      \* managed files other than the workspace index
    Content,    \* what a file can hold; one member stands for "no such file"
    Attempts    \* attempt reports, each named by its record and number

VARIABLES
    content,    \* the bytes a reader may rely on, file by file
    gen,        \* the generation the workspace index names
    reports,    \* attempt -> its final document, "none" before it has one
    open,       \* "none", "open" (undecided) or "won" (committed)
    plan        \* what the open command intends

vars == <<content, gen, reports, open, plan>>

Docs == {"success", "failure", "interrupted"}

\* The documents an attempt may end with when its command wins and loses.
Endings == { <<"interrupted", "interrupted">>,   \* reserved, work not finished
             <<"success", "interrupted">>,       \* parsed, success awaits commit
             <<"failure", "failure">> }          \* a known parse failure

PlanType ==
    [new      : [Files -> Content],
     attempts : SUBSET Attempts,
     win      : [Attempts -> Docs],
     lose     : [Attempts -> Docs]]

IsPlan(p) ==
    /\ p \in PlanType
    /\ \A a \in p.attempts : <<p.win[a], p.lose[a]>> \in Endings

Init ==
    /\ content \in [Files -> Content]
    /\ gen \in Nat
    /\ reports = [a \in Attempts |-> "none"]
    /\ open = "none"
    /\ plan \in PlanType

\* An accepted command fixes its intent; its attempts have no report yet.
Begin ==
    /\ open = "none"
    /\ open' = "open"
    /\ IsPlan(plan')
    /\ \A a \in plan'.attempts : reports[a] = "none"
    /\ UNCHANGED <<content, gen, reports>>

\* Work between reservation and publication settles what will be written and
\* how each attempt will end, never which attempts there are.
Revise ==
    /\ open = "open"
    /\ IsPlan(plan')
    /\ plan'.attempts = plan.attempts
    /\ UNCHANGED <<content, gen, reports, open>>

\* All files at once; a failure-only publication keeps the index.
Commit ==
    /\ open = "open"
    /\ open' = "won"
    /\ content' = plan.new
    /\ gen' \in Nat
    /\ gen' >= gen
    /\ gen' = gen => \A a \in plan.attempts : plan.win[a] # "success"
    /\ UNCHANGED <<reports, plan>>

\* Every reserved attempt is reported as the command ended, and only now may
\* the next command begin.
Close ==
    /\ open # "none"
    /\ open' = "none"
    /\ reports' = [a \in Attempts |->
                     IF a \notin plan.attempts THEN reports[a]
                     ELSE IF open = "won" THEN plan.win[a] ELSE plan.lose[a]]
    /\ plan' \in PlanType
    /\ UNCHANGED <<content, gen>>

Next == Begin \/ Revise \/ Commit \/ Close

Spec == Init /\ [][Next]_vars
===============================================================================
