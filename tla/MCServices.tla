------------------------------- MODULE MCServices ------------------------------
(***************************************************************************)
(* The two peers a command talks to: the local model (ModelFallback) and   *)
(* the publisher of reference rates (RateCache).  A behaviour is one of    *)
(* ModelFallback or one of RateCache; the other stands still.              *)
(***************************************************************************)
EXTENDS ModelFallback, RateCache, TLC

\* Three candidates among four unresolved rows, in batches of two: a full batch
\* and a rest; two addresses, one redirect.
MCCorrected == {2}
MCPlain == {1, 2, 3}
MCKeepsOpen == {FALSE}

\* The page loop against a publisher that adds and revises days and against
\* stray documents, beside other commands.
MCDays == 1 .. 4
MCRates == {"a", "b"}
MCDated == {2}
MCAtFirst == {2 :> "a", 1 :> "a" @@ 3 :> "a"}

\* An early day; two days of which one may be revised, with one outside the
\* range.
MCDocuments == {1 :> "a", 2 :> "a" @@ 3 :> "b" @@ 4 :> "a"}

ServicesInit == Init /\ CacheInit

\* The fallback moves, beside one of the tables.
Fallback(A) == CacheInit /\ published = 2 :> "a" /\ A /\ UNCHANGED rateVars

ServicesNext ==
    \/ Fallback(Next)
    \/ Init /\ CacheNext /\ UNCHANGED vars

\* The fairness of FairSpec and FairCacheSpec: requests and pages are only under
\* way in behaviours of their own.
ServicesSpec ==
    /\ ServicesInit /\ [][ServicesNext]_<<vars, rateVars>>
    /\ RequestFairness /\ WF_vars(Fallback(Work))
    /\ WF_rateVars(AnswerPage /\ UNCHANGED cacheVars)
================================================================================
