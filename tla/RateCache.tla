------------------------------- MODULE RateCache -------------------------------
(***************************************************************************)
(* The local cache of reference rates (rates.py), how a rate values a row  *)
(* (valuation.py), and the commands that change both: a fetch and the      *)
(* import of a downloaded document, which merge under the workspace lock   *)
(* (workspace_commands.apply_workspace_rate_observations) what was read    *)
(* without it, and statement commands, which change which dates have rows. *)
(*                                                                         *)
(* Provenance digests travel with the rate and are left out; the cache,    *)
(* the views and the index are one generation (Publication).               *)
(***************************************************************************)
EXTENDS RateFetch

CONSTANTS
    MaxAge,      \* HKMA_MAX_RATE_AGE_DAYS
    Dated,       \* dates with an exact-date rate in the config
    Fixed,       \* is there a fixed rate for the currency?
    MaxCommands  \* bound: commands other than the fetch

ASSUME CacheConstants ==
    /\ MaxAge \in Nat
    /\ Dated \subseteq Days
    /\ Fixed \in BOOLEAN
    /\ MaxCommands \in Nat

VARIABLES
    observations,  \* the cached observations: day -> rate
    resolutions,   \* requested date -> the observation that answers it
    rows,          \* dates of the workspace's rows in the currency
    commands

cacheVars == <<observations, resolutions, rows, commands>>
rateVars == <<fetchVars, cacheVars>>

Observations == [day : Days, rate : Rates]
Resolutions == UNION {[S -> Observations] : S \in SUBSET Days}

CacheTypeOK ==
    /\ FetchTypeOK
    /\ observations \in Tables
    /\ resolutions \in Resolutions
    /\ rows \subseteq Days
    /\ commands \in 0 .. MaxCommands

CacheInit ==
    /\ FetchInit
    /\ observations = NoRates
    /\ resolutions = [d \in {} |-> {}]
    /\ rows = {}
    /\ commands = 0

--------------------------------------------------------------------------------
\* resolve_cached_rate: the latest observation on or before the date that is
\* not older than MaxAge days.
Recent(table, date) == {d \in DOMAIN table : d <= date /\ date - d <= MaxAge}
Resolvable(table, date) == Recent(table, date) # {}

\* Mutant: the oldest of them.
Oldest(table, date) ==
    CHOOSE d \in Recent(table, date) : \A e \in Recent(table, date) : d <= e

Nearest(table, date) ==
    CHOOSE d \in Recent(table, date) : \A e \in Recent(table, date) : e <= d
ResolveRate(table, date) ==
    LET d == Nearest(table, date) IN [day |-> d, rate |-> table[d]]

\* The same day with another rate: the whole import is refused.
Conflicts(table, new) == \E d \in DOMAIN table \cap DOMAIN new : table[d] # new[d]

\* Mutant: dates resolved before keep the observation they had.
ResolvedOnce(table, dates) ==
    LET fresh == {d \in dates : Resolvable(table, d)} \ DOMAIN resolutions
    IN  [d \in fresh \cup DOMAIN resolutions |->
            IF d \in DOMAIN resolutions THEN resolutions[d] ELSE ResolveRate(table, d)]

\* Every requested date is resolved again from the merged observations.
Resolved(table, dates) == [d \in {x \in dates : Resolvable(table, x)} |-> ResolveRate(table, d)]

\* validate_rate_cache: what load_rate_cache demands of the file.
ValidCache(table, answers) ==
    \A d \in DOMAIN answers : Resolvable(table, d) /\ answers[d] = ResolveRate(table, d)

\* merge_rate_cache and the publication of its result.  The dates requested are
\* those resolved before and those of the rows.
Merge(new) ==
    /\ ValidCache(observations, resolutions)
    /\ ~Conflicts(observations, new)
    /\ LET merged == Union(observations, new)
       IN  /\ observations' = merged
           /\ resolutions' = Resolved(merged, DOMAIN resolutions \cup rows)

Count ==
    /\ commands < MaxCommands
    /\ commands' = commands + 1

--------------------------------------------------------------------------------
\* Commands.  Each takes the lock, so each is one step.

\* honeymoney rates fetch, after its last page.
ApplyFetch ==
    /\ fetching = "fetched"
    /\ Merge(got)
    /\ fetching' = "idle"
    /\ Forget
    /\ UNCHANGED <<published, changes, rows, commands>>

\* The merge refuses: a rate was revised, or imported otherwise meanwhile.
ApplyRefused ==
    /\ fetching = "fetched"
    /\ Conflicts(observations, got) \/ ~ValidCache(observations, resolutions)
    /\ fetching' = "refused"
    /\ Forget
    /\ UNCHANGED <<published, changes, cacheVars>>

\* honeymoney rates import FILE: a document downloaded at any time.
ImportDocument(document) ==
    /\ document # NoRates
    /\ Merge(document)
    /\ Count
    /\ UNCHANGED <<fetchVars, rows>>

\* honeymoney import, replace or reset of a statement: rows come and go; the
\* cache is read, not written.
AddRow(d) ==
    /\ d \notin rows
    /\ rows' = rows \cup {d}
    /\ Count
    /\ UNCHANGED <<fetchVars, observations, resolutions>>

RemoveRow(d) ==
    /\ d \in rows
    /\ rows' = rows \ {d}
    /\ Count
    /\ UNCHANGED <<fetchVars, observations, resolutions>>

--------------------------------------------------------------------------------
\* value_transaction: what a row of the date is valued by.  The cached rate is
\* looked up in the observations; resolutions are not consulted.
Valuation(date) ==
    IF date \in Dated THEN [source |-> "dated", day |-> date]
    ELSE IF Resolvable(observations, date)
         THEN [source |-> "cached", day |-> Nearest(observations, date),
               rate |-> observations[Nearest(observations, date)]]
    ELSE [source |-> IF Fixed THEN "fixed" ELSE "missing"]

CacheNext ==
    \/ Publisher /\ UNCHANGED cacheVars
    \/ (BeginFetch \/ Loop \/ FetchAgain) /\ UNCHANGED cacheVars
    \/ ApplyFetch
    \/ ApplyRefused
    \/ \E document \in Documents : ImportDocument(document)
    \/ \E d \in Days : AddRow(d) \/ RemoveRow(d)

CacheSpec == CacheInit /\ [][CacheNext]_rateVars

\* Every request is answered or fails within the transport's timeout.  Only the
\* answer asked for is fair: errors and stray documents need not come.
FairCacheSpec == CacheSpec /\ WF_rateVars(AnswerPage /\ UNCHANGED cacheVars)

--------------------------------------------------------------------------------
\* The cache on disk always passes the check its next reader makes, and every
\* date of a row that had a rate at the last rates command still has its own,
\* nearest one: no merge leaves an answer that a newer observation outdates.
CacheValid == ValidCache(observations, resolutions)

\* Whatever is fetched and imported, in whatever order, an observation never
\* changes or goes; a date once resolved stays resolved, and its observation is
\* replaced only by a later one.
ObservationsStand ==
    /\ DOMAIN observations \subseteq DOMAIN observations'
    /\ \A d \in DOMAIN observations : observations'[d] = observations[d]
ResolutionsImprove ==
    /\ DOMAIN resolutions \subseteq DOMAIN resolutions'
    /\ \A d \in DOMAIN resolutions :
        \/ resolutions'[d] = resolutions[d]
        \/ resolutions'[d].day > resolutions[d].day

\* A row's value never goes back: a dated rate stands, a cached rate yields only
\* to a later observation, a value never becomes missing.
Improves(before, after) ==
    \/ after = before
    \/ before.source = "cached" /\ after.source = "cached" /\ after.day > before.day
    \/ before.source \in {"fixed", "missing"} /\ after.source = "cached"
ValuesImprove == \A d \in Days : Improves(Valuation(d), Valuation(d)')

OnlyImproves == [][ObservationsStand /\ ResolutionsImprove /\ ValuesImprove]_rateVars

================================================================================
