------------------------------- MODULE RateFetch -------------------------------
(***************************************************************************)
(* The page loop of rate_fetch.py (fetch_hkma_daily_rates): the publisher's *)
(* daily table is read page by page, by offset, while the publisher may    *)
(* publish or revise days, and while what arrives may be anything.  The    *)
(* loop takes no lock; what it returns is merged by RateCache.             *)
(*                                                                         *)
(* One currency, days as integers.  A page is the function from its days   *)
(* to rates: a page that is not a valid document, repeats a day, is not    *)
(* sorted or omits a requested currency is refused whatever it holds, so   *)
(* those are all the garbled page.                                         *)
(***************************************************************************)
EXTENDS Integers, FiniteSets

CONSTANTS
    Days,        \* days a document can name
    Rates,       \* distinguishable rates
    First, Last, \* the requested range
    PageSize,
    Withdraws,   \* does the publisher take days back?
    Documents,   \* documents that are served or imported instead of a page asked for
    AtFirst,     \* the tables the publisher may begin with
    MaxChanges   \* bound: days published, revised or withdrawn

ASSUME FetchConstants ==
    /\ Days \subseteq Nat
    /\ IsFiniteSet(Days)
    /\ First \in Nat /\ Last \in Nat
    /\ PageSize \in Nat \ {0}
    /\ Withdraws \in BOOLEAN
    /\ Documents \subseteq UNION {[S -> Rates] : S \in SUBSET Days}
    /\ AtFirst \subseteq UNION {[S -> Rates] : S \in SUBSET Days}
    /\ MaxChanges \in Nat

VARIABLES
    published,  \* the publisher's table: day -> rate, for the days it has
    changes,    \* how often it changed
    fetching,      \* "idle", "paging", "fetched", "refused"
    offset,     \* records received so far
    got,        \* the observations received so far
    asked,      \* history: the days of the range published when the fetch began
    straight    \* history: every page came from the table

fetchVars == <<published, changes, fetching, offset, got, asked, straight>>

Tables == UNION {[S -> Rates] : S \in SUBSET Days}
NoRates == [d \in {} |-> {}]
Requested == First .. Last

FetchTypeOK ==
    /\ published \in Tables
    /\ changes \in 0 .. MaxChanges
    /\ fetching \in {"idle", "paging", "fetched", "refused"}
    /\ offset \in Nat
    /\ got \in Tables
    /\ asked \subseteq Days
    /\ straight \in BOOLEAN

FetchInit ==
    /\ published \in AtFirst
    /\ changes = 0
    /\ fetching = "idle"
    /\ offset = 0
    /\ got = NoRates
    /\ asked = {}
    /\ straight = TRUE

Restricted(table, S) == [d \in S |-> table[d]]
Union(f, g) == [d \in DOMAIN f \cup DOMAIN g |-> IF d \in DOMAIN f THEN f[d] ELSE g[d]]

--------------------------------------------------------------------------------
\* The publisher.

Change ==
    /\ changes < MaxChanges
    /\ changes' = changes + 1

Publish(d, r) ==
    /\ Change
    /\ d \notin DOMAIN published
    /\ published' = Union(published, [x \in {d} |-> r])
    /\ UNCHANGED <<fetching, offset, got, asked, straight>>

Revise(d, r) ==
    /\ Change
    /\ d \in DOMAIN published
    /\ r # published[d]
    /\ published' = [published EXCEPT ![d] = r]
    /\ UNCHANGED <<fetching, offset, got, asked, straight>>

Withdraw(d) ==
    /\ Change
    /\ Withdraws
    /\ d \in DOMAIN published
    /\ published' = Restricted(published, DOMAIN published \ {d})
    /\ UNCHANGED <<fetching, offset, got, asked, straight>>

\* pagesize, offset, from, to, sorted by day: what the query asks for.
Page ==
    LET listed == DOMAIN published \cap Requested
        place(d) == Cardinality({e \in listed : e < d})
    IN  Restricted(published, {d \in listed : place(d) \in offset .. offset + PageSize - 1})

--------------------------------------------------------------------------------
\* The loop.

BeginFetch ==
    /\ fetching = "idle"
    /\ fetching' = "paging"
    /\ offset' = 0
    /\ got' = NoRates
    /\ asked' = DOMAIN published \cap Requested
    /\ straight' = TRUE
    /\ UNCHANGED <<published, changes>>

\* Every day is in range and later than the last one received: a page that
\* begins at or before it is out of order or overlaps.
Accepted(page) ==
    /\ DOMAIN page \subseteq Requested
    /\ \A d \in DOMAIN page : \A e \in DOMAIN got : e < d

\* Mutant: a page of exactly the requested size is taken for the last one.
AtMostFull(page) == Cardinality(DOMAIN page) <= PageSize

\* Only a page shorter than requested ends the loop.
LastPage(page) == Cardinality(DOMAIN page) < PageSize

\* One page that passes every check.
ReceivePage(page) ==
    /\ fetching = "paging"
    /\ Accepted(page)
    /\ got' = Union(got, page)
    /\ IF LastPage(page)
       THEN /\ fetching' = "fetched"
            /\ UNCHANGED offset
       ELSE /\ offset' = offset + Cardinality(DOMAIN page)
            /\ UNCHANGED fetching
    /\ UNCHANGED <<published, changes, asked>>

\* The page asked for.
ReadPage ==
    /\ ReceivePage(Page)
    /\ UNCHANGED straight

\* Any other document that passes the checks: an old page, one with more
\* records than asked for, one of another table.
ReadOtherPage(page) ==
    /\ ReceivePage(page)
    /\ straight' = FALSE

\* What a fetch received goes with its process.
Forget ==
    /\ offset' = 0
    /\ got' = NoRates
    /\ asked' = {}
    /\ straight' = TRUE

\* The command ends and nothing of what was received is used.
Refuse ==
    /\ fetching' = "refused"
    /\ Forget
    /\ UNCHANGED <<published, changes>>

\* The page asked for is out of order or overlaps: the table changed.
RejectPage ==
    /\ fetching = "paging"
    /\ ~Accepted(Page)
    /\ Refuse

\* A transport error, or a document no check lets through.
FailPage ==
    /\ fetching = "paging"
    /\ Refuse

\* The next command starts afresh.
FetchAgain ==
    /\ fetching = "refused"
    /\ fetching' = "idle"
    /\ UNCHANGED <<published, changes, offset, got, asked, straight>>

Publisher ==
    \/ \E d \in Days, r \in Rates : Publish(d, r) \/ Revise(d, r)
    \/ \E d \in Days : Withdraw(d)

\* What the loop does with the page it asked for.
AnswerPage == ReadPage \/ RejectPage

Loop == AnswerPage \/ (\E page \in Documents : ReadOtherPage(page)) \/ FailPage

--------------------------------------------------------------------------------
\* A fetch that succeeds with the publisher's own pages has every day that was
\* published when it began, although pages are fetched by offset and days may
\* be published before, between and after those already read: a shifted page
\* is refused, never accepted with a day missing.
FetchComplete ==
    [][fetching' = "fetched" /\ straight' /\ ~Withdraws => asked' \subseteq DOMAIN got']_fetchVars

\* Whatever the server sends, the loop ends: each full page moves it on.
FetchEnds == fetching = "paging" ~> fetching # "paging"

\* A fetch ends, and with a complete answer if it succeeds.
FetchAnswers == FetchEnds /\ FetchComplete

================================================================================
