---------------------------- MODULE ModelFallback ----------------------------
(***************************************************************************)
(* The optional local model (ollama.py): rows that rules, memory and       *)
(* corrections left unresolved are sent to it in batches, the rows of a    *)
(* batch without a usable answer once more.  Each request is a             *)
(* ModelRequest; what comes back is any list of categorizations, of rows   *)
(* of the batch, of other rows, twice, or none.                            *)
(*                                                                         *)
(* A row is its number among the unresolved rows.  A categorization is the *)
(* row it names and what is left of its checks: "bad" (category unknown,   *)
(* no reason, confidence out of range), "accounting" (a category that is   *)
(* not a spending one), or a spending category the model is "sure" of or   *)
(* not (confidence against the calibrated threshold).                      *)
(*                                                                         *)
(* Without a row to ask for, the fallback returns before all of this.      *)
(***************************************************************************)
EXTENDS ModelRequest, FiniteSets

CONSTANTS
    Unresolved,   \* how many rows are Unknown and need review
    Corrected,    \* those a saved correction gives a category
    Plain,        \* those a sure suggestion settles: spending, known owner
    BatchSize,
    MaxItems      \* bound: categorizations in one answer

ASSUME FallbackConstants ==
    /\ Unresolved \in Nat
    /\ Corrected \subseteq 1 .. Unresolved /\ Corrected # 1 .. Unresolved
    /\ Plain \subseteq 1 .. Unresolved
    /\ BatchSize \in Nat \ {0}
    /\ MaxItems \in Nat

VARIABLES
    stage,     \* where apply_ollama_fallback is
    batch,     \* number of the batch
    asking,    \* rows the present request names
    decision,  \* per row: what a categorization made of it
    marks,     \* per row: the flags the fallback set
    handled,   \* rows of this answer that were decided
    mentioned, \* rows of this answer that were named
    items,     \* categorizations of this answer read so far
    count,     \* the report's counts
    report     \* its status

fallbackVars == <<stage, batch, asking, decision, marks, handled, mentioned, items, count, report>>
vars == <<requestVars, fallbackVars>>

Rows == 1 .. Unresolved
NoRow == 0
Decisions == {"open", "accepted", "reviewable", "rejected"}
Marks == {"categorized", "policy_rejected", "unavailable", "invalid_response"}
Kinds == {"bad", "accounting", "sure", "unsure"}
Stages == {"next", "first", "answer", "retry", "retryAnswer", "done"}
NoCount == [accepted |-> 0, reviewable |-> 0, rejected |-> 0, invalid |-> 0,
            retryInvalid |-> 0, retried |-> 0, recovered |-> 0]

\* Rows whose category no saved correction gives.
Candidates == Rows \ Corrected

\* The candidates' chunks, in order.
Place(r) == Cardinality({q \in Candidates : q <= r})
Batch(n) == {r \in Candidates : (n - 1) * BatchSize < Place(r) /\ Place(r) <= n * BatchSize}
IsLast(n) == Cardinality(Candidates) <= n * BatchSize

FallbackTypeOK ==
    /\ stage \in Stages
    /\ batch \in Nat
    /\ asking \subseteq Rows
    /\ decision \in [Rows -> Decisions]
    /\ marks \in [Rows -> SUBSET Marks]
    /\ handled \subseteq Rows
    /\ mentioned \subseteq Rows
    /\ items \in Nat
    /\ count \in [DOMAIN NoCount -> Nat]
    /\ report \in {"none", "success", "invalid_response", "unavailable", "raised"}

TypeOK == RequestTypeOK /\ FallbackTypeOK

Init ==
    /\ RequestInit
    /\ stage = "next" /\ batch = 0 /\ asking = {}
    /\ decision = [r \in Rows |-> "open"] /\ marks = [r \in Rows |-> {}]
    /\ handled = {} /\ mentioned = {} /\ items = 0
    /\ count = NoCount /\ report = "none"

-----------------------------------------------------------------------------

\* The rows of S get the mark m.
Mark(S, m) == marks' = [r \in Rows |-> IF r \in S THEN marks[r] \cup {m} ELSE marks[r]]

Stop(status) == stage' = "done" /\ report' = status

NextBatch ==
    /\ stage = "next" /\ (batch = 0 \/ ~IsLast(batch))
    /\ Begin
    /\ stage' = "first" /\ batch' = batch + 1 /\ asking' = Batch(batch + 1)
    /\ UNCHANGED <<decision, marks, handled, mentioned, items, count, report>>

Request ==
    /\ stage \in {"first", "retry"}
    /\ RequestStep
    /\ UNCHANGED fallbackVars

\* What the except clauses catch, and what passes them.  The body of an answer
\* may not be JSON, which is caught, or JSON but no object, which is not.
Unavailable == {"unavailable", "timeout", "answer"}
Uncaught == {"refused", "crash", "answer"}

\* Rows from this batch on that have no suggestion.
Pending ==
    {r \in Candidates : (batch - 1) * BatchSize < Place(r) /\ "categorized" \notin marks[r]}

\* A batch's first request fails: the rest of the rows is not asked.
FirstFails ==
    /\ stage = "first" /\ phase = "done" /\ outcome \in Unavailable
    /\ Mark(Pending, "unavailable")
    /\ Stop("unavailable")
    /\ UNCHANGED <<requestVars, batch, asking, decision, handled, mentioned, items, count>>

\* The retry fails: its rows are marked, rows of other batches are not.
RetryFails ==
    /\ stage = "retry" /\ phase = "done" /\ outcome \in Unavailable
    /\ Mark(asking, "unavailable")
    /\ Stop("unavailable")
    /\ UNCHANGED <<requestVars, batch, asking, decision, handled, mentioned, items, count>>

\* Any other exception leaves apply_ollama_fallback.
Raise ==
    /\ stage \in {"first", "retry"} /\ phase = "done" /\ outcome \in Uncaught
    /\ Stop("raised")
    /\ UNCHANGED <<requestVars, batch, asking, decision, marks, handled, mentioned, items, count>>

\* Which counter an invalid categorization goes to.
InvalidOf(s) == IF s = "retryAnswer" THEN "retryInvalid" ELSE "invalid"
AddTo(c, f, n) == [c EXCEPT ![f] = @ + n]

\* An answer with a JSON object; what it holds may be no list, like an empty one.
Receive ==
    /\ stage \in {"first", "retry"} /\ phase = "done" /\ outcome = "answer"
    /\ handled' = {} /\ mentioned' = {} /\ items' = 0
    /\ stage' = IF stage = "first" THEN "answer" ELSE "retryAnswer"
    /\ UNCHANGED <<requestVars, batch, asking, decision, marks, count, report>>

\* evaluate_model_suggestion.
Evaluate(r, kind) ==
    IF kind = "accounting" THEN "rejected"
    ELSE IF kind = "sure" /\ r \in Plain THEN "accepted" ELSE "reviewable"

\* Mutant: a second categorization of a row is applied again.
UsableAgain(r, kind) == r \in asking /\ kind # "bad"

\* The checks before a suggestion is evaluated; r was asked in this request.
Usable(r, kind) == r \in asking /\ kind # "bad" /\ r \notin handled

\* One categorization: counted as invalid, or applied to its row.
ReadItem(r, kind) ==
    /\ stage \in {"answer", "retryAnswer"} /\ items < MaxItems
    /\ items' = items + 1
    /\ mentioned' = mentioned \cup ({r} \cap asking)
    /\ IF Usable(r, kind)
       THEN LET d == Evaluate(r, kind)
            IN  /\ handled' = handled \cup {r}
                /\ decision' = [decision EXCEPT ![r] = d]
                /\ Mark({r}, IF d = "rejected" THEN "policy_rejected" ELSE "categorized")
                /\ count' = AddTo(count, d, 1)
       ELSE /\ count' = AddTo(count, InvalidOf(stage), 1)
            /\ UNCHANGED <<handled, decision, marks>>
    /\ UNCHANGED <<requestVars, stage, batch, asking, report>>

\* Mutant: the whole batch is asked again.
AgainAll == asking

\* Rows to be asked again.
Again == asking \ handled

\* The batch's first answer ends: rows it did not name are invalid, rows it did
\* not decide are asked once more.
EndAnswer ==
    /\ stage = "answer"
    /\ IF Again = {}
       THEN stage' = "next" /\ UNCHANGED <<requestVars, asking>>
       ELSE stage' = "retry" /\ asking' = Again /\ Begin
    /\ count' = AddTo(AddTo(count, "invalid", Cardinality(asking \ mentioned)),
                      "retried", Cardinality(Again))
    /\ UNCHANGED <<batch, decision, marks, handled, mentioned, items, report>>

EndRetryAnswer ==
    /\ stage = "retryAnswer"
    /\ stage' = "next"
    /\ count' = AddTo(AddTo(count, "retryInvalid", Cardinality(asking \ mentioned)),
                      "recovered", Cardinality(handled))
    /\ UNCHANGED <<requestVars, batch, asking, decision, marks, handled, mentioned, items, report>>

\* The last batch is done.
Conclude ==
    /\ stage = "next" /\ batch > 0 /\ IsLast(batch)
    /\ IF count.invalid = 0 /\ count.retryInvalid = 0
       THEN Stop("success") /\ UNCHANGED marks
       ELSE /\ Stop("invalid_response")
            /\ Mark({r \in Candidates : "categorized" \notin marks[r]}, "invalid_response")
    /\ UNCHANGED <<requestVars, batch, asking, decision, handled, mentioned, items, count>>

Answer ==
    \/ Receive
    \/ \E r \in Rows \cup {NoRow}, kind \in Kinds : ReadItem(r, kind)
    \/ EndAnswer \/ EndRetryAnswer

Next ==
    \/ NextBatch \/ Request \/ Answer
    \/ FirstFails \/ RetryFails \/ Raise \/ Conclude
    \/ stage = "done" /\ UNCHANGED vars

Spec == Init /\ [][Next]_vars

Work ==
    \/ NextBatch \/ Receive \/ EndAnswer \/ EndRetryAnswer
    \/ FirstFails \/ RetryFails \/ Raise \/ Conclude

(* The command goes on while it can; an answer is a finite list; requests as in
   ModelRequest, where nothing makes a server go on. *)
FairSpec == Spec /\ RequestFairness /\ WF_vars(Work)

-----------------------------------------------------------------------------

Decided(d) == {r \in Rows : decision[r] = d}

(* The report's counts are those of the rows, after any mixture of partial,
   repeated and misdirected answers, a retry, and an early end: accepted and
   reviewable rows carry the suggestion, rejected ones the policy's mark, and no
   row is counted twice though it may be answered in two requests.  (The counts
   are of categorizations, not of rows, for what is invalid only.) *)
CountsAgree ==
    /\ count.accepted = Cardinality(Decided("accepted"))
    /\ count.reviewable = Cardinality(Decided("reviewable"))
    /\ count.rejected = Cardinality(Decided("rejected"))
    /\ \A r \in Rows :
        /\ "categorized" \in marks[r] <=> decision[r] \in {"accepted", "reviewable"}
        /\ "policy_rejected" \in marks[r] <=> decision[r] = "rejected"

(* What a categorization made of a row is final: neither a later categorization
   of the same answer, nor the retry, nor another batch's answer changes it. *)
DecidedOnce ==
    [][\A r \in Rows : decision[r] # "open" => decision'[r] = decision[r]]_vars

(* The status can be believed: after "success" every candidate was decided and
   nothing is marked as missing; after "invalid_response" every candidate without
   a suggestion says so itself; a row that has a suggestion is never said to have
   been unavailable; and rows a saved correction settles are never touched. *)
StatusTells ==
    /\ report = "success" =>
        \A r \in Candidates : decision[r] # "open" /\ "invalid_response" \notin marks[r]
    /\ report = "invalid_response" =>
        \A r \in Candidates : decision[r] \in {"open", "rejected"} <=> "invalid_response" \in marks[r]
    /\ \A r \in Rows : "unavailable" \in marks[r] => decision[r] = "open"
    /\ \A r \in Corrected : decision[r] = "open" /\ marks[r] = {}

(* What the command reports of a fallback, in counts and in its status, is what
   became of the rows. *)
ReportAgrees == CountsAgree /\ StatusTells

(* A fallback that has begun ends, whatever a server does, because the timer ends a request
   that waits for it.  This needs a server that keeps the connection: see
   ServerCloses. *)
Finishes == batch > 0 ~> stage = "done"

=============================================================================
