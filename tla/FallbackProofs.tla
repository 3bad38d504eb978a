---------------------------- MODULE FallbackProofs ----------------------------
(***************************************************************************)
(* Proofs about ModelRequest and ModelFallback, for any number of rows,    *)
(* addresses, redirects, batches and categorizations.                      *)
(*                                                                         *)
(* The inductive invariant relates the rows to the place in the batches:   *)
(* rows of later batches are open, the rows asked are open or handled,     *)
(* and a row of an earlier batch is decided or was counted as invalid.     *)
(***************************************************************************)
EXTENDS ModelFallback, FiniteSetTheorems, TLAPS

-------------------------------------------------------------------------------
(***************************************************************************)
(* Requests.                                                               *)
(***************************************************************************)

\* Nothing is transmitted before the connection of a hop is there.
SentInv ==
    /\ sent <= 1
    /\ phase \in {"idle", "resolve", "dial", "connect", "send"} => sent = 0

RequestInv == RequestTypeOK /\ SentInv

LEMMA BeginKeeps ==
    ASSUME RequestInv, Begin
    PROVE  RequestInv'
<1>1. 1 \in 1 .. Addresses /\ 0 \in 0 .. MaxRedirects
  BY RequestConstants
<1>2. RequestTypeOK'
  BY <1>1 DEF RequestTypeOK, Begin, Phases, Outcomes
<1>3. SentInv'
  BY DEF SentInv, Begin
<1> QED
  BY <1>2, <1>3 DEF RequestInv

LEMMA SenderKeeps ==
    ASSUME RequestInv, Sender
    PROVE  RequestInv'
<1> USE DEF RequestInv, RequestTypeOK, SentInv, Phases, Outcomes, Finish, Proceed, Failure
<1>1. CASE Resolve
  BY <1>1, RequestConstants DEF Resolve
<1>2. CASE Dial
  BY <1>2 DEF Dial
<1>3. CASE Connect
  BY <1>3, RequestConstants DEF Connect, NextAddress
<1>4. CASE Transmit
  BY <1>4 DEF Transmit
<1>5. CASE ReadHead
  BY <1>5 DEF ReadHead, AfterTransmission
<1>6. CASE ReadBody
  BY <1>6, RequestConstants DEF ReadBody, Redirect
<1>7. CASE LoseBody
  BY <1>7 DEF LoseBody, AfterTransmission
<1>8. CASE Interrupted
  BY <1>8 DEF Interrupted
<1> QED
  BY <1>1, <1>2, <1>3, <1>4, <1>5, <1>6, <1>7, <1>8 DEF Sender

LEMMA RequestKeeps ==
    ASSUME RequestInv, RequestStep
    PROVE  RequestInv'
<1>1. CASE Sender
  BY <1>1, SenderKeeps
<1>2. CASE Expire
  BY <1>2 DEF Expire, RequestInv, RequestTypeOK, SentInv, Phases
<1>3. CASE Fire
  BY <1>3 DEF Fire, Abort, RequestInv, RequestTypeOK, SentInv, Phases
<1> QED
  BY <1>1, <1>2, <1>3 DEF RequestStep

-------------------------------------------------------------------------------
(***************************************************************************)
(* Counting and batches.                                                   *)
(***************************************************************************)

LEMMA RowsFinite ==
    /\ Rows \subseteq Nat /\ Candidates \subseteq Rows
    /\ \A S \in SUBSET Rows : IsFiniteSet(S) /\ Cardinality(S) \in Nat
<1>1. IsFiniteSet(Rows)
  BY FallbackConstants, FS_Interval DEF Rows
<1>2. \A S \in SUBSET Rows : IsFiniteSet(S) /\ Cardinality(S) \in Nat
  BY <1>1, FS_Subset, FS_CardinalityType
<1> QED
  BY <1>2, FallbackConstants DEF Rows, Candidates

LEMMA PlaceIs ==
    ASSUME NEW r \in Candidates
    PROVE  Place(r) \in Nat /\ Place(r) <= Cardinality(Candidates)
<1>1. {q \in Candidates : q <= r} \in SUBSET Candidates
  OBVIOUS
<1>2. IsFiniteSet(Candidates)
  BY RowsFinite
<1> QED
  BY <1>1, <1>2, RowsFinite, FS_Subset DEF Place

LEMMA Bounds ==
    ASSUME NEW n \in Nat
    PROVE  /\ n * BatchSize \in Nat
           /\ ((n + 1) - 1) * BatchSize = n * BatchSize
           /\ (n + 1) * BatchSize > n * BatchSize
<1>1. BatchSize \in Nat /\ BatchSize > 0
  BY FallbackConstants
<1>2. (n + 1) * BatchSize = n * BatchSize + BatchSize
  BY <1>1
<1>3. n * BatchSize \in Nat
  BY <1>1
<1> QED
  BY <1>1, <1>2, <1>3

\* Deciding an open row adds it to one of the sets that are counted.
LEMMA DecidedGrows ==
    ASSUME NEW r \in Rows, NEW d \in Decisions, d # "open",
           decision \in [Rows -> Decisions], decision[r] = "open",
           decision' = [decision EXCEPT ![r] = d]
    PROVE  \A e \in Decisions \ {"open"} :
              Cardinality(Decided(e)') = Cardinality(Decided(e)) + (IF e = d THEN 1 ELSE 0)
<1> SUFFICES ASSUME NEW e \in Decisions \ {"open"}
             PROVE  Cardinality(Decided(e)') = Cardinality(Decided(e)) + (IF e = d THEN 1 ELSE 0)
  OBVIOUS
<1>1. IsFiniteSet(Decided(e)) /\ Cardinality(Decided(e)) \in Nat
  BY RowsFinite DEF Decided
<1>2. CASE e = d
  <2>1. Decided(e)' = Decided(e) \cup {r} /\ r \notin Decided(e)
    BY <1>2 DEF Decided
  <2> QED
    BY <2>1, <1>1, <1>2, FS_AddElement
<1>3. CASE e # d
  <2>1. Decided(e)' = Decided(e)
    BY <1>3 DEF Decided
  <2> QED
    BY <2>1, <1>1, <1>3
<1> QED
  BY <1>2, <1>3

-------------------------------------------------------------------------------
(***************************************************************************)
(* The inductive invariant.                                                *)
(***************************************************************************)

Invalid == count.invalid > 0 \/ count.retryInvalid > 0

\* The rows asked, and what the answer read so far has made of them.
Asked ==
    /\ stage \in {"first", "answer"} => asking = Batch(batch)
    /\ stage \in {"retry", "retryAnswer"} =>
        /\ asking \subseteq Batch(batch)
        /\ \A r \in Batch(batch) \ asking : decision[r] # "open"
    /\ stage \in {"first", "retry"} => \A r \in asking : decision[r] = "open"
    /\ stage \in {"answer", "retryAnswer"} =>
        /\ handled \subseteq mentioned /\ mentioned \subseteq asking
        /\ \A r \in asking : r \in handled <=> decision[r] # "open"
        /\ mentioned # handled => Invalid
    /\ stage \in {"first", "answer", "retry", "retryAnswer"} => batch > 0

\* Batches that are over, and batches to come.
Progress ==
    /\ \A r \in Candidates :
        /\ stage = "next" /\ Place(r) <= batch * BatchSize => decision[r] # "open" \/ Invalid
        /\ stage \in {"first", "answer", "retry", "retryAnswer"} /\ Place(r) <= (batch - 1) * BatchSize
              => decision[r] # "open" \/ Invalid
        /\ stage # "done" /\ Place(r) > batch * BatchSize => decision[r] = "open"

\* Marks of missing answers are set with the report only.
Told ==
    /\ report # "none" => stage = "done"
    /\ \A r \in Rows :
        /\ "unavailable" \in marks[r] => report = "unavailable" /\ decision[r] = "open"
        /\ "invalid_response" \in marks[r] =>
              report = "invalid_response" /\ decision[r] \in {"open", "rejected"}
    /\ report = "success" => \A r \in Candidates : decision[r] # "open"
    /\ report = "invalid_response" =>
          \A r \in Candidates : decision[r] \in {"open", "rejected"} => "invalid_response" \in marks[r]
    /\ \A r \in Corrected : decision[r] = "open" /\ marks[r] = {}

Inv == RequestInv /\ FallbackTypeOK /\ CountsAgree /\ Asked /\ Progress /\ Told

LEMMA InitInv == Init => Inv
<1> SUFFICES ASSUME Init PROVE Inv
  OBVIOUS
<1>0. 1 \in 1 .. Addresses /\ 0 \in 0 .. MaxRedirects
  BY RequestConstants
<1>1. RequestInv
  <2>1. RequestTypeOK
    BY <1>0 DEF Init, RequestInit, RequestTypeOK, Phases, Outcomes
  <2>2. SentInv
    BY DEF Init, RequestInit, SentInv
  <2> QED
    BY <2>1, <2>2 DEF RequestInv
<1>2. FallbackTypeOK
  BY DEF Init, FallbackTypeOK, Stages, Decisions, Marks, NoCount
<1>3. CountsAgree
  <2>1. \A d \in {"accepted", "reviewable", "rejected"} : Decided(d) = {}
    BY DEF Init, Decided
  <2> QED
    BY <2>1, FS_EmptySet DEF Init, CountsAgree, NoCount
<1>4. Asked /\ Told
  BY FallbackConstants DEF Init, Asked, Told, Rows
<1>5. Progress
  <2>1. \A r \in Candidates : r \in Rows /\ decision[r] = "open"
    BY RowsFinite DEF Init
  <2>2. \A r \in Candidates : Place(r) >= 1
    <3> SUFFICES ASSUME NEW r \in Candidates PROVE Place(r) >= 1
      OBVIOUS
    <3>1. r \in Nat /\ r <= r
      BY RowsFinite
    <3>2. {q \in Candidates : q <= r} \subseteq Rows
      BY RowsFinite
    <3>3. {q \in Candidates : q <= r} # {}
      BY <3>1
    <3>4. Place(r) \in Nat /\ Place(r) # 0
      BY <3>2, <3>3, RowsFinite, FS_EmptySet DEF Place
    <3> QED
      BY <3>4
  <2>3. batch * BatchSize = 0
    BY FallbackConstants DEF Init
  <2> QED
    BY <2>1, <2>2, <2>3, PlaceIs DEF Init, Progress
<1> QED
  BY <1>1, <1>2, <1>3, <1>4, <1>5 DEF Inv

\* Steps that change no row and no count keep what is said of them.
LEMMA CountsStay ==
    ASSUME CountsAgree, UNCHANGED <<decision, marks, count>>
    PROVE  CountsAgree'
BY DEF CountsAgree, Decided

\* What the parts of the invariant say once the fallback has stopped.
LEMMA StopKeeps ==
    ASSUME Inv, stage # "done", stage' = "done",
           UNCHANGED <<requestVars, batch, asking, decision, handled, mentioned, count>>,
           marks' \in [Rows -> SUBSET Marks], items' = items,
           report' \in {"success", "invalid_response", "unavailable", "raised"},
           \A r \in Rows : \A m \in Marks \ {"unavailable", "invalid_response"} :
              m \in marks'[r] <=> m \in marks[r],
           Told'
    PROVE  Inv'
<1> USE DEF Inv
<1>1. RequestInv'
  BY DEF requestVars, RequestInv, RequestTypeOK, SentInv
<1>2. FallbackTypeOK'
  BY DEF FallbackTypeOK, Stages
<1>3. CountsAgree'
  <2>1. \A r \in Rows : /\ "categorized" \in marks'[r] <=> "categorized" \in marks[r]
                        /\ "policy_rejected" \in marks'[r] <=> "policy_rejected" \in marks[r]
    BY DEF Marks
  <2>2. \A d : Decided(d)' = Decided(d)
    BY DEF Decided
  <2> QED
    BY <2>1, <2>2 DEF CountsAgree
<1>4. Asked' /\ Progress'
  BY DEF Asked, Progress
<1> QED
  BY <1>1, <1>2, <1>3, <1>4

LEMMA RaiseKeeps == ASSUME Inv, Raise PROVE Inv'
<1>0. report = "none"
  BY DEF Raise, Inv, Told, FallbackTypeOK
<1>1. Told'
  BY <1>0 DEF Raise, Stop, Inv, Told
<1>2. marks' = marks /\ marks' \in [Rows -> SUBSET Marks]
  BY DEF Raise, Inv, FallbackTypeOK
<1> QED
  BY <1>1, <1>2, StopKeeps DEF Raise, Stop

\* A row that is asked or still to be asked is open.
LEMMA PendingOpen ==
    ASSUME Inv, stage = "first"
    PROVE  \A r \in Pending : decision[r] = "open"
<1> SUFFICES ASSUME NEW r \in Pending PROVE decision[r] = "open"
  OBVIOUS
<1>1. r \in Candidates /\ (batch - 1) * BatchSize < Place(r)
  BY DEF Pending
<1>2. CASE r \in Batch(batch)
  BY <1>2 DEF Inv, Asked
<1>3. CASE r \notin Batch(batch)
  <2>1. ~(Place(r) <= batch * BatchSize)
    BY <1>1, <1>3 DEF Batch
  <2>2. Place(r) \in Nat /\ batch * BatchSize \in Nat
    BY <1>1, PlaceIs, Bounds DEF Inv, FallbackTypeOK
  <2>3. Place(r) > batch * BatchSize
    BY <2>1, <2>2
  <2> QED
    BY <2>3, <1>1 DEF Inv, Progress
<1> QED
  BY <1>2, <1>3

\* Marking open candidates as unavailable ends the fallback truthfully.
LEMMA UnavailableKeeps ==
    ASSUME Inv, stage # "done", NEW S, S \subseteq Candidates,
           \A r \in S : decision[r] = "open",
           Mark(S, "unavailable"), Stop("unavailable"),
           UNCHANGED <<requestVars, batch, asking, decision, handled, mentioned, items, count>>
    PROVE  Inv'
<1>0. report = "none" /\ marks \in [Rows -> SUBSET Marks]
  BY DEF Inv, Told, FallbackTypeOK
<1>1. marks' \in [Rows -> SUBSET Marks]
  BY <1>0 DEF Mark, Marks
<1>2. \A r \in Rows : \A m : m \in marks'[r] <=> m \in marks[r] \/ (r \in S /\ m = "unavailable")
  BY <1>0 DEF Mark
<1>3. Told'
  <2>1. \A r \in Rows : "unavailable" \in marks'[r] => decision'[r] = "open"
    BY <1>0, <1>2 DEF Inv, Told
  <2>2. \A r \in Rows : "invalid_response" \notin marks'[r]
    BY <1>0, <1>2 DEF Inv, Told
  <2>3. \A r \in Corrected : decision'[r] = "open" /\ marks'[r] = {}
    <3> SUFFICES ASSUME NEW r \in Corrected PROVE decision'[r] = "open" /\ marks'[r] = {}
      OBVIOUS
    <3>1. r \in Rows /\ r \notin S
      BY FallbackConstants DEF Rows, Candidates
    <3> QED
      BY <3>1, <1>0 DEF Mark, Inv, Told
  <2> QED
    BY <2>1, <2>2, <2>3 DEF Stop, Told
<1>4. \A r \in Rows : \A m \in Marks \ {"unavailable", "invalid_response"} :
         m \in marks'[r] <=> m \in marks[r]
  BY <1>2
<1> QED
  BY <1>1, <1>3, <1>4, StopKeeps DEF Stop

LEMMA FirstFailsKeeps == ASSUME Inv, FirstFails PROVE Inv'
<1>1. Pending \subseteq Candidates
  BY DEF Pending
<1>2. \A r \in Pending : decision[r] = "open"
  BY PendingOpen DEF FirstFails
<1> QED
  BY <1>1, <1>2, UnavailableKeeps DEF FirstFails

LEMMA RetryFailsKeeps == ASSUME Inv, RetryFails PROVE Inv'
<1>1. asking \subseteq Candidates /\ \A r \in asking : decision[r] = "open"
  BY DEF RetryFails, Inv, Asked, Batch
<1> QED
  BY <1>1, UnavailableKeeps DEF RetryFails

LEMMA ConcludeKeeps == ASSUME Inv, Conclude PROVE Inv'
<1>0. /\ report = "none" /\ marks \in [Rows -> SUBSET Marks] /\ stage = "next"
      /\ batch \in Nat /\ decision \in [Rows -> Decisions] /\ Candidates \subseteq Rows
      /\ count.invalid \in Nat /\ count.retryInvalid \in Nat
  BY RowsFinite DEF Conclude, Inv, Told, FallbackTypeOK, NoCount
<1>1. \A r \in Candidates : decision[r] # "open" \/ Invalid
  <2> SUFFICES ASSUME NEW r \in Candidates PROVE decision[r] # "open" \/ Invalid
    OBVIOUS
  <2>1. Place(r) \in Nat /\ Place(r) <= Cardinality(Candidates) /\ Cardinality(Candidates) \in Nat
    BY PlaceIs, RowsFinite
  <2>2. batch * BatchSize \in Nat /\ Cardinality(Candidates) <= batch * BatchSize
    BY <1>0, Bounds DEF Conclude, IsLast
  <2>3. Place(r) <= batch * BatchSize
    BY <2>1, <2>2
  <2> QED
    BY <2>3, <1>0 DEF Inv, Progress
<1>2. CASE count.invalid = 0 /\ count.retryInvalid = 0
  <2>1. \A r \in Candidates : decision[r] # "open"
    BY <1>0, <1>1, <1>2 DEF Invalid
  <2>2. marks' = marks /\ Stop("success")
    BY <1>2 DEF Conclude
  <2>3. Told'
    BY <1>0, <2>1, <2>2 DEF Conclude, Stop, Inv, Told
  <2> QED
    BY <1>0, <2>2, <2>3, StopKeeps DEF Conclude, Stop
<1>3. CASE ~(count.invalid = 0 /\ count.retryInvalid = 0)
  <2> DEFINE S == {r \in Candidates : "categorized" \notin marks[r]}
  <2>1. Mark(S, "invalid_response") /\ Stop("invalid_response")
    BY <1>3 DEF Conclude
  <2>2. marks' \in [Rows -> SUBSET Marks]
    BY <1>0, <2>1 DEF Mark, Marks
  <2>3. \A r \in Rows : \A m : m \in marks'[r] <=> m \in marks[r] \/ (r \in S /\ m = "invalid_response")
    BY <1>0, <2>1 DEF Mark
  <2>4. \A r \in Candidates : r \in S <=> decision[r] \in {"open", "rejected"}
    BY <1>0 DEF Inv, CountsAgree, Decisions
  <2>5. Told'
    <3>1. \A r \in Rows : "unavailable" \notin marks'[r]
      BY <1>0, <2>3 DEF Inv, Told
    <3>2. \A r \in Rows : "invalid_response" \in marks'[r] => decision'[r] \in {"open", "rejected"}
      BY <1>0, <2>3, <2>4 DEF Conclude, Inv, Told
    <3>3. \A r \in Candidates : decision'[r] \in {"open", "rejected"} => "invalid_response" \in marks'[r]
      BY <1>0, <2>3, <2>4 DEF Conclude
    <3>4. \A r \in Corrected : decision'[r] = "open" /\ marks'[r] = {}
      <4> SUFFICES ASSUME NEW r \in Corrected PROVE decision'[r] = "open" /\ marks'[r] = {}
        OBVIOUS
      <4>1. r \in Rows /\ r \notin S
        BY FallbackConstants DEF Rows, Candidates
      <4> QED
        BY <4>1, <1>0, <2>1 DEF Mark, Conclude, Inv, Told
    <3> QED
      BY <2>1, <3>1, <3>2, <3>3, <3>4 DEF Stop, Told
  <2>6. \A r \in Rows : \A m \in Marks \ {"unavailable", "invalid_response"} :
           m \in marks'[r] <=> m \in marks[r]
    BY <2>3
  <2> QED
    BY <1>0, <2>1, <2>2, <2>5, <2>6, StopKeeps DEF Conclude, Stop
<1> QED
  BY <1>2, <1>3

\* Steps that leave rows and marks as they are, in no final stage.
LEMMA RowsStay ==
    ASSUME Inv, stage # "done", stage' # "done", stage' \in Stages,
           UNCHANGED <<decision, marks, report>>
    PROVE  Told' /\ Cardinality(Decided("accepted"))' = Cardinality(Decided("accepted"))
           /\ Cardinality(Decided("reviewable"))' = Cardinality(Decided("reviewable"))
           /\ Cardinality(Decided("rejected"))' = Cardinality(Decided("rejected"))
<1>1. \A d : Decided(d)' = Decided(d)
  BY DEF Decided
<1>2. Told'
  BY DEF Inv, Told
<1> QED
  BY <1>1, <1>2

LEMMA NextBatchKeeps == ASSUME Inv, NextBatch PROVE Inv'
<1> USE DEF Inv
<1>0. batch \in Nat /\ batch' = batch + 1 /\ stage = "next" /\ stage' = "first"
  BY DEF NextBatch, FallbackTypeOK
<1>1. RequestInv'
  BY BeginKeeps DEF NextBatch
<1>2. FallbackTypeOK'
  <2>1. asking' \subseteq Rows
    BY RowsFinite DEF NextBatch, Batch
  <2> QED
    BY <1>0, <2>1 DEF NextBatch, FallbackTypeOK, Stages
<1>3. CountsAgree' /\ Told'
  BY <1>0, RowsStay DEF NextBatch, CountsAgree, Stages
<1>4. Asked'
  <2>1. \A r \in asking' : decision[r] = "open"
    <3> SUFFICES ASSUME NEW r \in asking' PROVE decision[r] = "open"
      OBVIOUS
    <3>1. r \in Candidates /\ ((batch + 1) - 1) * BatchSize < Place(r)
      BY DEF NextBatch, Batch
    <3>2. Place(r) \in Nat /\ Place(r) > batch * BatchSize
      BY <1>0, <3>1, Bounds, PlaceIs
    <3> QED
      BY <1>0, <3>1, <3>2 DEF Progress
  <2>2. asking' = Batch(batch')
    BY <1>0 DEF NextBatch
  <2>3. Batch(batch)' = Batch(batch')
    BY DEF Batch, Candidates, Place, Rows
  <2> QED
    BY <1>0, <2>1, <2>2, <2>3 DEF NextBatch, Asked
<1>5. Progress'
  <2> SUFFICES ASSUME NEW r \in Candidates
               PROVE  /\ Place(r) <= (batch' - 1) * BatchSize => decision[r] # "open" \/ Invalid
                      /\ Place(r) > batch' * BatchSize => decision[r] = "open"
    BY <1>0 DEF NextBatch, Progress, Invalid, Candidates, Place, Rows
  <2>1. /\ Place(r) \in Nat /\ batch * BatchSize \in Nat /\ batch' * BatchSize \in Nat
        /\ (batch' - 1) * BatchSize = batch * BatchSize /\ batch' * BatchSize > batch * BatchSize
    BY <1>0, Bounds, PlaceIs
  <2> QED
    BY <1>0, <2>1 DEF Progress
<1> QED
  BY <1>1, <1>2, <1>3, <1>4, <1>5

LEMMA ReceiveKeeps == ASSUME Inv, Receive PROVE Inv'
<1> USE DEF Inv
<1>1. RequestInv'
  BY DEF Receive, requestVars, RequestInv, RequestTypeOK, SentInv
<1>2. FallbackTypeOK'
  BY DEF Receive, FallbackTypeOK, Stages
<1>3. CountsAgree' /\ Told'
  BY RowsStay DEF Receive, CountsAgree, Stages
<1>4. Batch(batch)' = Batch(batch)
  BY DEF Receive, Batch, Candidates, Place, Rows
<1>5. Asked'
  BY <1>4 DEF Receive, Asked
<1>6. Progress'
  BY DEF Receive, Progress, Invalid, Candidates, Place, Rows
<1> QED
  BY <1>1, <1>2, <1>3, <1>5, <1>6

LEMMA ReadItemKeeps ==
    ASSUME Inv, NEW r \in Rows \cup {NoRow}, NEW kind \in Kinds, ReadItem(r, kind)
    PROVE  Inv'
<1> USE DEF Inv
<1>0. /\ stage \in {"answer", "retryAnswer"} /\ stage' = stage /\ batch' = batch /\ asking' = asking
      /\ report' = report /\ report = "none" /\ items' = items + 1 /\ items \in Nat
      /\ UNCHANGED requestVars
      /\ mentioned' = mentioned \cup ({r} \cap asking)
      /\ asking \subseteq Rows /\ asking \subseteq Candidates
      /\ decision \in [Rows -> Decisions] /\ marks \in [Rows -> SUBSET Marks]
      /\ count \in [DOMAIN NoCount -> Nat]
  BY DEF ReadItem, Told, FallbackTypeOK, Asked, Batch
<1>1. RequestInv'
  BY <1>0 DEF requestVars, RequestInv, RequestTypeOK, SentInv
<1>2. Batch(batch)' = Batch(batch) /\ Candidates' = Candidates /\ \A q : Place(q)' = Place(q)
  BY <1>0 DEF Batch, Candidates, Place, Rows
<1>3. CASE Usable(r, kind)
  <2> DEFINE d == Evaluate(r, kind)
             m == IF d = "rejected" THEN "policy_rejected" ELSE "categorized"
  <2>1. r \in asking /\ r \notin handled /\ r \in Rows /\ decision[r] = "open" /\ r \notin Corrected
    BY <1>0, <1>3 DEF Usable, Asked, Candidates
  <2>2. d \in {"accepted", "reviewable", "rejected"}
    BY DEF Evaluate
  <2>3. /\ handled' = handled \cup {r} /\ decision' = [decision EXCEPT ![r] = d]
        /\ Mark({r}, m) /\ count' = AddTo(count, d, 1)
    BY <1>3 DEF ReadItem
  <2>4. count' = [count EXCEPT ![d] = @ + 1] /\ count' \in [DOMAIN NoCount -> Nat]
    BY <1>0, <2>2, <2>3 DEF AddTo, NoCount
  <2>5. /\ \A q \in Rows : decision'[q] = IF q = r THEN d ELSE decision[q]
        /\ \A q \in Rows : \A k : k \in marks'[q] <=> k \in marks[q] \/ (q = r /\ k = m)
        /\ marks' \in [Rows -> SUBSET Marks] /\ decision' \in [Rows -> Decisions]
    BY <1>0, <2>1, <2>2, <2>3 DEF Mark, Marks, Decisions
  <2>6. FallbackTypeOK'
    BY <1>0, <2>1, <2>3, <2>4, <2>5 DEF FallbackTypeOK
  <2>7. CountsAgree'
    <3>1. \A e \in {"accepted", "reviewable", "rejected"} :
             Cardinality(Decided(e)') = Cardinality(Decided(e)) + (IF e = d THEN 1 ELSE 0)
      BY <1>0, <2>1, <2>2, <2>3, DecidedGrows DEF Decisions
    <3>2. /\ count'.accepted = count.accepted + (IF "accepted" = d THEN 1 ELSE 0)
          /\ count'.reviewable = count.reviewable + (IF "reviewable" = d THEN 1 ELSE 0)
          /\ count'.rejected = count.rejected + (IF "rejected" = d THEN 1 ELSE 0)
      BY <1>0, <2>2, <2>4 DEF NoCount
    <3>3. \A q \in Rows :
             /\ "categorized" \in marks'[q] <=> decision'[q] \in {"accepted", "reviewable"}
             /\ "policy_rejected" \in marks'[q] <=> decision'[q] = "rejected"
      BY <2>1, <2>2, <2>5 DEF CountsAgree
    <3> QED
      BY <3>1, <3>2, <3>3 DEF CountsAgree
  <2>8. Asked'
    <3>1. /\ stage' = "retryAnswer" => /\ asking' \subseteq Batch(batch)'
                                       /\ \A q \in Batch(batch)' \ asking' : decision'[q] # "open"
      BY <1>0, <1>2, <2>1, <2>5, RowsFinite DEF Asked, Batch
    <3>2. /\ handled' \subseteq mentioned' /\ mentioned' \subseteq asking'
          /\ \A q \in asking' : q \in handled' <=> decision'[q] # "open"
      BY <1>0, <2>1, <2>2, <2>3, <2>5 DEF Asked
    <3>3. mentioned' # handled' => Invalid'
      <4>1. mentioned' # handled' => mentioned # handled
        BY <1>0, <2>1, <2>3
      <4>2. Invalid' <=> Invalid
        BY <1>0, <2>2, <2>4 DEF Invalid, NoCount
      <4> QED
        BY <4>1, <4>2, <1>0 DEF Asked
    <3> QED
      BY <1>0, <1>2, <3>1, <3>2, <3>3 DEF Asked
  <2>9. Progress'
    <3>1. Invalid' <=> Invalid
      BY <1>0, <2>2, <2>4 DEF Invalid, NoCount
    <3>2. \A q \in Candidates : q \in Rows
      BY RowsFinite
    <3>3. ~(Place(r) > batch * BatchSize)
      <4>1. r \in Batch(batch)
        BY <1>0, <2>1 DEF Asked
      <4>2. Place(r) \in Nat /\ Place(r) <= batch * BatchSize /\ batch * BatchSize \in Nat
        BY <4>1, PlaceIs, Bounds DEF Batch, FallbackTypeOK
      <4> QED
        BY <4>2
    <3> QED
      BY <1>0, <1>2, <2>2, <2>5, <3>1, <3>2, <3>3 DEF Progress
  <2>10. Told'
    <3>1. \A q \in Rows : "unavailable" \notin marks'[q] /\ "invalid_response" \notin marks'[q]
      BY <1>0, <2>5 DEF Told
    <3>2. \A q \in Corrected : decision'[q] = "open" /\ marks'[q] = {}
      <4> SUFFICES ASSUME NEW q \in Corrected PROVE decision'[q] = "open" /\ marks'[q] = {}
        OBVIOUS
      <4>1. q \in Rows /\ q # r
        BY <2>1, FallbackConstants DEF Rows
      <4> QED
        BY <4>1, <1>0, <2>3 DEF Mark, Told
    <3> QED
      BY <1>0, <3>1, <3>2 DEF Told
  <2> QED
    BY <1>1, <2>6, <2>7, <2>8, <2>9, <2>10
<1>4. CASE ~Usable(r, kind)
  <2>1. count' = AddTo(count, InvalidOf(stage), 1) /\ UNCHANGED <<handled, decision, marks>>
    BY <1>4 DEF ReadItem
  <2>2. /\ count' \in [DOMAIN NoCount -> Nat] /\ Invalid'
        /\ count'.accepted = count.accepted /\ count'.reviewable = count.reviewable
        /\ count'.rejected = count.rejected
    BY <1>0, <2>1 DEF AddTo, InvalidOf, NoCount, Invalid
  <2>3. FallbackTypeOK'
    BY <1>0, <2>1, <2>2 DEF FallbackTypeOK
  <2>4. CountsAgree' /\ Told'
    BY <1>0, <2>1, <2>2, RowsStay DEF CountsAgree, Stages
  <2>5. Asked'
    BY <1>0, <1>2, <2>1, <2>2 DEF Asked
  <2>6. Progress'
    BY <1>0, <1>2, <2>1, <2>2 DEF Progress
  <2> QED
    BY <1>1, <2>3, <2>4, <2>5, <2>6
<1> QED
  BY <1>3, <1>4

\* A row that no categorization of the answer decided was counted as invalid.
LEMMA UnhandledCounted ==
    ASSUME Inv, stage \in {"answer", "retryAnswer"}, asking # handled
    PROVE  Invalid \/ Cardinality(asking \ mentioned) > 0
<1>1. CASE mentioned # handled
  BY <1>1 DEF Inv, Asked
<1>2. CASE mentioned = handled
  <2>1. asking \ mentioned # {} /\ asking \ mentioned \in SUBSET Rows
    BY <1>2 DEF Inv, Asked, FallbackTypeOK
  <2>2. Cardinality(asking \ mentioned) \in Nat /\ Cardinality(asking \ mentioned) # 0
    BY <2>1, RowsFinite, FS_EmptySet
  <2> QED
    BY <2>2
<1> QED
  BY <1>1, <1>2

\* The rows up to this batch are those before it and those in it.
LEMMA UpToBatch ==
    ASSUME Inv, NEW r \in Candidates, Place(r) <= batch * BatchSize
    PROVE  Place(r) <= (batch - 1) * BatchSize \/ r \in Batch(batch)
<1>1. Place(r) \in Nat /\ batch \in Nat
  BY PlaceIs DEF Inv, FallbackTypeOK
<1>2. (batch - 1) * BatchSize \in Int
  BY <1>1, FallbackConstants
<1> QED
  BY <1>1, <1>2 DEF Batch

LEMMA EndAnswerKeeps == ASSUME Inv, EndAnswer PROVE Inv'
<1> USE DEF Inv
<1> DEFINE missing == Cardinality(asking \ mentioned)
<1>0. /\ stage = "answer" /\ batch' = batch /\ report' = report /\ report = "none"
      /\ UNCHANGED <<decision, marks, handled, mentioned, items>>
      /\ asking = Batch(batch) /\ handled \subseteq asking /\ asking \subseteq Rows
      /\ count \in [DOMAIN NoCount -> Nat]
      /\ count' = AddTo(AddTo(count, "invalid", missing), "retried", Cardinality(Again))
  BY DEF EndAnswer, Told, FallbackTypeOK, Asked
<1>1. missing \in Nat /\ Cardinality(Again) \in Nat
  BY <1>0, RowsFinite DEF Again
<1>2. /\ count' \in [DOMAIN NoCount -> Nat]
      /\ count'.invalid = count.invalid + missing /\ count'.retryInvalid = count.retryInvalid
      /\ count'.accepted = count.accepted /\ count'.reviewable = count.reviewable
      /\ count'.rejected = count.rejected
  BY <1>0, <1>1 DEF AddTo, NoCount
<1>3. Invalid => Invalid'
  BY <1>0, <1>1, <1>2 DEF Invalid, NoCount
<1>4. asking # handled => Invalid'
  BY <1>0, <1>1, <1>2, UnhandledCounted DEF Invalid, NoCount
<1>5. Batch(batch)' = Batch(batch) /\ Candidates' = Candidates /\ \A q : Place(q)' = Place(q)
  BY <1>0 DEF Batch, Candidates, Place, Rows
<1>6. CASE Again = {}
  <2>1. stage' = "next" /\ UNCHANGED <<requestVars, asking>>
    BY <1>6 DEF EndAnswer
  <2>2. RequestInv'
    BY <2>1 DEF requestVars, RequestInv, RequestTypeOK, SentInv
  <2>3. FallbackTypeOK'
    BY <1>0, <1>2, <2>1 DEF FallbackTypeOK, Stages
  <2>4. CountsAgree' /\ Told'
    BY <1>0, <1>2, <2>1, RowsStay DEF CountsAgree, Stages
  <2>5. Asked'
    BY <2>1 DEF Asked
  <2>6. Progress'
    <3>1. \A r \in Batch(batch) : decision[r] # "open"
      BY <1>0, <1>6 DEF Again, Asked
    <3>2. \A r \in Candidates : Place(r) <= batch * BatchSize => decision[r] # "open" \/ Invalid'
      BY <1>0, <1>3, <3>1, UpToBatch DEF Progress
    <3> QED
      BY <1>0, <1>5, <2>1, <3>2 DEF Progress
  <2> QED
    BY <2>2, <2>3, <2>4, <2>5, <2>6
<1>7. CASE Again # {}
  <2>1. stage' = "retry" /\ asking' = Again /\ Begin
    BY <1>7 DEF EndAnswer
  <2>2. RequestInv'
    BY <2>1, BeginKeeps
  <2>3. FallbackTypeOK'
    BY <1>0, <1>2, <2>1 DEF FallbackTypeOK, Stages, Again
  <2>4. CountsAgree' /\ Told'
    BY <1>0, <1>2, <2>1, RowsStay DEF CountsAgree, Stages
  <2>5. Asked'
    BY <1>0, <1>5, <2>1 DEF Asked, Again
  <2>6. Progress'
    BY <1>0, <1>3, <1>5, <2>1 DEF Progress
  <2> QED
    BY <2>2, <2>3, <2>4, <2>5, <2>6
<1> QED
  BY <1>6, <1>7

LEMMA EndRetryAnswerKeeps == ASSUME Inv, EndRetryAnswer PROVE Inv'
<1> USE DEF Inv
<1> DEFINE missing == Cardinality(asking \ mentioned)
<1>0. /\ stage = "retryAnswer" /\ stage' = "next" /\ batch' = batch /\ report' = report /\ report = "none"
      /\ UNCHANGED <<requestVars, asking, decision, marks, handled, mentioned, items>>
      /\ asking \subseteq Batch(batch) /\ handled \subseteq asking /\ asking \subseteq Rows
      /\ count \in [DOMAIN NoCount -> Nat]
      /\ count' = AddTo(AddTo(count, "retryInvalid", missing), "recovered", Cardinality(handled))
  BY DEF EndRetryAnswer, Told, FallbackTypeOK, Asked
<1>1. missing \in Nat /\ Cardinality(handled) \in Nat
  BY <1>0, RowsFinite DEF FallbackTypeOK
<1>2. /\ count' \in [DOMAIN NoCount -> Nat]
      /\ count'.invalid = count.invalid /\ count'.retryInvalid = count.retryInvalid + missing
      /\ count'.accepted = count.accepted /\ count'.reviewable = count.reviewable
      /\ count'.rejected = count.rejected
  BY <1>0, <1>1 DEF AddTo, NoCount
<1>3. Invalid => Invalid'
  BY <1>0, <1>1, <1>2 DEF Invalid, NoCount
<1>4. asking # handled => Invalid'
  BY <1>0, <1>1, <1>2, UnhandledCounted DEF Invalid, NoCount
<1>5. Candidates' = Candidates /\ \A q : Place(q)' = Place(q)
  BY DEF Candidates, Place, Rows
<1>6. RequestInv'
  BY <1>0 DEF requestVars, RequestInv, RequestTypeOK, SentInv
<1>7. FallbackTypeOK'
  BY <1>0, <1>2 DEF FallbackTypeOK, Stages
<1>8. CountsAgree' /\ Told'
  BY <1>0, <1>2, RowsStay DEF CountsAgree, Stages
<1>9. Asked'
  BY <1>0 DEF Asked
<1>10. Progress'
  <2>1. \A r \in Batch(batch) : decision[r] # "open" \/ Invalid'
    BY <1>0, <1>4 DEF Asked
  <2>2. \A r \in Candidates : Place(r) <= batch * BatchSize => decision[r] # "open" \/ Invalid'
    BY <1>0, <1>3, <2>1, UpToBatch DEF Progress
  <2> QED
    BY <1>0, <1>5, <2>2 DEF Progress
<1> QED
  BY <1>6, <1>7, <1>8, <1>9, <1>10

LEMMA RequestStepKeeps == ASSUME Inv, Request PROVE Inv'
<1>1. RequestInv'
  BY RequestKeeps DEF Inv, Request
<1>2. UNCHANGED fallbackVars
  BY DEF Request
<1>3. Batch(batch)' = Batch(batch) /\ Candidates' = Candidates /\ \A q : Place(q)' = Place(q)
  BY <1>2 DEF fallbackVars, Batch, Candidates, Place, Rows
<1>4. CountsAgree'
  BY <1>2, CountsStay DEF fallbackVars, Inv
<1> QED
  BY <1>1, <1>2, <1>3, <1>4
  DEF fallbackVars, Inv, FallbackTypeOK, Asked, Progress, Told, Invalid

LEMMA StutterKeeps == ASSUME Inv, UNCHANGED vars PROVE Inv'
<1>1. UNCHANGED requestVars /\ UNCHANGED fallbackVars
  BY DEF vars
<1>2. RequestInv'
  BY <1>1 DEF requestVars, RequestInv, RequestTypeOK, SentInv, Inv
<1>3. Batch(batch)' = Batch(batch) /\ Candidates' = Candidates /\ \A q : Place(q)' = Place(q)
  BY <1>1 DEF fallbackVars, Batch, Candidates, Place, Rows
<1>4. CountsAgree'
  BY <1>1, CountsStay DEF fallbackVars, Inv
<1> QED
  BY <1>1, <1>2, <1>3, <1>4
  DEF fallbackVars, Inv, FallbackTypeOK, Asked, Progress, Told, Invalid

LEMMA NextKeeps == Inv /\ [Next]_vars => Inv'
<1> SUFFICES ASSUME Inv, [Next]_vars PROVE Inv'
  OBVIOUS
<1>1. CASE Answer
  BY <1>1, ReceiveKeeps, ReadItemKeeps, EndAnswerKeeps, EndRetryAnswerKeeps DEF Answer
<1> QED
  BY <1>1, NextBatchKeeps, RequestStepKeeps, FirstFailsKeeps, RetryFailsKeeps,
     RaiseKeeps, ConcludeKeeps, StutterKeeps DEF Next

(* The inductive invariant holds in every reachable state. *)
THEOREM Invariance == Spec => []Inv
BY InitInv, NextKeeps, PTL DEF Spec

(* Every variable keeps its type: the redirect limit and the addresses are never
   exceeded, whatever a server and the timer do. *)
THEOREM TypeCorrect == Spec => []TypeOK
<1>1. Inv => TypeOK
  BY DEF Inv, RequestInv, TypeOK
<1> QED
  BY <1>1, Invariance, PTL

(* One request is transmitted at most once per hop. *)
THEOREM TransmittedOnce == Spec => []SentOnce
<1>1. Inv => SentOnce
  BY DEF Inv, RequestInv, SentInv, SentOnce
<1> QED
  BY <1>1, Invariance, PTL

(* The report's counts are those of the rows. *)
THEOREM CountsAlwaysAgree == Spec => []CountsAgree
<1>1. Inv => CountsAgree
  BY DEF Inv
<1> QED
  BY <1>1, Invariance, PTL

(* The status of the report says what became of the rows. *)
THEOREM StatusAlwaysTells == Spec => []StatusTells
<1>1. Inv => StatusTells
  <2> SUFFICES ASSUME Inv PROVE StatusTells
    OBVIOUS
  <2>1. Candidates \subseteq Rows
    BY RowsFinite
  <2>2. \A r \in Corrected : r \in Rows
    BY FallbackConstants DEF Rows
  <2> QED
    BY <2>1, <2>2 DEF Inv, Told, StatusTells, FallbackTypeOK
<1> QED
  BY <1>1, Invariance, PTL

(* Counts and status report what became of the rows, for any rows, policy and
   answers. *)
THEOREM ReportAlwaysAgrees == Spec => []ReportAgrees
<1>1. CountsAgree /\ StatusTells => ReportAgrees
  BY DEF ReportAgrees
<1> QED
  BY <1>1, CountsAlwaysAgree, StatusAlwaysTells, PTL

(* What a categorization made of a row is never changed again. *)
THEOREM DecisionsAreFinal == Spec => DecidedOnce
<1>1. Inv /\ [Next]_vars => \A r \in Rows : decision[r] # "open" => decision'[r] = decision[r]
  <2> SUFFICES ASSUME Inv, [Next]_vars, NEW r \in Rows, decision[r] # "open"
               PROVE  decision'[r] = decision[r]
    OBVIOUS
  <2>1. CASE \E q \in Rows \cup {NoRow}, kind \in Kinds : ReadItem(q, kind)
    <3>1. PICK q \in Rows \cup {NoRow}, kind \in Kinds : ReadItem(q, kind)
      BY <2>1
    <3>2. CASE Usable(q, kind)
      <4>1. q # r /\ decision' = [decision EXCEPT ![q] = Evaluate(q, kind)]
        BY <3>1, <3>2 DEF ReadItem, Usable, Inv, Asked
      <4> QED
        BY <4>1 DEF Inv, FallbackTypeOK
    <3> QED
      BY <3>1, <3>2 DEF ReadItem
  <2>2. CASE ~\E q \in Rows \cup {NoRow}, kind \in Kinds : ReadItem(q, kind)
    BY <2>2 DEF Next, Answer, vars, fallbackVars, NextBatch, Request, FirstFails,
       RetryFails, Raise, Conclude, Receive, EndAnswer, EndRetryAnswer
  <2> QED
    BY <2>1, <2>2
<1> QED
  BY <1>1, Invariance, PTL DEF Spec, DecidedOnce

===============================================================================
