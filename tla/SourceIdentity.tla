---------------------------- MODULE SourceIdentity ----------------------------
(***************************************************************************)
(* Which import record owns an incoming statement file: resolve_sources of *)
(* honeymoney/identity.py, for workspaces without rows of the old format.  *)
(*                                                                         *)
(* The index maps each known source to the place it was last found at (its *)
(* namespace) and the revision of its bytes then.  A batch of files is     *)
(* resolved as a whole: by place, and for a replacement or a reset also by *)
(* equal bytes.                                                            *)
(***************************************************************************)

\* source_id: a digest of the place alone.  It is injective, and the place a
\* source was first found at always gives the same id again.
SourceId(p) == p

\* Prior sources found at place p.
Exact(sources, p) == {s \in DOMAIN sources : sources[s].place = p}

\* Prior sources that some file of the batch claims by its place.
Claimed(sources, batch) == UNION {Exact(sources, p) : p \in batch}

\* Files of the batch at a place no prior source has.
Unmatched(sources, batch) == {p \in batch : Exact(sources, p) = {}}

\* Mutant: the one source left over is taken for the moved one.
SameBytesLeft(sources, batch, revision, p) == DOMAIN sources \ Claimed(sources, batch)

\* Prior sources with the bytes of the file at p that nothing else claims.
SameBytes(sources, batch, revision, p) ==
    {s \in DOMAIN sources \ Claimed(sources, batch) :
        sources[s].revision = revision[p]}

\* Mutant: several sources with the same bytes are no obstacle.
AcceptsSeveral(sources, batch, revision, action) ==
    IF action = "import"
    THEN Claimed(sources, batch) = {}
    ELSE \A p \in Unmatched(sources, batch) :
            /\ SameBytes(sources, batch, revision, p) # {}
            /\ \A q \in Unmatched(sources, batch) \ {p} : revision[p] # revision[q]

\* Nothing in the batch is ambiguous, known already (a plain import) or
\* unknown (a replacement or a reset).
Accepts(sources, batch, revision, action) ==
    /\ \A p \in batch : \A s, t \in Exact(sources, p) : s = t
    /\ IF action = "import"
       THEN Claimed(sources, batch) = {}
       ELSE \A p \in Unmatched(sources, batch) :
               /\ \E s \in SameBytes(sources, batch, revision, p) :
                     SameBytes(sources, batch, revision, p) = {s}
               /\ \A q \in Unmatched(sources, batch) \ {p} :
                     SameBytes(sources, batch, revision, p) \cap
                       SameBytes(sources, batch, revision, q) = {}

\* The source an accepted batch assigns to the file at p.
Assigned(sources, batch, revision, action, p) ==
    IF Exact(sources, p) # {} THEN CHOOSE s \in Exact(sources, p) : TRUE
    ELSE IF action = "import" THEN SourceId(p)
    ELSE CHOOSE s \in SameBytes(sources, batch, revision, p) : TRUE
===============================================================================
