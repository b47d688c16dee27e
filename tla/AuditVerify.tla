---------------------------- MODULE AuditVerify -----------------------------
(***************************************************************************)
(* AuditService.verify over every chain the service can write, and over    *)
(* what a rewritten history makes of it.                                   *)
(***************************************************************************)
EXTENDS AuditChain

\* findMany ordered by seq, ascending.
InOrder(S) ==
  [i \in 1 .. Cardinality(S) |-> CHOOSE r \in S : Cardinality({q \in S : q.seq < r.seq}) = i - 1]

\* The locals of verify's loop; brokenAt is the sequence number and the reason of its early return.
VerifyStart ==
  [prevHash |-> EmptyHash, legacyPrefix |-> 0, legacySerializationRows |-> 0,
   anchored |-> FALSE, brokenAt |-> <<>>]

Broken(v, r, reason) == [v EXCEPT !.anchored = TRUE, !.brokenAt = <<r.seq, reason>>]

\* Mutant of MatchesLegacySerialization: the older serialization is forgotten.
MatchesNothing(r, prevHash) == FALSE

\* An enroll_code.create without a person, hashed by older code.
MatchesLegacySerialization(r, prevHash) ==
  /\ r.op \in CodeOps
  /\ r.rowHash = ChainHash(LegacyIdentity(r.op, r.seq), prevHash)

\* Mutant of VerifyRow: digests are recomputed from the stored link, and the link is not compared.
VerifyRowUnlinked(v, r) ==
  CASE v.brokenAt # <<>> -> v
    [] v.brokenAt = <<>> /\ ~v.anchored /\ r.prevHash = EmptyHash /\ r.rowHash = EmptyHash ->
         [v EXCEPT !.legacyPrefix = @ + 1]
    [] OTHER ->
         IF r.rowHash \notin {ChainHash(Identity(r.op, r.seq), r.prevHash),
                              ChainHash(LegacyIdentity(r.op, r.seq), r.prevHash)}
         THEN Broken(v, r, "rowHash")
         ELSE [v EXCEPT !.anchored = TRUE,
                        !.legacySerializationRows = IF r.op = OldCode THEN @ + 1 ELSE @]

\* One iteration over row r.
VerifyRow(v, r) ==
  LET expected == ChainHash(Identity(r.op, r.seq), v.prevHash)
      legacy == r.rowHash # expected /\ MatchesLegacySerialization(r, v.prevHash)
  IN  CASE v.brokenAt # <<>> -> v
        [] v.brokenAt = <<>> /\ ~v.anchored /\ r.prevHash = EmptyHash /\ r.rowHash = EmptyHash ->
             [v EXCEPT !.legacyPrefix = @ + 1]
        [] OTHER ->
             IF r.prevHash # v.prevHash THEN Broken(v, r, "linkage")
             ELSE IF r.rowHash # expected /\ ~legacy THEN Broken(v, r, "rowHash")
             ELSE [v EXCEPT !.anchored = TRUE, !.prevHash = r.rowHash,
                            !.legacySerializationRows = IF legacy THEN @ + 1 ELSE @]

Verify(S) ==
  LET v[i \in 0 .. Cardinality(S)] ==
        IF i = 0 THEN VerifyStart ELSE VerifyRow(v[i - 1], InOrder(S)[i])
  IN  v[Cardinality(S)]
-----------------------------------------------------------------------------
(***************************************************************************)
(* Properties.                                                             *)
(***************************************************************************)
\* The first n rows predate the hash columns; every row behind them is hashed behind its link, and
\* only the first of them can be of the older serialization.
HashedFrom(n) ==
  \A r \in rows :
    IF r.seq < n THEN r = Row(Unhashed, r.seq, EmptyHash, EmptyHash)
    ELSE /\ r = Row(r.op, r.seq, r.prevHash, r.rowHash) /\ r.op # Unhashed
         /\ r.op = OldCode => r.seq = n /\ r.rowHash = ChainHash(LegacyIdentity(r.op, r.seq), r.prevHash)
         /\ r.op # OldCode => r.rowHash = ChainHash(Identity(r.op, r.seq), r.prevHash)

\* The inductive invariant of verify's history.
HistoryInv == \E n \in 0 .. Cardinality(rows) : HashedFrom(n)

\* verify accepts whatever the service wrote, and says how much of it is not anchored.
VerifyAccepts ==
  LET v == Verify(rows)
  IN  /\ v.brokenAt = <<>>
      /\ v.legacyPrefix = Cardinality(RowsOf(Unhashed))
      /\ v.legacySerializationRows = Cardinality(RowsOf(OldCode))

\* The hashed rows, and the rewritings of history verify must notice.
Anchored == {r \in rows : r.rowHash # EmptyHash}
Edited(r, op) == (rows \ {r}) \cup {[r EXCEPT !.op = op]}
Deleted(r) == rows \ {r}
Exchanged(r, q) == (rows \ {r, q}) \cup {[r EXCEPT !.seq = q.seq], [q EXCEPT !.seq = r.seq]}

\* "Any after-the-fact edit/delete/reorder of a historical row breaks the chain at that point":
\* an edited row is reported itself, a deleted one at its successor, two exchanged ones at the
\* earlier position.  The last row has no successor: deleting it is not noticed.
TamperingIsLocated ==
  /\ \A r \in Anchored, op \in Ops \cup {OldCode} :
       op # r.op => Verify(Edited(r, op)).brokenAt = <<r.seq, "rowHash">>
  /\ \A r, q \in Anchored : q.seq = r.seq + 1 => Verify(Deleted(r)).brokenAt = <<q.seq, "linkage">>
  /\ \A r, q \in Anchored : r.seq < q.seq => Verify(Exchanged(r, q)).brokenAt[1] = r.seq
=============================================================================
