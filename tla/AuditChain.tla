----------------------------- MODULE AuditChain -----------------------------
(***************************************************************************)
(* The tenant audit chain (audit/audit.service.ts): transact commits a     *)
(* governance mutation and the audit row that tells of it in one           *)
(* SERIALIZABLE transaction, and repeats it after a conflict.  One         *)
(* organization; every element of Ops is one call of transact (log is      *)
(* transact with an empty mutation).                                       *)
(*                                                                         *)
(* A transaction is two steps.  Everything it reads it reads from the      *)
(* snapshot taken at its first statement; what it wrote becomes visible    *)
(* when it commits.  Postgres lets it commit only if no other append to    *)
(* the chain committed in between (serialization failure, P2034, or the    *)
(* unique index on (orgId, seq), P2002).                                   *)
(***************************************************************************)
EXTENDS Naturals, FiniteSets

CONSTANTS
  Ops,          \* calls of transact
  Unhashed,     \* the operations whose rows predate the hash columns
  OldCode,      \* an enroll_code.create hashed before payloads were normalized
  CodeOps,      \* the operations whose action is "enroll_code.create"
  MaxAttempts,  \* transact's bound on attempts (four in the code)
  MaxLegacy,    \* bound on unhashed rows
  MaxFaults     \* bound on spurious conflicts and lost acknowledgements

ASSUME AuditAssumption ==
  /\ MaxAttempts \in Nat \ {0} /\ MaxLegacy \in Nat /\ MaxFaults \in Nat
  /\ Unhashed \notin Ops /\ OldCode \notin Ops /\ Unhashed # OldCode /\ OldCode \in CodeOps

VARIABLES
  rows,      \* the AuditLog rows of the organization
  snapshot,  \* op -> the rows its transaction sees
  attempt,   \* op -> attempts begun and lost
  opc,       \* op -> where the call stands
  applied,   \* operations whose mutation is committed
  faults

auditVars == <<rows, snapshot, attempt, opc, applied, faults>>

CallSteps == {"start", "inTx", "ok", "failed", "dead"}
-----------------------------------------------------------------------------
\* A digest is what was hashed: equal digests have equal inputs.
EmptyHash == <<>>
ChainHash(identity, prevHash) == <<identity, prevHash>>

\* The identity hashed into the chain, of the payload in the shape it is stored in.
Identity(op, seq) == [op |-> op, seq |-> seq, personId |-> "absent"]

\* What older code hashed for an enrollment code without a person: the member that JSONB drops.
LegacyIdentity(op, seq) == [op |-> op, seq |-> seq, personId |-> "null"]

Row(op, seq, prevHash, rowHash) ==
  [op |-> op, seq |-> seq, prevHash |-> prevHash, rowHash |-> rowHash]

\* findFirst ordered by seq, descending.
LastRow(S) == CHOOSE r \in S : \A q \in S : q.seq <= r.seq

NextSeq(S) == IF S = {} THEN 0 ELSE LastRow(S).seq + 1
HeadHash(S) == IF S = {} THEN EmptyHash ELSE LastRow(S).rowHash

\* The row append creates behind the rows S.
AppendedRow(S, op) ==
  LET seq == NextSeq(S)
      prevHash == HeadHash(S)
  IN  Row(op, seq, prevHash, ChainHash(Identity(op, seq), prevHash))
-----------------------------------------------------------------------------
\* What the migrations leave: unhashed rows, then perhaps a row of the older serialization.
LegacyRows(n, old) ==
  {Row(Unhashed, i, EmptyHash, EmptyHash) : i \in 0 .. (n - 1)}
  \cup IF old THEN {Row(OldCode, n, EmptyHash, ChainHash(LegacyIdentity(OldCode, n), EmptyHash))}
       ELSE {}

AuditInit ==
  /\ \E n \in 0 .. MaxLegacy, old \in BOOLEAN : rows = LegacyRows(n, old)
  /\ snapshot = [p \in Ops |-> {}]
  /\ attempt = [p \in Ops |-> 0]
  /\ opc = [p \in Ops |-> "start"]
  /\ applied = {}
  /\ faults = 0

\* $transaction opens and its first statement takes the snapshot.
BeginTx(p) ==
  /\ opc[p] = "start"
  /\ snapshot' = [snapshot EXCEPT ![p] = rows]
  /\ opc' = [opc EXCEPT ![p] = "inTx"]
  /\ UNCHANGED <<rows, attempt, applied, faults>>

\* The transaction was not overtaken, so Postgres can commit it.
Serializable(p) == snapshot[p] = rows

\* Mutant of AppendAndApply: READ COMMITTED without the unique index.
AppendUnchecked(p) ==
  /\ opc[p] = "inTx"
  /\ rows' = rows \cup {AppendedRow(snapshot[p], p)}
  /\ applied' = applied \cup {p}

\* Mutation and audit row become visible together.
AppendAndApply(p) ==
  /\ opc[p] = "inTx" /\ Serializable(p)
  /\ rows' = rows \cup {AppendedRow(snapshot[p], p)}
  /\ applied' = applied \cup {p}

CommitTx(p) ==
  /\ AppendAndApply(p)
  /\ opc' = [opc EXCEPT ![p] = "ok"]
  /\ UNCHANGED <<snapshot, attempt, faults>>

\* The commit happens and its acknowledgement is lost: an error that is no conflict.
CommitUnacknowledged(p) ==
  /\ faults < MaxFaults
  /\ AppendAndApply(p)
  /\ faults' = faults + 1
  /\ opc' = [opc EXCEPT ![p] = "failed"]
  /\ UNCHANGED <<snapshot, attempt>>

\* Mutant of Retry: the mutation wrote outside the transaction, and its write survives the abort.
RetryKeepsWrite(p) ==
  /\ attempt' = [attempt EXCEPT ![p] = @ + 1]
  /\ opc' = [opc EXCEPT ![p] = IF attempt[p] + 1 = MaxAttempts THEN "failed" ELSE "start"]
  /\ applied' = applied \cup {p}
  /\ UNCHANGED <<rows, snapshot>>

\* A conflict aborts the transaction; transact begins again unless this was its last attempt.
Retry(p) ==
  /\ attempt' = [attempt EXCEPT ![p] = @ + 1]
  /\ opc' = [opc EXCEPT ![p] = IF attempt[p] + 1 = MaxAttempts THEN "failed" ELSE "start"]
  /\ UNCHANGED <<rows, snapshot, applied>>

Conflict(p) ==
  /\ opc[p] = "inTx" /\ ~Serializable(p)
  /\ Retry(p)
  /\ UNCHANGED faults

\* Postgres may also abort a transaction that was not overtaken.
SpuriousConflict(p) ==
  /\ opc[p] = "inTx" /\ Serializable(p) /\ faults < MaxFaults
  /\ faults' = faults + 1
  /\ Retry(p)

\* The mutation itself refuses (nothing found, invalid input): no conflict, no retry.
MutationRefused(p) ==
  /\ opc[p] = "inTx"
  /\ opc' = [opc EXCEPT ![p] = "failed"]
  /\ UNCHANGED <<rows, snapshot, attempt, applied, faults>>

\* The process dies; Postgres rolls its open transactions back.
AuditCrash ==
  /\ faults < MaxFaults
  /\ faults' = faults + 1
  /\ opc' = [p \in Ops |-> IF opc[p] \in {"start", "inTx"} THEN "dead" ELSE opc[p]]
  /\ UNCHANGED <<rows, snapshot, attempt, applied>>

Transact(p) ==
  \/ BeginTx(p) \/ CommitTx(p) \/ CommitUnacknowledged(p)
  \/ Conflict(p) \/ SpuriousConflict(p) \/ MutationRefused(p)

AuditNext == AuditCrash \/ \E p \in Ops : Transact(p)

AuditSpec == AuditInit /\ [][AuditNext]_auditVars
-----------------------------------------------------------------------------
(***************************************************************************)
(* Properties.                                                             *)
(***************************************************************************)
RowsOf(p) == {r \in rows : r.op = p}

AuditTypeOK ==
  /\ \A r \in rows : r.seq \in Nat /\ r.op \in Ops \cup {Unhashed, OldCode}
  /\ snapshot \in [Ops -> SUBSET rows]
  /\ attempt \in [Ops -> 0 .. MaxAttempts]
  /\ opc \in [Ops -> CallSteps]
  /\ applied \subseteq Ops
  /\ faults \in 0 .. MaxFaults

\* The concurrent appends of an organization form one chain: no two rows share a sequence number,
\* every row but the first has a predecessor, and links to its digest.
NoFork == \A r, q \in rows : r.seq = q.seq => r = q

Linked ==
  \A r \in rows :
    IF r.seq = 0 THEN r.prevHash = EmptyHash
    ELSE \E q \in rows : q.seq + 1 = r.seq /\ r.prevHash = q.rowHash

ChainUnbroken == NoFork /\ Linked

\* A governance mutation and its audit row share their fate, however often transact repeats the
\* callback: a committed mutation has exactly one row, and an uncommitted one has none.
\* Success is answered only for a committed mutation.
AuditedOnce ==
  /\ \A p \in Ops : IF p \in applied THEN \E r \in rows : RowsOf(p) = {r} ELSE RowsOf(p) = {}
  /\ \A p \in Ops : opc[p] = "ok" => p \in applied

\* The sequence numbers are exactly the positions below the number of rows: append numbers by the
\* last row it sees, never by counting.
Dense == IsFiniteSet(rows) /\ {r.seq : r \in rows} = 0 .. (Cardinality(rows) - 1)

\* The inductive invariant: the chain, and that a call still running has committed nothing.
AuditInv ==
  /\ AuditTypeOK /\ NoFork /\ Linked /\ Dense /\ AuditedOnce
  /\ \A p \in Ops : opc[p] \in {"start", "inTx"} => p \notin applied /\ attempt[p] < MaxAttempts
=============================================================================
