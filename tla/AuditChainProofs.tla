-------------------------- MODULE AuditChainProofs --------------------------
(***************************************************************************)
(* Proofs about the audit chain: concurrent, repeated and failing          *)
(* transactions write one unforked chain, with one row per committed       *)
(* mutation, for every set of operations and every bound.                  *)
(*                                                                         *)
(* verify accepts every such chain and locates every rewriting of it: by   *)
(* induction on the rows it has read, its locals are what HistoryInv says  *)
(* of the history so far, until it reads a row that was not written there. *)
(***************************************************************************)
EXTENDS AuditVerify, NatInduction, FiniteSetTheorems, TLAPS

\* The last row exists and is numbered by the rows before it.
LEMMA LastRowIsLast ==
  ASSUME NEW S, IsFiniteSet(S), {r.seq : r \in S} = 0 .. (Cardinality(S) - 1), S # {}
  PROVE  LastRow(S) \in S /\ LastRow(S).seq = Cardinality(S) - 1
<1>1. Cardinality(S) \in Nat \ {0}
  BY FS_EmptySet, FS_CardinalityType
<1>2. \A r \in S : r.seq \in 0 .. (Cardinality(S) - 1)
  OBVIOUS
<1>3. PICK last \in S : last.seq = Cardinality(S) - 1
  <2>1. Cardinality(S) - 1 \in {r.seq : r \in S}
    BY <1>1
  <2> QED
    BY <2>1
<1>4. \A q \in S : q.seq <= last.seq
  BY <1>1, <1>2, <1>3
<1>5. LastRow(S) \in S /\ \A q \in S : q.seq <= LastRow(S).seq
  BY <1>4 DEF LastRow
<1> QED
  BY <1>1, <1>2, <1>3, <1>5

\* What append adds behind a dense chain.
LEMMA AppendedRowExtends ==
  ASSUME AuditInv, NEW p \in Ops
  PROVE  LET a == AppendedRow(rows, p) IN
         /\ a.op = p /\ a.seq = Cardinality(rows) /\ a \notin rows
         /\ \A r \in rows : r.seq # a.seq
         /\ IF a.seq = 0 THEN a.prevHash = EmptyHash
            ELSE \E q \in rows : q.seq + 1 = a.seq /\ a.prevHash = q.rowHash
<1> DEFINE a == AppendedRow(rows, p)
<1>1. IsFiniteSet(rows) /\ Cardinality(rows) \in Nat /\ (Cardinality(rows) = 0 <=> rows = {})
  BY FS_EmptySet, FS_CardinalityType DEF AuditInv, Dense
<1>2. rows # {} => LastRow(rows) \in rows /\ LastRow(rows).seq = Cardinality(rows) - 1
  BY LastRowIsLast DEF AuditInv, Dense
<1>3. a.op = p /\ a.seq = NextSeq(rows) /\ a.prevHash = HeadHash(rows)
  BY DEF AppendedRow, Row
<1>4. a.seq = Cardinality(rows)
  BY <1>1, <1>2, <1>3 DEF NextSeq
<1>5. \A r \in rows : r.seq \in 0 .. (Cardinality(rows) - 1)
  BY DEF AuditInv, Dense
<1>6. \A r \in rows : r.seq # a.seq
  BY <1>1, <1>4, <1>5
<1>7. CASE rows = {}
  BY <1>1, <1>3, <1>4, <1>6, <1>7 DEF HeadHash
<1>8. CASE rows # {}
  <2>1. a.seq # 0 /\ LastRow(rows).seq + 1 = a.seq /\ a.prevHash = LastRow(rows).rowHash
    BY <1>1, <1>2, <1>3, <1>4, <1>8 DEF HeadHash
  <2> QED
    BY <1>2, <1>3, <1>4, <1>6, <1>8, <2>1
<1> QED
  BY <1>7, <1>8

\* A committed append preserves the invariant's clauses about the rows.
LEMMA AppendKeepsChain ==
  ASSUME AuditInv, NEW p \in Ops, AppendAndApply(p)
  PROVE  /\ NoFork' /\ Linked' /\ Dense'
         /\ \A r \in rows' : r.seq \in Nat /\ r.op \in Ops \cup {Unhashed, OldCode}
         /\ \A x \in Ops : IF x \in applied' THEN \E r \in rows' : RowsOf(x)' = {r}
                           ELSE RowsOf(x)' = {}
<1> DEFINE a == AppendedRow(rows, p)
<1>1. rows' = rows \cup {a} /\ applied' = applied \cup {p} /\ opc[p] = "inTx"
  BY DEF AppendAndApply, Serializable
<1>2. /\ a.op = p /\ a.seq = Cardinality(rows) /\ a \notin rows
      /\ \A r \in rows : r.seq # a.seq
      /\ IF a.seq = 0 THEN a.prevHash = EmptyHash
         ELSE \E q \in rows : q.seq + 1 = a.seq /\ a.prevHash = q.rowHash
  BY AppendedRowExtends
<1> HIDE DEF a
<1>3. NoFork'
  BY <1>1, <1>2 DEF AuditInv, NoFork
<1>4. Linked'
  BY <1>1, <1>2 DEF AuditInv, Linked
<1>5. Cardinality(rows) \in Nat
  BY FS_CardinalityType DEF AuditInv, Dense
<1>6. IsFiniteSet(rows') /\ Cardinality(rows') = Cardinality(rows) + 1
  BY <1>1, <1>2, FS_AddElement DEF AuditInv, Dense
<1>7. {r.seq : r \in rows'} = {r.seq : r \in rows} \cup {Cardinality(rows)}
  BY <1>1, <1>2
<1>8. {r.seq : r \in rows} = 0 .. (Cardinality(rows) - 1)
  BY DEF AuditInv, Dense
<1>9. Dense'
  BY <1>5, <1>6, <1>7, <1>8 DEF Dense
<1>10. \A r \in rows' : r.seq \in Nat /\ r.op \in Ops \cup {Unhashed, OldCode}
  BY <1>1, <1>2, <1>5 DEF AuditInv, AuditTypeOK
<1>11. p \notin applied /\ RowsOf(p) = {}
  BY <1>1 DEF AuditInv, AuditedOnce
<1>12. RowsOf(p)' = {a}
  BY <1>1, <1>2, <1>11 DEF RowsOf
<1>13. \A x \in Ops \ {p} : RowsOf(x)' = RowsOf(x)
  BY <1>1, <1>2 DEF RowsOf
<1>14. \A x \in Ops : IF x \in applied' THEN \E r \in rows' : RowsOf(x)' = {r}
                      ELSE RowsOf(x)' = {}
  <2> SUFFICES ASSUME NEW x \in Ops
               PROVE  IF x \in applied' THEN \E r \in rows' : RowsOf(x)' = {r}
                      ELSE RowsOf(x)' = {}
    OBVIOUS
  <2>1. CASE x = p
    BY <1>1, <1>12, <2>1
  <2>2. CASE x # p
    <3>1. IF x \in applied THEN \E r \in rows : RowsOf(x) = {r} ELSE RowsOf(x) = {}
      BY DEF AuditInv, AuditedOnce
    <3> QED
      BY <1>1, <1>13, <2>2, <3>1
  <2> QED
    BY <2>1, <2>2
<1> QED
  BY <1>3, <1>4, <1>9, <1>10, <1>14

\* What the migrations leave is a chain.
LEMMA AuditInvInit == AuditInit => AuditInv
<1> SUFFICES ASSUME AuditInit PROVE AuditInv
  OBVIOUS
<1> USE AuditAssumption
<1>1. PICK n \in 0 .. MaxLegacy, old \in BOOLEAN : rows = LegacyRows(n, old)
  BY DEF AuditInit
<1> DEFINE U == {Row(Unhashed, i, EmptyHash, EmptyHash) : i \in 0 .. (n - 1)}
           o == Row(OldCode, n, EmptyHash, ChainHash(LegacyIdentity(OldCode, n), EmptyHash))
<1>2. rows = U \cup IF old THEN {o} ELSE {}
  BY <1>1 DEF LegacyRows
<1>3. n \in Nat
  OBVIOUS
<1>4. IsFiniteSet(U) /\ Cardinality(U) = n
  <2> DEFINE f == [i \in 0 .. (n - 1) |-> Row(Unhashed, i, EmptyHash, EmptyHash)]
  <2>1. f \in Bijection(0 .. (n - 1), U)
    BY DEF Bijection, Injection, Surjection, IsInjective, Row
  <2>2. IsFiniteSet(0 .. (n - 1)) /\ Cardinality(0 .. (n - 1)) = n
    BY <1>3, FS_Interval
  <2> HIDE DEF f, U
  <2> QED
    BY <2>1, <2>2, FS_Bijection DEF ExistsBijection
<1>5. \A r \in U : r.op = Unhashed /\ r.seq \in 0 .. (n - 1) /\ r.prevHash = EmptyHash
                   /\ r.rowHash = EmptyHash
  BY DEF Row
<1>6. o.op = OldCode /\ o.seq = n /\ o.prevHash = EmptyHash
  BY DEF Row
<1>7. \A i \in 0 .. (n - 1) : \E r \in U : r.seq = i
  <2> TAKE i \in 0 .. (n - 1)
  <2> WITNESS Row(Unhashed, i, EmptyHash, EmptyHash) \in U
  <2> QED
    BY DEF Row
<1>8. \A r, q \in U : r.seq = q.seq => r = q
  BY DEF Row
<1>9. o \notin U
  BY <1>5, <1>6
<1> HIDE DEF U, o
<1>10. NoFork
  BY <1>2, <1>3, <1>5, <1>6, <1>8 DEF NoFork
<1>11. Linked
  <2> SUFFICES ASSUME NEW r \in rows
               PROVE  IF r.seq = 0 THEN r.prevHash = EmptyHash
                      ELSE \E q \in rows : q.seq + 1 = r.seq /\ r.prevHash = q.rowHash
    BY DEF Linked
  <2>1. r.seq \in 0 .. n /\ r.prevHash = EmptyHash /\ U \subseteq rows
    BY <1>2, <1>3, <1>5, <1>6
  <2>2. CASE r.seq # 0
    <3>1. r.seq - 1 \in 0 .. (n - 1)
      BY <1>3, <2>1, <2>2
    <3>2. PICK q \in U : q.seq = r.seq - 1
      BY <1>7, <3>1
    <3> QED
      BY <1>3, <1>5, <2>1, <2>2, <3>2
  <2> QED
    BY <2>1, <2>2
<1>12. Dense
  <2>1. CASE old
    <3>1. rows = U \cup {o}
      BY <1>2, <2>1
    <3>2. IsFiniteSet(rows) /\ Cardinality(rows) = n + 1
      BY <1>4, <1>9, <3>1, FS_AddElement
    <3>3. {r.seq : r \in rows} = 0 .. n
      BY <1>3, <1>5, <1>6, <1>7, <3>1
    <3> QED
      BY <1>3, <3>2, <3>3 DEF Dense
  <2>2. CASE ~old
    <3>1. rows = U
      BY <1>2, <2>2
    <3>2. {r.seq : r \in rows} = 0 .. (n - 1)
      BY <1>5, <1>7, <3>1
    <3> QED
      BY <1>4, <3>1, <3>2 DEF Dense
  <2> QED
    BY <2>1, <2>2
<1>13. \A r \in rows : r.seq \in Nat /\ r.op \in {Unhashed, OldCode}
  BY <1>2, <1>3, <1>5, <1>6
<1>14. AuditedOnce
  BY <1>13 DEF AuditInit, AuditedOnce, RowsOf
<1>15. AuditTypeOK
  BY <1>13 DEF AuditInit, AuditTypeOK, CallSteps
<1> QED
  BY <1>10, <1>11, <1>12, <1>14, <1>15 DEF AuditInv, AuditInit

\* Only a commit writes a row, and it writes behind the row it saw last.
LEMMA AuditInvStep == AuditInv /\ [AuditNext]_auditVars => AuditInv'
<1> SUFFICES ASSUME AuditInv, [AuditNext]_auditVars PROVE AuditInv'
  OBVIOUS
<1> USE AuditAssumption
<1>1. /\ snapshot \in [Ops -> SUBSET rows] /\ attempt \in [Ops -> 0 .. MaxAttempts]
      /\ opc \in [Ops -> CallSteps] /\ applied \subseteq Ops /\ faults \in 0 .. MaxFaults
      /\ \A r \in rows : r.seq \in Nat /\ r.op \in Ops \cup {Unhashed, OldCode}
  BY DEF AuditInv, AuditTypeOK
<1>2. /\ \A x \in Ops : opc[x] \in {"start", "inTx"} => x \notin applied /\ attempt[x] < MaxAttempts
      /\ \A x \in Ops : opc[x] = "ok" => x \in applied
  BY DEF AuditInv, AuditedOnce
<1>3. ASSUME NEW p \in Ops, AppendAndApply(p), NEW end \in {"ok", "failed"},
             opc' = [opc EXCEPT ![p] = end], faults' \in 0 .. MaxFaults,
             UNCHANGED <<snapshot, attempt>>
      PROVE  AuditInv'
  <2>1. /\ NoFork' /\ Linked' /\ Dense'
        /\ \A r \in rows' : r.seq \in Nat /\ r.op \in Ops \cup {Unhashed, OldCode}
        /\ \A x \in Ops : IF x \in applied' THEN \E r \in rows' : RowsOf(x)' = {r}
                          ELSE RowsOf(x)' = {}
    BY <1>3, AppendKeepsChain
  <2>2. rows \subseteq rows' /\ applied' = applied \cup {p}
    BY <1>3 DEF AppendAndApply
  <2>3. snapshot' \in [Ops -> SUBSET rows']
    BY <1>1, <1>3, <2>2
  <2>4. AuditTypeOK'
    BY <1>1, <1>3, <2>1, <2>2, <2>3 DEF AuditTypeOK, CallSteps
  <2>5. \A x \in Ops : opc'[x] = "ok" => x \in applied'
    BY <1>1, <1>2, <1>3, <2>2
  <2>6. \A x \in Ops : opc'[x] \in {"start", "inTx"}
                         => x \notin applied' /\ attempt'[x] < MaxAttempts
    BY <1>1, <1>2, <1>3, <2>2
  <2>7. AuditedOnce'
    BY <2>1, <2>5 DEF AuditedOnce
  <2> QED
    BY <2>1, <2>4, <2>6, <2>7 DEF AuditInv
<1>4. ASSUME UNCHANGED <<rows, applied>>, snapshot' \in [Ops -> SUBSET rows],
             attempt' \in [Ops -> 0 .. MaxAttempts], opc' \in [Ops -> CallSteps],
             faults' \in 0 .. MaxFaults,
             \A x \in Ops : opc'[x] = "ok" => x \in applied,
             \A x \in Ops : opc'[x] \in {"start", "inTx"}
                              => x \notin applied /\ attempt'[x] < MaxAttempts
      PROVE  AuditInv'
  <2>1. NoFork' /\ Linked' /\ Dense'
    BY <1>4 DEF AuditInv, NoFork, Linked, Dense
  <2>2. AuditTypeOK'
    BY <1>1, <1>4 DEF AuditTypeOK
  <2>3. \A x \in Ops : RowsOf(x)' = RowsOf(x)
    BY <1>4 DEF RowsOf
  <2>4. AuditedOnce'
    BY <1>4, <2>3 DEF AuditInv, AuditedOnce
  <2> QED
    BY <1>4, <2>1, <2>2, <2>4 DEF AuditInv
<1>5. ASSUME NEW p \in Ops, Transact(p) PROVE AuditInv'
  <2>1. CASE BeginTx(p)
    <3>1. /\ snapshot' \in [Ops -> SUBSET rows] /\ opc' \in [Ops -> CallSteps]
          /\ UNCHANGED <<rows, applied, attempt, faults>>
      BY <1>1, <2>1 DEF BeginTx, CallSteps
    <3>2. /\ \A x \in Ops : opc'[x] = "ok" => x \in applied
          /\ \A x \in Ops : opc'[x] \in {"start", "inTx"}
                              => x \notin applied /\ attempt'[x] < MaxAttempts
      BY <1>1, <1>2, <2>1, <3>1 DEF BeginTx
    <3> QED
      BY <1>1, <1>4, <3>1, <3>2
  <2>2. CASE CommitTx(p)
    BY <1>1, <1>3, <2>2 DEF CommitTx
  <2>3. CASE CommitUnacknowledged(p)
    <3>1. /\ AppendAndApply(p) /\ opc' = [opc EXCEPT ![p] = "failed"]
          /\ faults' \in 0 .. MaxFaults /\ UNCHANGED <<snapshot, attempt>>
      BY <1>1, <2>3 DEF CommitUnacknowledged
    <3> QED
      BY <1>3, <3>1
  <2>4. ASSUME Retry(p), opc[p] = "inTx", faults' \in 0 .. MaxFaults PROVE AuditInv'
    <3>1. attempt[p] \in Nat /\ attempt[p] < MaxAttempts /\ p \notin applied
      BY <1>1, <1>2, <2>4
    <3>2. /\ attempt' = [attempt EXCEPT ![p] = attempt[p] + 1]
          /\ opc' = [opc EXCEPT ![p] = IF attempt[p] + 1 = MaxAttempts THEN "failed" ELSE "start"]
          /\ UNCHANGED <<rows, snapshot, applied>>
      BY <2>4 DEF Retry
    <3>3. attempt' \in [Ops -> 0 .. MaxAttempts] /\ opc' \in [Ops -> CallSteps]
      BY <1>1, <3>1, <3>2 DEF CallSteps
    <3>4. /\ \A x \in Ops : opc'[x] = "ok" => x \in applied
          /\ \A x \in Ops : opc'[x] \in {"start", "inTx"}
                              => x \notin applied /\ attempt'[x] < MaxAttempts
      BY <1>1, <1>2, <3>1, <3>2
    <3> QED
      BY <1>1, <1>4, <2>4, <3>2, <3>3, <3>4
  <2>5. CASE Conflict(p)
    BY <1>1, <2>4, <2>5 DEF Conflict
  <2>6. CASE SpuriousConflict(p)
    BY <1>1, <2>4, <2>6 DEF SpuriousConflict
  <2>7. CASE MutationRefused(p)
    <3>1. opc' \in [Ops -> CallSteps] /\ UNCHANGED <<rows, applied, snapshot, attempt, faults>>
      BY <1>1, <2>7 DEF MutationRefused, CallSteps
    <3>2. /\ \A x \in Ops : opc'[x] = "ok" => x \in applied
          /\ \A x \in Ops : opc'[x] \in {"start", "inTx"}
                              => x \notin applied /\ attempt'[x] < MaxAttempts
      BY <1>1, <1>2, <2>7, <3>1 DEF MutationRefused
    <3> QED
      BY <1>1, <1>4, <3>1, <3>2
  <2> QED
    BY <1>5, <2>1, <2>2, <2>3, <2>5, <2>6, <2>7 DEF Transact
<1>6. CASE AuditCrash
  <2>1. /\ opc' \in [Ops -> CallSteps] /\ UNCHANGED <<rows, applied, snapshot, attempt>>
        /\ faults' \in 0 .. MaxFaults
    BY <1>1, <1>6 DEF AuditCrash, CallSteps
  <2>2. /\ \A x \in Ops : opc'[x] = "ok" => x \in applied
        /\ \A x \in Ops : opc'[x] \in {"start", "inTx"}
                            => x \notin applied /\ attempt'[x] < MaxAttempts
    BY <1>1, <1>2, <1>6, <2>1 DEF AuditCrash
  <2> QED
    BY <1>1, <1>4, <2>1, <2>2
<1>7. CASE UNCHANGED auditVars
  BY <1>1, <1>2, <1>4, <1>7 DEF auditVars
<1> QED
  BY <1>5, <1>6, <1>7 DEF AuditNext

\* The inductive invariant holds of every behaviour of the audit service.
THEOREM AuditInvariant == AuditSpec => []AuditInv
BY AuditInvInit, AuditInvStep, PTL DEF AuditSpec

\* However many transactions run, conflict, are repeated or die, append writes one chain.
THEOREM AuditChainIsUnbroken == AuditSpec => []ChainUnbroken
<1>1. AuditInv => ChainUnbroken
  BY DEF AuditInv, ChainUnbroken
<1> QED
  BY <1>1, AuditInvariant, PTL

\* transact applies a mutation and writes its audit row together, at most once.
THEOREM MutationsAreAuditedOnce == AuditSpec => []AuditedOnce
<1>1. AuditInv => AuditedOnce
  BY DEF AuditInv
<1> QED
  BY <1>1, AuditInvariant, PTL

-----------------------------------------------------------------------------
(***************************************************************************)
(* verify                                                                  *)
(***************************************************************************)

\* Only the first row that is hashed can be of the older serialization.
LEMMA HistoryInitially == AuditInit => HistoryInv
<1> SUFFICES ASSUME AuditInit PROVE HistoryInv
  OBVIOUS
<1> USE AuditAssumption
<1>1. PICK n \in 0 .. MaxLegacy, old \in BOOLEAN : rows = LegacyRows(n, old)
  BY DEF AuditInit
<1> DEFINE U == {Row(Unhashed, i, EmptyHash, EmptyHash) : i \in 0 .. (n - 1)}
           o == Row(OldCode, n, EmptyHash, ChainHash(LegacyIdentity(OldCode, n), EmptyHash))
<1>2. rows = U \cup IF old THEN {o} ELSE {}
  BY <1>1 DEF LegacyRows
<1>3. n \in Nat
  OBVIOUS
<1>4. \A r \in U : r.seq \in 0 .. (n - 1) /\ r = Row(Unhashed, r.seq, EmptyHash, EmptyHash)
  BY DEF Row
<1>5. /\ o.op = OldCode /\ o.seq = n /\ o.prevHash = EmptyHash
      /\ o.rowHash = ChainHash(LegacyIdentity(OldCode, n), EmptyHash)
      /\ o = Row(o.op, o.seq, o.prevHash, o.rowHash)
  BY DEF Row
<1>6. ASSUME NEW r \in rows
      PROVE  IF r.seq < n THEN r = Row(Unhashed, r.seq, EmptyHash, EmptyHash)
             ELSE /\ r = Row(r.op, r.seq, r.prevHash, r.rowHash) /\ r.op # Unhashed
                  /\ r.op = OldCode => r.seq = n /\ r.rowHash = ChainHash(LegacyIdentity(r.op, r.seq), r.prevHash)
                  /\ r.op # OldCode => r.rowHash = ChainHash(Identity(r.op, r.seq), r.prevHash)
  <2> HIDE DEF U, o
  <2>1. CASE r \in U
    BY <1>3, <1>4, <2>1
  <2>2. CASE r = o
    BY <1>3, <1>5, <2>2
  <2> QED BY <1>2, <2>1, <2>2
<1>7. HashedFrom(n)
  BY <1>6 DEF HashedFrom
<1>8. AuditInv
  BY AuditInvInit
<1>9. n <= Cardinality(rows)
  <2>1. IsFiniteSet(rows) /\ Cardinality(rows) \in Nat /\ {r.seq : r \in rows} = 0 .. (Cardinality(rows) - 1)
    BY <1>8, FS_CardinalityType DEF AuditInv, Dense
  <2>2. CASE n = 0
    BY <2>1, <2>2
  <2>3. CASE n # 0
    <3> DEFINE last == Row(Unhashed, n - 1, EmptyHash, EmptyHash)
    <3>1. last \in rows
      BY <1>2, <1>3, <2>3
    <3>2. last.seq = n - 1
      BY DEF Row
    <3> HIDE DEF last
    <3>3. n - 1 \in 0 .. (Cardinality(rows) - 1)
      BY <2>1, <3>1, <3>2
    <3> QED BY <1>3, <2>1, <3>3
  <2> QED BY <2>2, <2>3
<1>10. Cardinality(rows) \in Nat
  BY <1>8, FS_CardinalityType DEF AuditInv, Dense
<1> HIDE DEF U, o
<1> QED BY <1>3, <1>7, <1>9, <1>10 DEF HistoryInv

\* append hashes what it writes, and writes behind every row there is.
LEMMA HistoryStep == AuditInv /\ HistoryInv /\ [AuditNext]_auditVars => HistoryInv'
<1> SUFFICES ASSUME AuditInv, HistoryInv, [AuditNext]_auditVars PROVE HistoryInv'
  OBVIOUS
<1>1. PICK n \in 0 .. Cardinality(rows) : HashedFrom(n)
  BY DEF HistoryInv
<1>2. ASSUME NEW p \in Ops, AppendAndApply(p) PROVE HistoryInv'
  <2> DEFINE a == AppendedRow(rows, p)
  <2>1. rows' = rows \cup {a}
    BY <1>2 DEF AppendAndApply, Serializable
  <2>2. a.op = p /\ a.seq = Cardinality(rows) /\ a \notin rows
    BY AppendedRowExtends
  <2>3. a.rowHash = ChainHash(Identity(a.op, a.seq), a.prevHash) /\ a = Row(a.op, a.seq, a.prevHash, a.rowHash)
    BY DEF AppendedRow, Row
  <2> HIDE DEF a
  <2>4. Cardinality(rows) \in Nat /\ Cardinality(rows') = Cardinality(rows) + 1
    BY <2>1, <2>2, FS_AddElement, FS_CardinalityType DEF AuditInv, Dense
  <2>5. p # Unhashed /\ p # OldCode
    BY AuditAssumption
  <2>6. HashedFrom(n)'
    BY <1>1, <2>1, <2>2, <2>3, <2>4, <2>5 DEF HashedFrom
  <2>7. n \in 0 .. Cardinality(rows')
    BY <1>1, <2>4
  <2> QED BY <2>6, <2>7 DEF HistoryInv
<1>3. ASSUME UNCHANGED rows PROVE HistoryInv'
  BY <1>1, <1>3 DEF HistoryInv, HashedFrom
<1>4. ASSUME NEW p \in Ops, Transact(p) PROVE HistoryInv'
  BY <1>2, <1>3, <1>4 DEF Transact, BeginTx, CommitTx, CommitUnacknowledged, Conflict, SpuriousConflict,
     MutationRefused, Retry
<1> QED BY <1>3, <1>4 DEF AuditNext, AuditCrash, auditVars

\* verify is the last of the states its loop goes through, one for each row.
LEMMA VerifyUnfolds ==
  ASSUME NEW T, Cardinality(T) \in Nat
  PROVE  \E v : /\ Verify(T) = v[Cardinality(T)] /\ v[0] = VerifyStart
                /\ \A i \in 1 .. Cardinality(T) : v[i] = VerifyRow(v[i - 1], InOrder(T)[i])
<1> DEFINE N == Cardinality(T)
           Steps(v, n) == v = [i \in 0 .. n |-> IF i = 0 THEN VerifyStart ELSE VerifyRow(v[i - 1], InOrder(T)[i])]
           S == {n \in Nat : \E v : Steps(v, n)}
<1>1. 0 \in S
  <2> DEFINE v == [i \in 0 .. 0 |-> VerifyStart]
  <2>1. Steps(v, 0)
    OBVIOUS
  <2> HIDE DEF Steps
  <2> QED BY <2>1
<1>2. ASSUME NEW n \in Nat, n \in S PROVE n + 1 \in S
  <2>1. PICK v : Steps(v, n)
    BY <1>2
  <2> DEFINE w == [i \in 0 .. n + 1 |-> IF i = n + 1 THEN VerifyRow(v[n], InOrder(T)[n + 1]) ELSE v[i]]
  <2>2. \A i \in 0 .. n : v[i] = IF i = 0 THEN VerifyStart ELSE VerifyRow(v[i - 1], InOrder(T)[i])
    BY <2>1
  <2>3. ASSUME NEW i \in 0 .. n + 1
        PROVE  w[i] = IF i = 0 THEN VerifyStart ELSE VerifyRow(w[i - 1], InOrder(T)[i])
    <3>1. CASE i = n + 1
      <4>1. i # 0 /\ i - 1 = n /\ n \in 0 .. n + 1 /\ n # n + 1
        BY <3>1
      <4>2. w[i] = VerifyRow(v[n], InOrder(T)[n + 1]) /\ w[n] = v[n]
        BY <3>1, <4>1
      <4> HIDE DEF w
      <4> QED BY <3>1, <4>1, <4>2
    <3>2. CASE i # n + 1
      <4>1. i \in 0 .. n /\ w[i] = v[i]
        BY <3>2
      <4>2. i # 0 => w[i - 1] = v[i - 1]
        BY <4>1
      <4> HIDE DEF w
      <4> QED BY <2>2, <4>1, <4>2
    <3> QED BY <3>1, <3>2
  <2>4. Steps(w, n + 1)
    <3>1. w = [i \in 0 .. n + 1 |-> w[i]]
      OBVIOUS
    <3> HIDE DEF w
    <3> QED BY <2>3, <3>1
  <2> HIDE DEF Steps, w
  <2> QED BY <2>4
<1>3. Nat \subseteq S
  <2> HIDE DEF S
  <2> QED BY <1>1, <1>2, InductionOnSet
<1>4. PICK u : Steps(u, Cardinality(T))
  <2> HIDE DEF Steps
  <2> QED BY <1>3
<1> DEFINE v == CHOOSE w : Steps(w, Cardinality(T))
<1>5. Steps(v, Cardinality(T))
  <2> HIDE DEF Steps
  <2> QED BY <1>4
<1>6. Verify(T) = v[Cardinality(T)]
  BY Zenon DEF Verify
<1> HIDE DEF v
<1>7. v[0] = VerifyStart /\ \A i \in 1 .. Cardinality(T) : v[i] = VerifyRow(v[i - 1], InOrder(T)[i])
  BY <1>5
<1> QED BY <1>6, <1>7

\* A row's place is told by how many rows come before it.
LEMMA PlaceOfRow ==
  ASSUME NEW T, IsFiniteSet(T), \A r \in T : r.seq \in Nat, \A r, q \in T : r.seq = q.seq => r = q,
         NEW p \in T, NEW i \in 1 .. Cardinality(T), Cardinality({q \in T : q.seq < p.seq}) = i - 1
  PROVE  InOrder(T)[i] = p
<1> DEFINE Below(r) == {q \in T : q.seq < r.seq}
<1>1. \A r \in T : IsFiniteSet(Below(r)) /\ Cardinality(Below(r)) \in Nat
  BY FS_Subset, FS_CardinalityType
<1>2. ASSUME NEW r \in T, NEW s \in T, r.seq < s.seq PROVE Cardinality(Below(r)) < Cardinality(Below(s))
  <2>1. r \notin Below(r) /\ Below(r) \cup {r} \subseteq Below(s)
    BY <1>2
  <2> HIDE DEF Below
  <2>2. Cardinality(Below(r) \cup {r}) = Cardinality(Below(r)) + 1
    BY <1>1, <2>1, FS_AddElement
  <2>3. Cardinality(Below(r) \cup {r}) <= Cardinality(Below(s))
    BY <1>1, <2>1, FS_Subset
  <2> QED BY <1>1, <2>2, <2>3
<1>3. ASSUME NEW r \in T, Cardinality(Below(r)) = i - 1 PROVE r = p
  <2>1. ~(r.seq < p.seq) /\ ~(p.seq < r.seq)
    <3> Cardinality(Below(p)) = i - 1
      OBVIOUS
    <3> HIDE DEF Below
    <3> QED BY <1>1, <1>2, <1>3
  <2> QED BY <2>1
<1>4. InOrder(T)[i] = CHOOSE r \in T : Cardinality(Below(r)) = i - 1
  BY DEF InOrder
<1>5. Cardinality(Below(p)) = i - 1
  OBVIOUS
<1> HIDE DEF Below
<1> QED BY <1>3, <1>4, <1>5

\* As many rows as sequence numbers.
LEMMA CountBySeq ==
  ASSUME NEW T, \A r \in T : r.seq \in Nat, \A r, q \in T : r.seq = q.seq => r = q,
         NEW k \in Nat, {r.seq : r \in T} = 0 .. (k - 1)
  PROVE  IsFiniteSet(T) /\ Cardinality(T) = k
<1> DEFINE f == [i \in 0 .. (k - 1) |-> CHOOSE r \in T : r.seq = i]
<1>1. \A i \in 0 .. (k - 1) : f[i] \in T /\ f[i].seq = i
  OBVIOUS
<1>2. \A r \in T : r.seq \in 0 .. (k - 1) /\ f[r.seq] = r
  <2> TAKE r \in T
  <2>1. r.seq \in 0 .. (k - 1)
    OBVIOUS
  <2>2. f[r.seq] \in T /\ f[r.seq].seq = r.seq
    BY <1>1, <2>1
  <2> HIDE DEF f
  <2> QED BY <2>1, <2>2
<1>3. f \in [0 .. (k - 1) -> T]
  BY <1>1
<1> HIDE DEF f
<1>4. f \in Bijection(0 .. (k - 1), T)
  BY <1>1, <1>2, <1>3 DEF Bijection, Injection, Surjection, IsInjective
<1>5. IsFiniteSet(0 .. (k - 1)) /\ Cardinality(0 .. (k - 1)) = k
  BY FS_Interval
<1> QED BY <1>4, <1>5, FS_Bijection DEF ExistsBijection

\* The place of a row whose predecessors are numbered without a gap.
LEMMA PlaceInPrefix ==
  ASSUME NEW T, IsFiniteSet(T), \A r \in T : r.seq \in Nat, \A r, q \in T : r.seq = q.seq => r = q,
         NEW p \in T, NEW k \in Nat, {r.seq : r \in {q \in T : q.seq < p.seq}} = 0 .. (k - 1)
  PROVE  k + 1 \in 1 .. Cardinality(T) /\ InOrder(T)[k + 1] = p
<1> DEFINE B == {q \in T : q.seq < p.seq}
<1>1. IsFiniteSet(B) /\ Cardinality(B) = k
  <2>1. /\ \A r \in B : r.seq \in Nat
        /\ \A r, q \in B : r.seq = q.seq => r = q
        /\ {r.seq : r \in B} = 0 .. (k - 1)
    OBVIOUS
  <2> HIDE DEF B
  <2> QED BY <2>1, CountBySeq
<1>2. p \notin B /\ B \cup {p} \subseteq T
  OBVIOUS
<1>3. Cardinality({q \in T : q.seq < p.seq}) = k
  BY <1>1
<1> HIDE DEF B
<1>4. Cardinality(B \cup {p}) = k + 1
  BY <1>1, <1>2, FS_AddElement
<1>5. Cardinality(B \cup {p}) <= Cardinality(T) /\ Cardinality(T) \in Nat
  BY <1>2, FS_Subset, FS_CardinalityType
<1>6. k + 1 \in 1 .. Cardinality(T) /\ (k + 1) - 1 = k
  BY <1>4, <1>5
<1> QED BY <1>3, <1>6, PlaceOfRow

\* The locals of verify's loop.
Loop(prev, prefix, legacy, anch, at) ==
  [prevHash |-> prev, legacyPrefix |-> prefix, legacySerializationRows |-> legacy, anchored |-> anch, brokenAt |-> at]

\* A digest tells what was hashed.
LEMMA Digests ==
  ASSUME NEW a, NEW b, NEW h, NEW g
  PROVE  ChainHash(a, h) # EmptyHash /\ (ChainHash(a, h) = ChainHash(b, g) => a = b /\ h = g)
BY DEF ChainHash, EmptyHash

\* And an identity what it is made of.
LEMMA Identities ==
  ASSUME NEW p, NEW q, NEW i, NEW j
  PROVE  /\ Identity(p, i) = Identity(q, j) => p = q /\ i = j
         /\ LegacyIdentity(p, i) = LegacyIdentity(q, j) => p = q /\ i = j
         /\ Identity(p, i) # LegacyIdentity(q, j)
<1>1. /\ Identity(p, i).op = p /\ Identity(p, i).seq = i /\ Identity(p, i).personId = "absent"
      /\ Identity(q, j).op = q /\ Identity(q, j).seq = j
  BY DEF Identity
<1>2. /\ LegacyIdentity(p, i).op = p /\ LegacyIdentity(p, i).seq = i
      /\ LegacyIdentity(q, j).op = q /\ LegacyIdentity(q, j).seq = j /\ LegacyIdentity(q, j).personId = "null"
  BY DEF LegacyIdentity
<1> QED BY <1>1, <1>2

\* An iteration over a row without a digest, before the first that has one.
LEMMA UnhashedPasses ==
  ASSUME NEW a \in Nat, NEW r, r.prevHash = EmptyHash, r.rowHash = EmptyHash
  PROVE  VerifyRow(Loop(EmptyHash, a, 0, FALSE, <<>>), r) = Loop(EmptyHash, a + 1, 0, FALSE, <<>>)
<1> DEFINE x == Loop(EmptyHash, a, 0, FALSE, <<>>)
<1>1. x.anchored = FALSE /\ x.brokenAt = <<>>
  BY DEF Loop
<1>2. VerifyRow(x, r) = [x EXCEPT !.legacyPrefix = @ + 1]
  BY <1>1 DEF VerifyRow
<1> QED BY <1>2 DEF Loop

\* Where the loop stands behind the first k rows of a history whose first n rows are unhashed.
Passed(x, n, k) ==
  /\ k <= n => x = Loop(EmptyHash, k, 0, FALSE, <<>>)
  /\ k > n => \E r \in rows : r.seq = k - 1 /\
                x = Loop(r.rowHash, n, IF \E q \in rows : q.op = OldCode THEN 1 ELSE 0, TRUE, <<>>)

\* It then expects exactly the link of the row that follows.
LEMMA ExpectsLink ==
  ASSUME AuditInv, NEW n \in Nat, HashedFrom(n), NEW k \in Nat, n <= k, NEW x, Passed(x, n, k),
         NEW r \in rows, r.seq = k
  PROVE  x = Loop(r.prevHash, n, IF n < k /\ \E q \in rows : q.op = OldCode THEN 1 ELSE 0, n < k, <<>>)
<1>1. IF k = 0 THEN r.prevHash = EmptyHash ELSE \E q \in rows : q.seq + 1 = k /\ r.prevHash = q.rowHash
  BY DEF AuditInv, Linked
<1>2. \A q \in rows : q.seq \in Nat
  BY DEF AuditInv, AuditTypeOK
<1>3. CASE k = n
  <2>1. r.prevHash = EmptyHash
    <3>1. CASE k = 0
      BY <1>1, <3>1
    <3>2. CASE k # 0
      <4>1. PICK q \in rows : q.seq + 1 = k /\ r.prevHash = q.rowHash
        BY <1>1, <3>2
      <4>2. q.seq < n
        BY <1>2, <1>3, <4>1
      <4> QED BY <4>1, <4>2 DEF HashedFrom, Row
    <3> QED BY <3>1, <3>2
  <2>2. ~(n < k) /\ x = Loop(EmptyHash, k, 0, FALSE, <<>>)
    BY <1>3 DEF Passed
  <2>3. (n < k) = FALSE
    BY <2>2
  <2> QED BY <1>3, <2>1, <2>2, <2>3
<1>4. CASE n < k
  <2>1. PICK q \in rows : q.seq + 1 = k /\ r.prevHash = q.rowHash
    BY <1>1, <1>4
  <2>2. PICK s \in rows : s.seq = k - 1 /\
          x = Loop(s.rowHash, n, IF \E z \in rows : z.op = OldCode THEN 1 ELSE 0, TRUE, <<>>)
    BY <1>4 DEF Passed
  <2>3. q.seq = s.seq
    BY <1>2, <2>1, <2>2
  <2>4. q = s
    BY <2>3 DEF AuditInv, NoFork
  <2>5. (n < k) = TRUE
    BY <1>4
  <2> QED BY <1>4, <2>1, <2>2, <2>4, <2>5
<1> QED BY <1>3, <1>4

\* A row of the history is passed, whether it has no digest, a digest, or one of the older serialization.
LEMMA NextRowPasses ==
  ASSUME AuditInv, NEW n \in Nat, HashedFrom(n), NEW r \in rows, NEW x, Passed(x, n, r.seq)
  PROVE  Passed(VerifyRow(x, r), n, r.seq + 1)
<1> r.seq \in Nat
  BY DEF AuditInv, AuditTypeOK
<1>1. CASE r.seq < n
  <2>1. r = Row(Unhashed, r.seq, EmptyHash, EmptyHash)
    BY <1>1 DEF HashedFrom
  <2>2. r.prevHash = EmptyHash /\ r.rowHash = EmptyHash
    BY <2>1 DEF Row
  <2>3. x = Loop(EmptyHash, r.seq, 0, FALSE, <<>>)
    <3>1. r.seq <= n
      BY <1>1
    <3> QED BY <3>1, Zenon DEF Passed
  <2>4. VerifyRow(x, r) = Loop(EmptyHash, r.seq + 1, 0, FALSE, <<>>)
    BY <2>2, <2>3, UnhashedPasses, Zenon
  <2>5. r.seq + 1 <= n /\ ~(r.seq + 1 > n)
    BY <1>1
  <2> QED BY <2>4, <2>5 DEF Passed
<1>2. CASE n <= r.seq
  <2> DEFINE old == \E q \in rows : q.op = OldCode
  <2>1. PICK l, t : l \in Nat /\ x = Loop(r.prevHash, n, l, t, <<>>) /\ l = IF n < r.seq /\ old THEN 1 ELSE 0
    <3> DEFINE c == IF n < r.seq /\ old THEN 1 ELSE 0
    <3>1. x = Loop(r.prevHash, n, c, n < r.seq, <<>>)
      BY <1>2, ExpectsLink
    <3>2. c \in Nat
      OBVIOUS
    <3> HIDE DEF c
    <3> QED BY <3>1, <3>2 DEF c
  <2>2. ~(r.seq < n)
    BY <1>2
  <2>3. /\ r.op = OldCode => r.seq = n /\ r.rowHash = ChainHash(LegacyIdentity(r.op, r.seq), r.prevHash)
        /\ r.op # OldCode => r.rowHash = ChainHash(Identity(r.op, r.seq), r.prevHash)
    BY <2>2 DEF HashedFrom
  <2>4. r.seq + 1 > n /\ ~(r.seq + 1 <= n) /\ r.seq = (r.seq + 1) - 1
    BY <1>2
  <2>5. CASE r.op = OldCode
    <3>1. r.seq = n /\ l = 0 /\ old
      BY <2>1, <2>3, <2>5
    <3>2. r.op \in CodeOps
      BY <2>5, AuditAssumption
    <3> HIDE DEF old
    <3>3. VerifyRow(x, r) = Loop(r.rowHash, n, l + 1, TRUE, <<>>)
      <4>1. r.rowHash = ChainHash(LegacyIdentity(r.op, r.seq), r.prevHash)
        BY <2>3, <2>5
      <4>2. r.rowHash # EmptyHash /\ r.rowHash # ChainHash(Identity(r.op, r.seq), r.prevHash)
        BY <4>1, Digests, Identities
      <4>3. x.prevHash = r.prevHash /\ x.brokenAt = <<>>
        BY <2>1 DEF Loop
      <4>4. VerifyRow(x, r) = [x EXCEPT !.anchored = TRUE, !.prevHash = r.rowHash, !.legacySerializationRows = @ + 1]
        BY <3>2, <4>1, <4>2, <4>3 DEF VerifyRow, MatchesLegacySerialization
      <4> QED BY <2>1, <4>4 DEF Loop
    <3>4. VerifyRow(x, r) = Loop(r.rowHash, n, IF old THEN 1 ELSE 0, TRUE, <<>>)
      BY <3>1, <3>3
    <3> QED BY <2>4, <3>4 DEF Passed, old
  <2>6. CASE r.op # OldCode
    <3>1. l = IF old THEN 1 ELSE 0
      <4>1. CASE n < r.seq
        BY <2>1, <4>1
      <4>2. CASE n = r.seq
        <5>1. ASSUME NEW q \in rows, q.op = OldCode PROVE FALSE
          <6>1. q.op # Unhashed /\ q.seq \in Nat
            BY <5>1, AuditAssumption DEF AuditInv, AuditTypeOK
          <6>2. ~(q.seq < n)
            BY <6>1 DEF HashedFrom, Row
          <6>3. q.seq = r.seq
            BY <4>2, <5>1, <6>2 DEF HashedFrom
          <6>4. q = r
            BY <6>3 DEF AuditInv, NoFork
          <6> QED BY <2>6, <5>1, <6>4
        <5> QED BY <2>1, <4>2, <5>1
      <4> QED BY <1>2, <4>1, <4>2
    <3> HIDE DEF old
    <3>2. VerifyRow(x, r) = Loop(r.rowHash, n, l, TRUE, <<>>)
      <4>1. r.rowHash = ChainHash(Identity(r.op, r.seq), r.prevHash)
        BY <2>3, <2>6
      <4>2. r.rowHash # EmptyHash
        BY <4>1, Digests
      <4>3. x.prevHash = r.prevHash /\ x.brokenAt = <<>>
        BY <2>1 DEF Loop
      <4>4. VerifyRow(x, r) = [x EXCEPT !.anchored = TRUE, !.prevHash = r.rowHash, !.legacySerializationRows = @]
        BY <4>1, <4>2, <4>3 DEF VerifyRow
      <4> QED BY <2>1, <4>4 DEF Loop
    <3>3. VerifyRow(x, r) = Loop(r.rowHash, n, IF old THEN 1 ELSE 0, TRUE, <<>>)
      BY <3>1, <3>2
    <3> QED BY <2>4, <3>3 DEF Passed, old
  <2> QED BY <2>5, <2>6
<1> QED BY <1>1, <1>2

\* verify passes a history for as long as it reads the rows that were written.
LEMMA PrefixPasses ==
  ASSUME AuditInv, NEW n \in Nat, HashedFrom(n), NEW m \in Nat, NEW v, NEW row, v[0] = VerifyStart,
         \A i \in 1 .. m : v[i] = VerifyRow(v[i - 1], row[i]) /\ row[i] \in rows /\ row[i].seq = i - 1
  PROVE  Passed(v[m], n, m)
<1> DEFINE S == {k \in Nat : k <= m => Passed(v[k], n, k)}
<1>1. 0 \in S
  BY DEF VerifyStart, Passed, Loop
<1>2. ASSUME NEW k \in Nat, k \in S PROVE k + 1 \in S
  <2> SUFFICES ASSUME k + 1 <= m PROVE Passed(v[k + 1], n, k + 1)
    OBVIOUS
  <2>1. Passed(v[k], n, k)
    BY <1>2
  <2>2. k + 1 \in 1 .. m /\ (k + 1) - 1 = k
    OBVIOUS
  <2>3. v[k + 1] = VerifyRow(v[k], row[k + 1]) /\ row[k + 1] \in rows /\ row[k + 1].seq = k
    BY <2>2
  <2>4. Passed(v[k], n, row[k + 1].seq)
    BY <2>1, <2>3
  <2>5. Passed(VerifyRow(v[k], row[k + 1]), n, row[k + 1].seq + 1)
    BY <2>3, <2>4, NextRowPasses
  <2> QED BY <2>3, <2>5
<1>3. m \in S
  <2> HIDE DEF S
  <2> QED BY <1>1, <1>2, InductionOnSet
<1> QED BY <1>3

\* verify returns at the first row that does not match.
LEMMA StaysBroken ==
  ASSUME NEW v, NEW row, NEW m \in Nat, NEW k \in 0 .. m,
         \A i \in (k + 1) .. m : v[i] = VerifyRow(v[i - 1], row[i]), v[k].brokenAt # <<>>
  PROVE  v[m].brokenAt = v[k].brokenAt
<1> DEFINE S == {j \in Nat : k + j <= m => v[k + j].brokenAt = v[k].brokenAt}
<1>1. 0 \in S
  OBVIOUS
<1>2. ASSUME NEW j \in Nat, j \in S PROVE j + 1 \in S
  <2> SUFFICES ASSUME k + (j + 1) <= m PROVE v[k + (j + 1)].brokenAt = v[k].brokenAt
    OBVIOUS
  <2>1. v[k + j].brokenAt = v[k].brokenAt
    BY <1>2
  <2>2. k + (j + 1) \in (k + 1) .. m /\ (k + (j + 1)) - 1 = k + j
    OBVIOUS
  <2>3. v[k + (j + 1)] = VerifyRow(v[k + j], row[k + (j + 1)])
    BY <2>2
  <2>4. VerifyRow(v[k + j], row[k + (j + 1)]) = v[k + j]
    BY <2>1 DEF VerifyRow
  <2> QED BY <2>1, <2>3, <2>4
<1>3. m - k \in S
  <2> HIDE DEF S
  <2> QED BY <1>1, <1>2, InductionOnSet
<1>4. k + (m - k) = m
  OBVIOUS
<1> QED BY <1>3, <1>4

\* The rows before a row of the history are numbered without a gap.
LEMMA PrefixIsDense ==
  ASSUME AuditInv, NEW k \in Nat, k <= Cardinality(rows)
  PROVE  {q.seq : q \in {x \in rows : x.seq < k}} = 0 .. (k - 1)
<1>1. Cardinality(rows) \in Nat /\ {r.seq : r \in rows} = 0 .. (Cardinality(rows) - 1)
  BY FS_CardinalityType DEF AuditInv, Dense
<1>2. \A i \in 0 .. (k - 1) : \E q \in rows : q.seq = i
  <2> TAKE i \in 0 .. (k - 1)
  <2>1. i \in {r.seq : r \in rows}
    BY <1>1
  <2> QED BY <2>1
<1>3. \A q \in rows : q.seq \in Nat
  BY DEF AuditInv, AuditTypeOK
<1> QED BY <1>2, <1>3

\* findMany: the rows in the order of their numbers.
LEMMA RowsInPlace ==
  ASSUME AuditInv, NEW T, IsFiniteSet(T), \A q \in T : q.seq \in Nat, \A q, r \in T : q.seq = r.seq => q = r,
         NEW m \in Nat, m <= Cardinality(rows), \A q \in rows : q.seq < m => q \in T,
         \A q \in T : q.seq < m => q \in rows
  PROVE  \A i \in 1 .. m : i \in 1 .. Cardinality(T) /\ InOrder(T)[i] \in rows /\ InOrder(T)[i].seq = i - 1
<1> SUFFICES ASSUME NEW i \in 1 .. m
             PROVE  i \in 1 .. Cardinality(T) /\ InOrder(T)[i] \in rows /\ InOrder(T)[i].seq = i - 1
  OBVIOUS
<1>1. i - 1 \in Nat /\ i - 1 <= Cardinality(rows) /\ (i - 1) + 1 = i /\ i - 1 < m
  BY FS_CardinalityType DEF AuditInv, Dense
<1>2. PICK p \in rows : p.seq = i - 1
  <2>1. Cardinality(rows) \in Nat /\ {r.seq : r \in rows} = 0 .. (Cardinality(rows) - 1)
    BY FS_CardinalityType DEF AuditInv, Dense
  <2>2. i - 1 \in 0 .. (Cardinality(rows) - 1)
    BY <2>1
  <2>3. i - 1 \in {r.seq : r \in rows}
    BY <2>1, <2>2
  <2> QED BY <2>3
<1>3. p \in T
  BY <1>1, <1>2
<1>4. \A q \in rows : q.seq \in Nat
  BY DEF AuditInv, AuditTypeOK
<1>5. {q \in T : q.seq < p.seq} = {q \in rows : q.seq < i - 1}
  BY <1>1, <1>2, <1>4
<1>6. {q.seq : q \in {x \in rows : x.seq < i - 1}} = 0 .. ((i - 1) - 1)
  BY <1>1, PrefixIsDense
<1>7. {q.seq : q \in {x \in T : x.seq < p.seq}} = 0 .. ((i - 1) - 1)
  BY <1>5, <1>6
<1>8. (i - 1) + 1 \in 1 .. Cardinality(T) /\ InOrder(T)[(i - 1) + 1] = p
  BY <1>1, <1>3, <1>7, PlaceInPrefix
<1> QED BY <1>1, <1>2, <1>8

\* verify passes the whole history and counts what is not anchored in it.
LEMMA HistoryPasses == AuditInv /\ HistoryInv => VerifyAccepts
<1> SUFFICES ASSUME AuditInv, HistoryInv PROVE VerifyAccepts
  OBVIOUS
<1> DEFINE N == Cardinality(rows)
<1>1. IsFiniteSet(rows) /\ N \in Nat /\ \A r, q \in rows : r.seq = q.seq => r = q
  BY FS_CardinalityType DEF AuditInv, Dense, NoFork
<1>2. \A q \in rows : q.seq \in 0 .. (N - 1) /\ q.seq < N /\ q.seq \in Nat
  BY <1>1 DEF AuditInv, Dense
<1>3. PICK n \in 0 .. N : HashedFrom(n)
  BY DEF HistoryInv
<1>4. PICK v : /\ Verify(rows) = v[N] /\ v[0] = VerifyStart
               /\ \A i \in 1 .. N : v[i] = VerifyRow(v[i - 1], InOrder(rows)[i])
  BY <1>1, VerifyUnfolds
<1>5. \A i \in 1 .. N : InOrder(rows)[i] \in rows /\ InOrder(rows)[i].seq = i - 1
  BY <1>1, <1>2, RowsInPlace
<1>6. Passed(Verify(rows), n, N)
  BY <1>1, <1>3, <1>4, <1>5, PrefixPasses
<1>7. Cardinality(RowsOf(Unhashed)) = n
  <2>1. RowsOf(Unhashed) = {r \in rows : r.seq < n}
    BY <1>1, <1>2, <1>3 DEF RowsOf, HashedFrom, Row
  <2>2. {q.seq : q \in {x \in rows : x.seq < n}} = 0 .. (n - 1)
    BY <1>1, <1>3, PrefixIsDense
  <2> DEFINE U == {x \in rows : x.seq < n}
  <2>3. \A r \in U : r.seq \in Nat
    BY <1>2
  <2>4. \A r, q \in U : r.seq = q.seq => r = q
    BY <1>1
  <2>5. {r.seq : r \in U} = 0 .. (n - 1)
    BY <2>2
  <2> HIDE DEF U
  <2>6. Cardinality(U) = n
    BY <1>3, <2>3, <2>4, <2>5, CountBySeq
  <2> QED BY <2>1, <2>6 DEF U
<1> DEFINE old == \E q \in rows : q.op = OldCode
<1>8. \A q \in rows : q.op = OldCode => q.seq = n
  <2> SUFFICES ASSUME NEW q \in rows, q.op = OldCode PROVE q.seq = n
    OBVIOUS
  <2>1. ~(q.seq < n)
    BY AuditAssumption, <1>3 DEF HashedFrom, Row
  <2> QED BY <1>3, <2>1 DEF HashedFrom
<1>9. Cardinality(RowsOf(OldCode)) = IF old THEN 1 ELSE 0
  <2>1. CASE old
    <3>1. PICK q \in rows : q.op = OldCode
      BY <2>1
    <3>2. \A r \in rows : r.op = OldCode => r = q
      BY <1>1, <1>8, <3>1
    <3>3. RowsOf(OldCode) = {q}
      BY <3>1, <3>2 DEF RowsOf
    <3> QED BY <2>1, <3>3, FS_Singleton
  <2>2. CASE ~old
    <3>1. RowsOf(OldCode) = {}
      BY <2>2 DEF RowsOf
    <3> QED BY <2>2, <3>1, FS_EmptySet
  <2> QED BY <2>1, <2>2
<1>10. \E h, t : Verify(rows) = Loop(h, n, IF old THEN 1 ELSE 0, t, <<>>)
  <2>1. CASE N <= n
    <3>1. N = n
      BY <1>1, <1>3, <2>1
    <3>2. ~old
      BY <1>2, <1>8, <3>1
    <3>3. Verify(rows) = Loop(EmptyHash, N, 0, FALSE, <<>>)
      BY <1>6, <2>1, Zenon DEF Passed
    <3>4. Verify(rows) = Loop(EmptyHash, n, IF old THEN 1 ELSE 0, FALSE, <<>>)
      BY <3>1, <3>2, <3>3
    <3> QED BY <3>4
  <2>2. CASE N > n
    BY <1>6, <2>2 DEF Passed
  <2> QED BY <1>1, <1>3, <2>1, <2>2
<1> HIDE DEF old
<1>11. PICK h, t : Verify(rows) = Loop(h, n, IF old THEN 1 ELSE 0, t, <<>>)
  BY <1>10
<1> QED BY <1>7, <1>9, <1>11 DEF VerifyAccepts, Loop

\* Where the rows T a rewritten history has are those of the history, up to a row e that has a digest and
\* stands where r stood but is not linked or not hashed as r was, verify returns at e.
LEMMA RewritingBreaks ==
  ASSUME AuditInv, NEW n \in Nat, HashedFrom(n), NEW r \in rows, n <= r.seq,
         NEW T, IsFiniteSet(T), \A q \in T : q.seq \in Nat, \A q, s \in T : q.seq = s.seq => q = s,
         NEW e \in T, r.seq <= e.seq, \A q \in rows : q.seq < r.seq => q \in T,
         \A q \in T : q.seq < e.seq => q \in rows /\ q.seq < r.seq,
         e.rowHash # EmptyHash
  PROVE  /\ e.prevHash # r.prevHash => Verify(T).brokenAt = <<e.seq, "linkage">>
         /\ e.prevHash = r.prevHash /\ e.rowHash # ChainHash(Identity(e.op, e.seq), e.prevHash)
              /\ e.rowHash # ChainHash(LegacyIdentity(e.op, e.seq), e.prevHash)
              => Verify(T).brokenAt = <<e.seq, "rowHash">>
<1> DEFINE k == r.seq
           N == Cardinality(T)
<1>1. k \in Nat /\ N \in Nat /\ k <= Cardinality(rows) /\ \A q \in rows : q.seq \in Nat
  <2>1. Cardinality(rows) \in Nat /\ {q.seq : q \in rows} = 0 .. (Cardinality(rows) - 1)
    BY FS_CardinalityType DEF AuditInv, Dense
  <2>2. r.seq \in 0 .. (Cardinality(rows) - 1)
    BY <2>1
  <2>3. \A q \in rows : q.seq \in Nat
    BY DEF AuditInv, AuditTypeOK
  <2> QED BY <2>1, <2>2, <2>3, FS_CardinalityType
<1>2. \A i \in 1 .. k : i \in 1 .. N /\ InOrder(T)[i] \in rows /\ InOrder(T)[i].seq = i - 1
  <2>1. \A q \in T : q.seq < k => q \in rows
    BY <1>1
  <2>2. \A q \in rows : q.seq < k => q \in T
    OBVIOUS
  <2> HIDE DEF k, N
  <2> QED BY <1>1, <2>1, <2>2, RowsInPlace DEF N
<1>3. k + 1 \in 1 .. N /\ InOrder(T)[k + 1] = e
  <2>1. {q \in T : q.seq < e.seq} = {q \in rows : q.seq < k}
    BY <1>1
  <2>2. {q.seq : q \in {x \in rows : x.seq < k}} = 0 .. (k - 1)
    BY <1>1, PrefixIsDense
  <2>3. {q.seq : q \in {x \in T : x.seq < e.seq}} = 0 .. (k - 1)
    BY <2>1, <2>2
  <2> QED BY <1>1, <2>3, PlaceInPrefix
<1>4. PICK v : /\ Verify(T) = v[N] /\ v[0] = VerifyStart
               /\ \A i \in 1 .. N : v[i] = VerifyRow(v[i - 1], InOrder(T)[i])
  BY <1>1, VerifyUnfolds
<1>5. Passed(v[k], n, k)
  <2> HIDE DEF k, N
  <2>1. \A i \in 1 .. k : v[i] = VerifyRow(v[i - 1], InOrder(T)[i])
                          /\ InOrder(T)[i] \in rows /\ InOrder(T)[i].seq = i - 1
    BY <1>2, <1>4
  <2> QED BY <1>1, <1>4, <2>1, PrefixPasses
<1>6. PICK l, t : v[k] = Loop(r.prevHash, n, l, t, <<>>)
  <2>1. n <= k /\ r.seq = k
    OBVIOUS
  <2> HIDE DEF k
  <2> QED BY <1>1, <1>5, <2>1, ExpectsLink
<1> DEFINE x == v[k]
<1>7. x.prevHash = r.prevHash /\ x.brokenAt = <<>>
  BY <1>6 DEF Loop
<1>8. v[k + 1] = VerifyRow(x, e)
  BY <1>1, <1>3, <1>4
<1>9. ASSUME v[k + 1].brokenAt # <<>> PROVE Verify(T).brokenAt = v[k + 1].brokenAt
  <2> HIDE DEF k, N
  <2>1. \A i \in ((k + 1) + 1) .. N : v[i] = VerifyRow(v[i - 1], InOrder(T)[i])
    BY <1>1, <1>4
  <2>2. k + 1 \in 0 .. N
    BY <1>1, <1>3
  <2>3. v[N].brokenAt = v[k + 1].brokenAt
    <3> DEFINE m == k + 1
    <3>1. /\ m \in 0 .. N /\ v[m].brokenAt # <<>>
          /\ \A i \in (m + 1) .. N : v[i] = VerifyRow(v[i - 1], InOrder(T)[i])
      BY <1>9, <2>1, <2>2
    <3> HIDE DEF m
    <3>2. v[N].brokenAt = v[m].brokenAt
      BY <1>1, <3>1, StaysBroken
    <3> QED BY <3>2 DEF m
  <2> QED BY <1>4, <2>3
<1> HIDE DEF x, k, N
<1>10. ASSUME e.prevHash # r.prevHash PROVE Verify(T).brokenAt = <<e.seq, "linkage">>
  <2>1. VerifyRow(x, e) = Broken(x, e, "linkage")
    BY <1>7, <1>10 DEF VerifyRow
  <2>2. VerifyRow(x, e).brokenAt = <<e.seq, "linkage">>
    BY <1>6, <2>1 DEF Broken, Loop, x
  <2>3. <<e.seq, "linkage">> # <<>>
    OBVIOUS
  <2> QED BY <1>8, <1>9, <2>2, <2>3
<1>11. ASSUME e.prevHash = r.prevHash, e.rowHash # ChainHash(Identity(e.op, e.seq), e.prevHash),
              e.rowHash # ChainHash(LegacyIdentity(e.op, e.seq), e.prevHash)
       PROVE  Verify(T).brokenAt = <<e.seq, "rowHash">>
  <2>1. VerifyRow(x, e) = Broken(x, e, "rowHash")
    BY <1>7, <1>11 DEF VerifyRow, MatchesLegacySerialization
  <2>2. VerifyRow(x, e).brokenAt = <<e.seq, "rowHash">>
    BY <1>6, <2>1 DEF Broken, Loop, x
  <2>3. <<e.seq, "rowHash">> # <<>>
    OBVIOUS
  <2> QED BY <1>8, <1>9, <2>2, <2>3
<1> QED BY <1>10, <1>11

\* What is known of a row that has a digest.
LEMMA AnchoredRows ==
  ASSUME AuditInv, NEW n \in Nat, HashedFrom(n), NEW r \in Anchored
  PROVE  /\ r \in rows /\ n <= r.seq /\ r.seq \in Nat /\ r.rowHash # EmptyHash
         /\ r = Row(r.op, r.seq, r.prevHash, r.rowHash)
         /\ \/ r.op = OldCode /\ r.rowHash = ChainHash(LegacyIdentity(r.op, r.seq), r.prevHash)
            \/ r.op # OldCode /\ r.rowHash = ChainHash(Identity(r.op, r.seq), r.prevHash)
<1>1. r \in rows /\ r.rowHash # EmptyHash /\ r.seq \in Nat
  BY DEF Anchored, AuditInv, AuditTypeOK
<1>2. ~(r.seq < n)
  BY <1>1 DEF HashedFrom, Row
<1> QED BY <1>1, <1>2 DEF HashedFrom

\* A digest belongs to one operation at one place, and matches neither serialization of another.
LEMMA DigestsTell ==
  ASSUME NEW p, NEW i, NEW h, NEW q, NEW j, NEW g, q # p \/ j # i
  PROVE  /\ ChainHash(Identity(p, i), h) # ChainHash(Identity(q, j), g)
         /\ ChainHash(Identity(p, i), h) # ChainHash(LegacyIdentity(q, j), g)
         /\ ChainHash(LegacyIdentity(p, i), h) # ChainHash(Identity(q, j), g)
         /\ ChainHash(LegacyIdentity(p, i), h) # ChainHash(LegacyIdentity(q, j), g)
BY Digests, Identities

\* An edited row is reported itself.
LEMMA EditsBreak ==
  ASSUME AuditInv, NEW n \in Nat, HashedFrom(n), NEW r \in Anchored, NEW op, op # r.op
  PROVE  Verify(Edited(r, op)).brokenAt = <<r.seq, "rowHash">>
<1> DEFINE e == Row(op, r.seq, r.prevHash, r.rowHash)
           T == (rows \ {r}) \cup {e}
<1>1. /\ r \in rows /\ n <= r.seq /\ r.seq \in Nat /\ r.rowHash # EmptyHash
      /\ r = Row(r.op, r.seq, r.prevHash, r.rowHash)
      /\ \/ r.rowHash = ChainHash(LegacyIdentity(r.op, r.seq), r.prevHash)
         \/ r.rowHash = ChainHash(Identity(r.op, r.seq), r.prevHash)
  BY AnchoredRows
<1>2. Edited(r, op) = T
  <2>1. [r EXCEPT !.op = op] = e
    BY <1>1 DEF Row
  <2> QED BY <2>1 DEF Edited
<1>3. e.op = op /\ e.seq = r.seq /\ e.prevHash = r.prevHash /\ e.rowHash = r.rowHash
  BY DEF Row
<1>4. /\ IsFiniteSet(rows) /\ \A q \in rows : q.seq \in Nat
      /\ \A q, s \in rows : q.seq = s.seq => q = s
  BY DEF AuditInv, AuditTypeOK, Dense, NoFork
<1>5. IsFiniteSet(T)
  BY <1>4, FS_Subset, FS_AddElement
<1> HIDE DEF e
<1>6. /\ \A q \in T : q.seq \in Nat
      /\ \A q, s \in T : q.seq = s.seq => q = s
      /\ e \in T /\ r.seq <= e.seq
      /\ \A q \in rows : q.seq < r.seq => q \in T
      /\ \A q \in T : q.seq < e.seq => q \in rows /\ q.seq < r.seq
  BY <1>1, <1>3, <1>4
<1>7. /\ e.rowHash # ChainHash(Identity(e.op, e.seq), e.prevHash)
      /\ e.rowHash # ChainHash(LegacyIdentity(e.op, e.seq), e.prevHash)
  BY <1>1, <1>3, DigestsTell
<1> HIDE DEF T
<1>8. Verify(T).brokenAt = <<e.seq, "rowHash">>
  BY <1>1, <1>3, <1>5, <1>6, <1>7, RewritingBreaks
<1> QED BY <1>2, <1>3, <1>8

\* A deleted row is missed by its successor.
LEMMA DeletionsBreak ==
  ASSUME AuditInv, NEW n \in Nat, HashedFrom(n), NEW r \in Anchored, NEW q \in Anchored, q.seq = r.seq + 1
  PROVE  Verify(Deleted(r)).brokenAt = <<q.seq, "linkage">>
<1> DEFINE T == rows \ {r}
<1>1. /\ r \in rows /\ n <= r.seq /\ r.seq \in Nat /\ r.rowHash # EmptyHash
      /\ \/ r.rowHash = ChainHash(LegacyIdentity(r.op, r.seq), r.prevHash)
         \/ r.rowHash = ChainHash(Identity(r.op, r.seq), r.prevHash)
  BY AnchoredRows
<1>2. q \in rows /\ q.seq \in Nat /\ q.rowHash # EmptyHash
  BY AnchoredRows
<1>3. /\ IsFiniteSet(rows) /\ \A x \in rows : x.seq \in Nat
      /\ \A x, y \in rows : x.seq = y.seq => x = y
  BY DEF AuditInv, AuditTypeOK, Dense, NoFork
<1>4. q.prevHash = r.rowHash
  <2>1. q.seq # 0
    BY <1>1
  <2>2. PICK s \in rows : s.seq + 1 = q.seq /\ q.prevHash = s.rowHash
    BY <1>2, <2>1 DEF AuditInv, Linked
  <2>3. s.seq = r.seq
    BY <1>1, <1>3, <2>2
  <2> QED BY <1>1, <1>3, <2>2, <2>3
<1>5. r.rowHash # r.prevHash
  <2>1. CASE r.seq = 0
    BY <1>1, <2>1 DEF AuditInv, Linked
  <2>2. CASE r.seq # 0
    <3>1. PICK s \in rows : s.seq + 1 = r.seq /\ r.prevHash = s.rowHash
      BY <1>1, <2>2 DEF AuditInv, Linked
    <3>2. CASE s.rowHash = EmptyHash
      BY <1>1, <3>1, <3>2
    <3>3. CASE s \in Anchored
      <4>1. \/ s.rowHash = ChainHash(LegacyIdentity(s.op, s.seq), s.prevHash)
            \/ s.rowHash = ChainHash(Identity(s.op, s.seq), s.prevHash)
        BY <3>3, AnchoredRows
      <4>2. s.seq # r.seq
        BY <1>1, <1>3, <3>1
      <4>3. r.rowHash # s.rowHash
        BY <1>1, <4>1, <4>2, DigestsTell
      <4> QED BY <3>1, <4>3
    <3> QED BY <3>2, <3>3 DEF Anchored
  <2> QED BY <2>1, <2>2
<1>6. IsFiniteSet(T)
  BY <1>3, FS_Subset
<1>7. /\ \A x \in T : x.seq \in Nat
      /\ \A x, y \in T : x.seq = y.seq => x = y
      /\ q \in T /\ r.seq <= q.seq
      /\ \A x \in rows : x.seq < r.seq => x \in T
      /\ \A x \in T : x.seq < q.seq => x \in rows /\ x.seq < r.seq
  BY <1>1, <1>2, <1>3
<1> HIDE DEF T
<1>8. Verify(T).brokenAt = <<q.seq, "linkage">>
  BY <1>1, <1>2, <1>4, <1>5, <1>6, <1>7, RewritingBreaks
<1> QED BY <1>8 DEF Deleted, T

\* Two exchanged rows are noticed at the earlier place.
LEMMA ExchangesBreak ==
  ASSUME AuditInv, NEW n \in Nat, HashedFrom(n), NEW r \in Anchored, NEW q \in Anchored, r.seq < q.seq
  PROVE  Verify(Exchanged(r, q)).brokenAt[1] = r.seq
<1> DEFINE e == Row(q.op, r.seq, q.prevHash, q.rowHash)
           d == Row(r.op, q.seq, r.prevHash, r.rowHash)
           T == (rows \ {r, q}) \cup {d, e}
<1>1. r \in rows /\ n <= r.seq /\ r.seq \in Nat /\ r = Row(r.op, r.seq, r.prevHash, r.rowHash)
  BY AnchoredRows
<1>2. /\ q \in rows /\ q.seq \in Nat /\ q.rowHash # EmptyHash /\ q = Row(q.op, q.seq, q.prevHash, q.rowHash)
      /\ \/ q.rowHash = ChainHash(LegacyIdentity(q.op, q.seq), q.prevHash)
         \/ q.rowHash = ChainHash(Identity(q.op, q.seq), q.prevHash)
  BY AnchoredRows
<1>3. Exchanged(r, q) = T
  <2>1. [r EXCEPT !.seq = q.seq] = d
    BY <1>1 DEF Row
  <2>2. [q EXCEPT !.seq = r.seq] = e
    BY <1>2 DEF Row
  <2> QED BY <2>1, <2>2 DEF Exchanged
<1>4. /\ e.op = q.op /\ e.seq = r.seq /\ e.prevHash = q.prevHash /\ e.rowHash = q.rowHash
      /\ d.seq = q.seq
  BY DEF Row
<1>5. /\ IsFiniteSet(rows) /\ \A x \in rows : x.seq \in Nat
      /\ \A x, y \in rows : x.seq = y.seq => x = y
  BY DEF AuditInv, AuditTypeOK, Dense, NoFork
<1>6. IsFiniteSet(T)
  <2>1. IsFiniteSet(rows \ {r, q})
    BY <1>5, FS_Subset
  <2>2. IsFiniteSet((rows \ {r, q}) \cup {d}) /\ T = ((rows \ {r, q}) \cup {d}) \cup {e}
    BY <2>1, FS_AddElement
  <2> QED BY <2>2, FS_AddElement
<1> HIDE DEF e, d
<1>7. /\ \A x \in T : x.seq \in Nat
      /\ \A x, y \in T : x.seq = y.seq => x = y
      /\ e \in T /\ r.seq <= e.seq
      /\ \A x \in rows : x.seq < r.seq => x \in T
      /\ \A x \in T : x.seq < e.seq => x \in rows /\ x.seq < r.seq
  BY <1>1, <1>2, <1>4, <1>5
<1>8. /\ e.rowHash # ChainHash(Identity(e.op, e.seq), e.prevHash)
      /\ e.rowHash # ChainHash(LegacyIdentity(e.op, e.seq), e.prevHash)
  <2>1. q.seq # r.seq
    BY <1>1, <1>2
  <2> QED BY <1>2, <1>4, <2>1, DigestsTell
<1> HIDE DEF T
<1>9. \/ Verify(T).brokenAt = <<e.seq, "linkage">>
      \/ Verify(T).brokenAt = <<e.seq, "rowHash">>
  BY <1>1, <1>2, <1>4, <1>6, <1>7, <1>8, RewritingBreaks
<1> QED BY <1>3, <1>4, <1>9

\* HistoryInv holds in every reachable state.
THEOREM HistoryInvariant == AuditSpec => []HistoryInv
BY AuditInvariant, HistoryInitially, HistoryStep, PTL DEF AuditSpec

\* AuditService.verify, for every history the service can have written: it accepts the chain and reports
\* how much of it is not anchored.
THEOREM VerifyAcceptsHistory == AuditSpec => []VerifyAccepts
BY AuditInvariant, HistoryInvariant, HistoryPasses, PTL

\* AuditService.verify, for every edit, deletion and exchange of anchored rows in every history.
THEOREM VerifyLocatesTampering == AuditSpec => []TamperingIsLocated
<1>1. AuditInv /\ HistoryInv => TamperingIsLocated
  <2> SUFFICES ASSUME AuditInv, HistoryInv PROVE TamperingIsLocated
    OBVIOUS
  <2>1. PICK n \in 0 .. Cardinality(rows) : HashedFrom(n)
    BY DEF HistoryInv
  <2>2. n \in Nat
    BY <2>1, FS_CardinalityType DEF AuditInv, Dense
  <2>3. \A r \in Anchored, op \in Ops \cup {OldCode} :
          op # r.op => Verify(Edited(r, op)).brokenAt = <<r.seq, "rowHash">>
    BY <2>1, <2>2, EditsBreak
  <2>4. \A r, q \in Anchored : q.seq = r.seq + 1 => Verify(Deleted(r)).brokenAt = <<q.seq, "linkage">>
    BY <2>1, <2>2, DeletionsBreak
  <2>5. \A r, q \in Anchored : r.seq < q.seq => Verify(Exchanged(r, q)).brokenAt[1] = r.seq
    BY <2>1, <2>2, ExchangesBreak
  <2> QED BY <2>3, <2>4, <2>5 DEF TamperingIsLocated
<1> QED BY <1>1, AuditInvariant, HistoryInvariant, PTL
=============================================================================
