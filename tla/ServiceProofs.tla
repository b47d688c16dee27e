---------------------------- MODULE ServiceProofs ----------------------------
(***************************************************************************)
(* Three services, each for every instance of its constants.               *)
(*                                                                         *)
(* Crash alerts: AlertInv is inductive, so what a row says of its alert is *)
(* true, and a new generation begins only by reopening a resolved report.  *)
(*                                                                         *)
(* The provider credential: ProviderInv is inductive, so a revision never  *)
(* stands for two keys, the supervisor that recorded itself last stays on  *)
(* record, and what is reported as active is what the runtime was started  *)
(* with.                                                                   *)
(*                                                                         *)
(* Administrator accounts: AccountInv counts what was refused together     *)
(* with the logins that wait for their verdict, which no step increases    *)
(* once the limit is reached.                                              *)
(***************************************************************************)
EXTENDS CrashAlerts, ProviderKey, Accounts, FiniteSetTheorems, TLAPS

-----------------------------------------------------------------------------
(***************************************************************************)
(* Crash alerts                                                            *)
(***************************************************************************)

\* The first row has not been stored: nothing is claimed, delivered or given up.
LEMMA AlertInit == CrashInit => AlertInv
BY AlertAssumption DEF CrashInit, AlertInv, CrashTypeOK, SentIsDelivered, FailedIsExhausted,
   ReportStatus, AlertState, WorkerSteps

\* A submission creates rows with a fresh id, and a reopening takes the row away from its worker.
LEMMA SubmitterKeepsInv ==
  ASSUME AlertInv, NEW s \in Submitters,
         \/ \E r \in Rows : SubmitCreates(s, r) \/ SubmitRepeats(s, r)
         \/ Reopen(s) \/ ReopenFails(s)
  PROVE  AlertInv'
<1> USE AlertAssumption DEF AlertInv, CrashTypeOK, SentIsDelivered, FailedIsExhausted, AlertState,
      ReportStatus, WorkerSteps, rowVars, workerVars, submitVars, adminVars
<1>1. ASSUME NEW r \in Rows, SubmitCreates(s, r) PROVE AlertInv'
  BY <1>1 DEF SubmitCreates
<1>2. ASSUME NEW r \in Rows, SubmitRepeats(s, r) PROVE AlertInv'
  BY <1>2 DEF SubmitRepeats
<1>3. CASE Reopen(s)
  <2>1. CASE sRow[s] \in live /\ status[sRow[s]] = "RESOLVED"
    <3>1. CrashTypeOK'
      BY <1>3, <2>1 DEF Reopen, SubmitReturns
    <3>2. SentIsDelivered' /\ FailedIsExhausted'
      BY <1>3, <2>1 DEF Reopen, SubmitReturns
    <3> QED BY <1>3, <2>1, <3>1, <3>2 DEF Reopen, SubmitReturns
  <2>2. CASE ~(sRow[s] \in live /\ status[sRow[s]] = "RESOLVED")
    BY <1>3, <2>2 DEF Reopen, SubmitReturns
  <2> QED BY <2>1, <2>2
<1>4. CASE ReopenFails(s)
  BY <1>4 DEF ReopenFails, SubmitReturns, Fault
<1> QED BY <1>1, <1>2, <1>3, <1>4

\* Time and retention change none of the columns a delivery compares.
LEMMA TimeKeepsInv ==
  ASSUME AlertInv,
         Retention \/ \E r \in Rows : BecomesDue(r) \/ BecomesStale(r) \/ BecomesOld(r)
  PROVE  AlertInv'
BY DEF AlertInv, CrashTypeOK, SentIsDelivered, FailedIsExhausted, Retention, BecomesDue,
   BecomesStale, BecomesOld, workerVars, submitVars, adminVars

\* A claim is given up only when the row has used its last attempt.
LEMMA VerdictIsFinal ==
  ASSUME AlertInv, NEW w \in Workers, wpc[w] = "failed", StillClaimed(w)
  PROVE  /\ Verdict(w) \in {"FAILED", "PENDING"}
         /\ Verdict(w) = "FAILED" => attempts[wRow[w]] = MaxAttempts
<1>1. wRow[w] \in Rows /\ wAttempts[w] = attempts[wRow[w]]
  BY DEF AlertInv, CrashTypeOK, StillClaimed
<1>2. attempts[wRow[w]] \in 0 .. MaxAttempts
  BY <1>1 DEF AlertInv, CrashTypeOK
<1>3. ASSUME NEW n \in 0 .. MaxAttempts, n >= MaxAttempts PROVE n = MaxAttempts
  BY <1>3, AlertAssumption
<1> QED BY <1>1, <1>2, <1>3 DEF Verdict

\* A claim counts one attempt of a row that has one left.
LEMMA ClaimCounts ==
  ASSUME AlertInv, NEW w \in Workers, Claim(w), Ready(wRow[w])
  PROVE  attempts' \in [Rows -> 0 .. MaxAttempts]
<1>1. wRow[w] \in Rows /\ attempts \in [Rows -> 0 .. MaxAttempts]
  BY DEF AlertInv, CrashTypeOK, Claim
<1>2. attempts[wRow[w]] < MaxAttempts /\ attempts' = [attempts EXCEPT ![wRow[w]] = @ + 1]
  BY DEF Claim, Ready
<1>3. ASSUME NEW n \in 0 .. MaxAttempts, n < MaxAttempts PROVE n + 1 \in 0 .. MaxAttempts
  BY <1>3, AlertAssumption
<1>4. attempts[wRow[w]] + 1 \in 0 .. MaxAttempts
  BY <1>1, <1>2, <1>3
<1> QED BY <1>1, <1>2, <1>4

\* A worker learns generation and attempts from the row it has claimed, and settles only that claim.
LEMMA WorkerKeepsInv ==
  ASSUME AlertInv, NEW w \in Workers, WorkerProceeds(w) \/ WorkerStops(w)
  PROVE  AlertInv'
<1> USE AlertAssumption DEF AlertInv, CrashTypeOK, SentIsDelivered, FailedIsExhausted, AlertState,
      WorkerSteps, WorkerAt, WorkerDone, rowVars, submitVars, adminVars
<1>1. ASSUME NEW r \in Rows, FindCandidate(w, r) PROVE AlertInv'
  BY <1>1 DEF FindCandidate
<1>2. CASE Claim(w)
  <2>1. CASE Ready(wRow[w])
    <3>1. CrashTypeOK'
      <4>1. attempts' \in [Rows -> 0 .. MaxAttempts]
        BY <1>2, <2>1, ClaimCounts
      <4>2. wRow[w] \in Rows /\ alertState' = [alertState EXCEPT ![wRow[w]] = "SENDING"]
            /\ claimedBy' = [claimedBy EXCEPT ![wRow[w]] = w] /\ wpc' = [wpc EXCEPT ![w] = "read"]
            /\ stale' \subseteq stale
            /\ UNCHANGED <<live, status, generation, due, old, delivered, faults, wRow, wGen, wAttempts,
                           submitVars, adminVars>>
        BY <1>2, <2>1 DEF Claim
      <4> QED BY <4>1, <4>2
    <3>2. SentIsDelivered' /\ FailedIsExhausted'
      BY <1>2, <2>1 DEF Claim, Ready
    <3> QED BY <1>2, <2>1, <3>1, <3>2 DEF Claim, Ready
  <2>2. CASE ~Ready(wRow[w])
    BY <1>2, <2>2 DEF Claim
  <2> QED BY <2>1, <2>2
<1>3. CASE ReadReport(w)
  BY <1>3 DEF ReadReport
<1>4. CASE Send(w)
  BY <1>4 DEF Send
<1>5. CASE SendFails(w)
  BY <1>5 DEF SendFails, Fault
<1>6. CASE SettleSent(w)
  BY <1>6 DEF SettleSent, Settle, StillClaimed
<1>7. CASE SettleSentFails(w)
  BY <1>7 DEF SettleSentFails, Fault
<1>8. CASE SettleFailed(w)
  BY <1>8, VerdictIsFinal DEF SettleFailed, Settle, StillClaimed
<1>9. CASE WorkerStops(w)
  BY <1>9 DEF WorkerStops, Fault
<1> QED BY <1>1, <1>2, <1>3, <1>4, <1>5, <1>6, <1>7, <1>8, <1>9 DEF WorkerProceeds

\* A review leaves the alert alone, and a manual retry takes the row away from its worker.
LEMMA AdminKeepsInv ==
  ASSUME AlertInv,
         \/ \E r \in Rows, newStatus \in ReportStatus : Review(r, newStatus)
         \/ \E a \in Admins : RetryWrite(a) \/ \E r \in Rows : RetryRead(a, r)
  PROVE  AlertInv'
<1> USE AlertAssumption DEF AlertInv, CrashTypeOK, SentIsDelivered, FailedIsExhausted, AlertState,
      rowVars, workerVars, submitVars, adminVars
<1>1. ASSUME NEW r \in Rows, NEW newStatus \in ReportStatus, Review(r, newStatus) PROVE AlertInv'
  BY <1>1 DEF Review
<1>2. ASSUME NEW a \in Admins, RetryWrite(a) PROVE AlertInv'
  BY <1>2 DEF RetryWrite
<1>3. ASSUME NEW a \in Admins, NEW r \in Rows, RetryRead(a, r) PROVE AlertInv'
  BY <1>3 DEF RetryRead
<1> QED BY <1>1, <1>2, <1>3

\* AlertInv holds in every reachable state of the outbox.
THEOREM AlertInvariant == CrashSpec => []AlertInv
<1>1. AlertInv /\ [CrashNext]_alertVars => AlertInv'
  <2> SUFFICES ASSUME AlertInv, [CrashNext]_alertVars PROVE AlertInv'
    OBVIOUS
  <2>1. CASE UNCHANGED alertVars
    BY <2>1 DEF AlertInv, CrashTypeOK, SentIsDelivered, FailedIsExhausted, alertVars, rowVars,
       workerVars, submitVars, adminVars
  <2> QED BY <2>1, SubmitterKeepsInv, TimeKeepsInv, WorkerKeepsInv, AdminKeepsInv DEF CrashNext
<1> QED BY AlertInit, <1>1, PTL DEF CrashSpec

\* processOne: a row says SENT only if Feishu has the alert of its current generation.
THEOREM SentAlertsAreDelivered == CrashSpec => []SentIsDelivered
BY AlertInvariant, PTL DEF AlertInv

\* processOne: an alert is FAILED only after MAX_ATTEMPTS attempts of its own generation.
THEOREM FailedAlertsAreExhausted == CrashSpec => []FailedIsExhausted
BY AlertInvariant, PTL DEF AlertInv

\* submit: a new alert generation begins only by reopening a resolved report.
THEOREM GenerationsAreReopenings == CrashSpec => ReopensOncePerResolution
<1> DEFINE OneStep ==
      \A r \in live \cap live' :
        generation'[r] # generation[r] =>
          /\ status[r] = "RESOLVED" /\ status'[r] = "open"
          /\ generation'[r] = generation[r] + 1
          /\ alertState'[r] = "PENDING" /\ attempts'[r] = 0
<1>1. AlertInv /\ [CrashNext]_alertVars => [OneStep]_alertVars
  <2> SUFFICES ASSUME AlertInv, CrashNext PROVE OneStep
    OBVIOUS
  <2> USE DEF AlertInv, CrashTypeOK
  <2>1. ASSUME NEW s \in Submitters, NEW r \in Rows, SubmitCreates(s, r) PROVE OneStep
    BY <2>1 DEF SubmitCreates
  <2>2. ASSUME NEW s \in Submitters, Reopen(s) PROVE OneStep
    BY <2>2 DEF Reopen
  <2>3. CASE UNCHANGED generation
    BY <2>3
  <2>4. ASSUME NEW w \in Workers, WorkerProceeds(w) \/ WorkerStops(w) PROVE UNCHANGED generation
    BY <2>4 DEF WorkerProceeds, WorkerStops, FindCandidate, Claim, ReadReport, Send, SendFails,
       SettleSent, SettleSentFails, SettleFailed, Settle, rowVars
  <2> QED BY <2>1, <2>2, <2>3, <2>4 DEF CrashNext, SubmitRepeats, ReopenFails, Retention,
         BecomesDue, BecomesStale, BecomesOld, Review, RetryWrite, RetryRead, rowVars
<1> QED BY AlertInvariant, <1>1, PTL DEF CrashSpec, ReopensOncePerResolution
-----------------------------------------------------------------------------
(***************************************************************************)
(* The provider credential                                                 *)
(***************************************************************************)

\* Nothing is stored and nothing runs.
LEMMA ProviderInitially == ProviderInit => ProviderInv
<1> SUFFICES ASSUME ProviderInit PROVE ProviderInv
  OBVIOUS
<1>1. ProviderTypeOK
  BY ProviderAssumption DEF ProviderInit, ProviderTypeOK, NoPut, NoProbe
<1>2. KeyHistory
  BY DEF ProviderInit, KeyHistory, NoPut
<1>3. RuntimesKnowTheirKey
  BY DEF ProviderInit, RuntimesKnowTheirKey, NoProbe
<1>4. ActivationIsTruthful
  BY DEF ProviderInit, ActivationIsTruthful, NoProbe
<1> QED BY <1>1, <1>2, <1>3, <1>4 DEF ProviderInv

\* As long as no revision changes its key, runtimes and status requests are not concerned.
LEMMA RuntimesUndisturbed ==
  ASSUME ProviderInv, UNCHANGED <<runVars, probe>>,
         \A v \in DOMAIN keyAt : v \in DOMAIN keyAt' /\ keyAt'[v] = keyAt[v]
  PROVE  RuntimesKnowTheirKey' /\ ActivationIsTruthful'
<1> USE DEF ProviderInv, runVars
<1>1. RuntimesKnowTheirKey'
  BY DEF RuntimesKnowTheirKey, Recorded, ProviderTypeOK
<1>2. ActivationIsTruthful'
  <2>1. last # None /\ RunAt(last, "waiting") => activation = [runtime |-> last, version |-> run[last].version]
    BY DEF ActivationIsTruthful
  <2>2. ASSUME probe.at = "answer", Matches
        PROVE  run[probe.row.runtime].key = keyAt[probe.version] /\ probe.version \in DOMAIN keyAt
    BY <2>2 DEF ActivationIsTruthful, Matches, RuntimesKnowTheirKey, Recorded, ProviderTypeOK, Activation
  <2> QED BY <2>1, <2>2 DEF ActivationIsTruthful, Matches, RunAt
<1> QED BY <1>1, <1>2

\* putWithSystemAudit begins: it finds the row, or finds none.
LEMMA FindingKeepsInv ==
  ASSUME ProviderInv, NEW c \in Puts, NEW k \in Keys, PutFinds(c, k),
         UNCHANGED <<envKey, boot, runVars, probe>>
  PROVE  ProviderInv'
<1>1. ProviderTypeOK'
  <2>1. put' \in [Puts -> [at : {"idle", "found"}, key : Keys \cup {None}, found : BOOLEAN]]
    BY DEF ProviderInv, ProviderTypeOK, PutFinds
  <2> QED BY <2>1 DEF ProviderInv, ProviderTypeOK, PutFinds, runVars
<1>2. KeyHistory'
  BY ProviderAssumption DEF ProviderInv, ProviderTypeOK, KeyHistory, PutFinds
<1>3. RuntimesKnowTheirKey' /\ ActivationIsTruthful'
  BY RuntimesUndisturbed DEF PutFinds
<1> QED BY <1>1, <1>2, <1>3 DEF ProviderInv

\* The row is created or rotated: the revision written is a new one.
LEMMA WritingKeepsInv ==
  ASSUME ProviderInv, NEW c \in Puts, PutWrites(c), UNCHANGED <<envKey, runVars, probe>>,
         boot' = boot \/ boot' = "scrub"
  PROVE  ProviderInv'
<1>0. /\ put[c].key \in Keys
      /\ put' \in [Puts -> [at : {"idle", "found"}, key : Keys \cup {None}, found : BOOLEAN]]
  BY DEF ProviderInv, ProviderTypeOK, KeyHistory, PutWrites, NoPut
<1>1. /\ secret' \in StoredKey /\ secret'.key = put[c].key
      /\ DOMAIN keyAt = 1 .. (secret'.version - 1)
  <2>1. CASE put[c].found /\ secret.version < MaxVersion /\ secret' = Rotated(put[c].key)
    BY <1>0, <2>1, ProviderAssumption DEF ProviderInv, ProviderTypeOK, KeyHistory, PutWrites, Rotated, StoredKey
  <2>2. CASE ~put[c].found /\ secret = None /\ secret' = [key |-> put[c].key, version |-> 1]
    BY <1>0, <2>2, ProviderAssumption DEF ProviderInv, KeyHistory, StoredKey
  <2> QED BY <2>1, <2>2 DEF PutWrites
<1>2. /\ DOMAIN keyAt' = 1 .. secret'.version
      /\ keyAt'[secret'.version] = secret'.key
      /\ \A v \in DOMAIN keyAt : v \in DOMAIN keyAt' /\ keyAt'[v] = keyAt[v]
  <2>1. secret'.version \in Nat \ {0} /\ secret'.version \notin DOMAIN keyAt
    BY <1>1 DEF StoredKey
  <2>2. DOMAIN keyAt \cup {secret'.version} = 1 .. secret'.version
    BY <1>1, <2>1
  <2> QED BY <1>1, <2>1, <2>2 DEF PutWrites
<1>3. ProviderTypeOK'
  BY <1>0, <1>1 DEF ProviderInv, ProviderTypeOK, runVars
<1>4. KeyHistory'
  <2>1. secret' # None
    BY <1>1, ProviderAssumption
  <2> QED BY <1>2, <2>1 DEF ProviderInv, ProviderTypeOK, KeyHistory, PutWrites, NoPut
<1>5. RuntimesKnowTheirKey' /\ ActivationIsTruthful'
  BY <1>2, RuntimesUndisturbed
<1> QED BY <1>3, <1>4, <1>5 DEF ProviderInv

\* The transaction is rolled back.
LEMMA FailingKeepsInv ==
  ASSUME ProviderInv, NEW c \in Puts, PutFails(c), UNCHANGED <<envKey, runVars, probe>>,
         boot' = boot \/ boot' = "done"
  PROVE  ProviderInv'
<1>1. ProviderTypeOK'
  BY DEF ProviderInv, ProviderTypeOK, PutFails, NoPut, runVars
<1>2. KeyHistory'
  BY DEF ProviderInv, ProviderTypeOK, KeyHistory, PutFails, NoPut
<1>3. RuntimesKnowTheirKey' /\ ActivationIsTruthful'
  BY RuntimesUndisturbed DEF PutFails
<1> QED BY <1>1, <1>2, <1>3 DEF ProviderInv

\* The deployment imports only a key that .env holds.
LEMMA BootKeepsInv ==
  ASSUME ProviderInv, BootCompares \/ BootImports \/ Scrubs
  PROVE  ProviderInv'
<1>1. CASE BootCompares \/ Scrubs
  <2>1. ProviderTypeOK'
    BY <1>1 DEF ProviderInv, ProviderTypeOK, BootCompares, Scrubs, BootGoto, storeVars, runVars
  <2>2. KeyHistory'
    BY <1>1 DEF ProviderInv, KeyHistory, BootCompares, Scrubs, BootGoto, storeVars
  <2>3. RuntimesKnowTheirKey' /\ ActivationIsTruthful'
    BY <1>1, RuntimesUndisturbed DEF BootCompares, Scrubs, storeVars
  <2> QED BY <2>1, <2>2, <2>3 DEF ProviderInv
<1>2. CASE BootImports
  <2>1. Bootstrap \in Puts
    BY DEF Puts
  <2>2. boot = "import" => envKey \in Keys
    BY DEF ProviderInv, ProviderTypeOK, KeyHistory
  <2> QED BY <1>2, <2>1, <2>2, FindingKeepsInv, WritingKeepsInv, FailingKeepsInv DEF BootImports, BootGoto
<1> QED BY <1>1, <1>2

\* A supervisor loads key and revision from one row, records itself, and removes no other's record.
LEMMA SupervisorKeepsInv ==
  ASSUME ProviderInv, NEW r \in Runtimes,
         \/ LoadsKey(r) \/ Spawns(r) \/ Activates(r) \/ StartFails(r) \/ ChildExits(r)
         \/ Deactivates(r) \/ SupervisorDies(r)
  PROVE  ProviderInv'
<1> USE DEF ProviderInv, RunAt, RunGoto
<1>0. UNCHANGED <<storeVars, deployVars, probe>>
  BY DEF LoadsKey, Spawns, Activates, StartFails, ChildExits, Deactivates, SupervisorDies
<1>1. KeyHistory'
  BY <1>0 DEF KeyHistory, storeVars, deployVars
<1>2. CASE LoadsKey(r)
  <2>1. secret \in StoredKey /\ secret.version \in DOMAIN keyAt /\ keyAt[secret.version] = secret.key
    BY <1>2 DEF LoadsKey, ProviderTypeOK, KeyHistory, StoredKey
  <2>2. ProviderTypeOK'
    BY <1>0, <1>2, <2>1 DEF LoadsKey, ProviderTypeOK, StoredKey, storeVars, deployVars
  <2>3. RuntimesKnowTheirKey'
    BY <1>0, <1>2, <2>1 DEF LoadsKey, ProviderTypeOK, RuntimesKnowTheirKey, Recorded, storeVars, Activation
  <2>4. \A q \in Runtimes : run[q].at # "idle" => run'[q] = run[q]
    BY <1>2 DEF LoadsKey, ProviderTypeOK
  <2>5. ActivationIsTruthful'
    BY <1>0, <1>2, <2>4 DEF LoadsKey, ProviderTypeOK, ActivationIsTruthful, Matches, RuntimesKnowTheirKey,
       Recorded, storeVars, Activation
  <2> QED BY <1>1, <2>2, <2>3, <2>5
<1>3. CASE Spawns(r) \/ StartFails(r) \/ ChildExits(r) \/ SupervisorDies(r)
  <2>0. /\ UNCHANGED <<activation, last>> /\ child' \subseteq Runtimes
        /\ run' \in [Runtimes -> [at : {"idle", "loaded", "spawned", "waiting", "ended"},
                           key : Keys \cup {None}, version : 0 .. MaxVersion]]
    BY <1>3 DEF Spawns, StartFails, ChildExits, SupervisorDies, ProviderTypeOK
  <2>1. \A q \in Runtimes : /\ run'[q].key = run[q].key /\ run'[q].version = run[q].version
                            /\ (run'[q].at = "idle") = (run[q].at = "idle")
                            /\ run'[q].at = "waiting" => run[q].at = "waiting"
    BY <1>3 DEF Spawns, StartFails, ChildExits, SupervisorDies, ProviderTypeOK
  <2>2. ProviderTypeOK'
    BY <1>0, <2>0 DEF ProviderTypeOK, storeVars, deployVars
  <2>3. RuntimesKnowTheirKey'
    BY <1>0, <2>0, <2>1 DEF ProviderTypeOK, RuntimesKnowTheirKey, Recorded, storeVars, Activation
  <2>4. ActivationIsTruthful'
    BY <1>0, <2>0, <2>1 DEF ProviderTypeOK, ActivationIsTruthful, Matches, storeVars, Activation
  <2> QED BY <1>1, <2>2, <2>3, <2>4
<1>4. CASE Activates(r) \/ Deactivates(r)
  <2>1. /\ \A q \in Runtimes : /\ run'[q].key = run[q].key /\ run'[q].version = run[q].version
                               /\ (run'[q].at = "idle") = (run[q].at = "idle")
        /\ \A q \in Runtimes \ {r} : run'[q].at = run[q].at
        /\ child' \subseteq Runtimes
        /\ run' \in [Runtimes -> [at : {"idle", "loaded", "spawned", "waiting", "ended"},
                           key : Keys \cup {None}, version : 0 .. MaxVersion]]
    BY <1>4 DEF Activates, Deactivates, ProviderTypeOK
  <2>2. run[r].at # "idle" /\ run[r].version \in 1 .. MaxVersion
    <3>1. run[r].at # "idle"
      BY <1>4 DEF Activates, Deactivates
    <3>2. run[r].version \in DOMAIN keyAt /\ run[r].version \in 0 .. MaxVersion
      BY <3>1 DEF RuntimesKnowTheirKey, ProviderTypeOK
    <3> QED BY <3>1, <3>2 DEF KeyHistory, ProviderTypeOK, StoredKey
  <2>3. CASE Activates(r)
    <3>1. run'[r].at = "waiting" /\ last' = r /\ activation' = [runtime |-> r, version |-> run[r].version]
      BY <2>3 DEF Activates, ProviderTypeOK
    <3>2. ProviderTypeOK'
      BY <1>0, <2>1, <2>2, <3>1 DEF ProviderTypeOK, storeVars, deployVars, Activation
    <3>3. RuntimesKnowTheirKey'
      BY <1>0, <2>1, <2>2, <3>1 DEF ProviderTypeOK, RuntimesKnowTheirKey, Recorded, storeVars, Activation
    <3>4. ActivationIsTruthful'
      BY <1>0, <2>1, <3>1 DEF ProviderTypeOK, ActivationIsTruthful, Matches, storeVars, Activation
    <3> QED BY <1>1, <3>2, <3>3, <3>4
  <2>4. CASE Deactivates(r)
    <3>1. /\ run'[r].at = "ended" /\ last' = last
          /\ activation' = activation \/ activation' = None
          /\ activation # None /\ activation.runtime # r => activation' = activation
      BY <2>4 DEF Deactivates, Deactivated, ProviderTypeOK
    <3>2. ProviderTypeOK'
      BY <1>0, <2>1, <3>1 DEF ProviderTypeOK, storeVars, deployVars
    <3>3. RuntimesKnowTheirKey'
      BY <1>0, <2>1, <3>1 DEF ProviderTypeOK, RuntimesKnowTheirKey, Recorded, storeVars, Activation
    <3>4. ASSUME last' # None, run'[last'].at = "waiting"
          PROVE  activation' = [runtime |-> last', version |-> run'[last'].version]
      <4>1. last # r /\ last \in Runtimes /\ run[last].at = "waiting"
        BY <2>1, <3>1, <3>4 DEF ProviderTypeOK
      <4>2. activation = [runtime |-> last, version |-> run[last].version]
        BY <3>1, <3>4, <4>1 DEF ActivationIsTruthful
      <4>3. activation' = activation
        <5>1. activation.runtime # r
          BY <4>1, <4>2
        <5> QED BY <3>1, <5>1
      <4> QED BY <2>1, <3>1, <4>1, <4>2, <4>3
    <3>5. ActivationIsTruthful'
      BY <1>0, <2>1, <3>4 DEF ProviderTypeOK, ActivationIsTruthful, Matches, storeVars, Activation
    <3> QED BY <1>1, <3>2, <3>3, <3>5
  <2> QED BY <1>4, <2>3, <2>4
<1> QED BY <1>2, <1>3, <1>4

\* deepSeekStatus reads two rows side by side and changes neither.
LEMMA StatusKeepsInv ==
  ASSUME ProviderInv, StatusDescribes \/ StatusReadsActivation \/ StatusAnswers
  PROVE  ProviderInv'
<1> USE DEF ProviderInv
<1>0. UNCHANGED <<storeVars, deployVars, runVars>>
  BY DEF StatusDescribes, StatusReadsActivation, StatusAnswers
<1>1. KeyHistory'
  BY <1>0 DEF KeyHistory, storeVars, deployVars
<1> DEFINE Probe == [at : {"idle", "describe", "activation", "answer"},
                     version : 1 .. MaxVersion \cup {None}, row : Activation \cup {None}]
<1>2. probe' \in Probe /\ probe'.row \in {probe.row, activation, None}
  <2>1. probe \in Probe /\ activation \in Activation \cup {None}
    BY DEF ProviderTypeOK
  <2>2. CASE StatusDescribes
    <3>1. secret # None => secret.version \in 1 .. MaxVersion
      BY DEF ProviderTypeOK, StoredKey
    <3> QED BY <2>1, <2>2, <3>1 DEF StatusDescribes
  <2>3. CASE StatusReadsActivation
    BY <2>1, <2>3 DEF StatusReadsActivation
  <2>4. CASE StatusAnswers
    BY <2>4 DEF StatusAnswers, NoProbe
  <2> QED BY <2>2, <2>3, <2>4
<1>3. ProviderTypeOK'
  BY <1>0, <1>2 DEF ProviderTypeOK, storeVars, deployVars, runVars
<1>4. probe'.row # None => Recorded(probe'.row)
  BY <1>2 DEF RuntimesKnowTheirKey
<1>5. RuntimesKnowTheirKey'
  BY <1>0, <1>4 DEF RuntimesKnowTheirKey, Recorded, storeVars, runVars
<1>6. ActivationIsTruthful'
  BY <1>0, <1>2, <1>5 DEF ActivationIsTruthful, Matches, RuntimesKnowTheirKey, Recorded, RunAt, storeVars,
     runVars, Activation
<1> QED BY <1>1, <1>3, <1>5, <1>6

\* ProviderInv holds in every reachable state.
THEOREM ProviderInvariant == ProviderSpec => []ProviderInv
<1>1. ProviderInv /\ [ProviderNext]_providerVars => ProviderInv'
  <2> SUFFICES ASSUME ProviderInv, [ProviderNext]_providerVars PROVE ProviderInv'
    OBVIOUS
  <2>1. ASSUME NEW w \in Writers, DeepSeekStored(w) PROVE ProviderInv'
    BY <2>1, WritingKeepsInv, FailingKeepsInv DEF DeepSeekStored, Puts, deployVars
  <2>2. ASSUME NEW w \in Writers, NEW k \in Keys, putDeepSeek(w, k) PROVE ProviderInv'
    BY <2>2, FindingKeepsInv DEF putDeepSeek, Puts, deployVars
  <2>3. CASE UNCHANGED providerVars
    <3>1. ProviderTypeOK' /\ KeyHistory'
      BY <2>3 DEF providerVars, storeVars, deployVars, runVars, ProviderInv, ProviderTypeOK, KeyHistory
    <3> QED BY <2>3, <3>1, RuntimesUndisturbed DEF providerVars, storeVars, ProviderInv
  <2> QED BY <2>1, <2>2, <2>3, BootKeepsInv, SupervisorKeepsInv, StatusKeepsInv DEF ProviderNext
<1> QED BY ProviderInitially, <1>1, PTL DEF ProviderSpec

\* runDeepSeek, getVersioned, deepSeekStatus: the last supervisor to record itself stays on record
\* while it waits for its child, and a version reported as active is the one the runtime was
\* started with.
THEOREM ActivationStaysTruthful == ProviderSpec => []ActivationIsTruthful
BY ProviderInvariant, PTL DEF ProviderInv
-----------------------------------------------------------------------------
(***************************************************************************)
(* Administrator accounts                                                  *)
(***************************************************************************)

\* What a request holds, by its position.
LEMMA CallKinds ==
  ASSUME NEW q \in ManagementCall
  PROVE  /\ q.at = "create" => q.user \in Users /\ q.row \in AccountRow
         /\ q.at = "update" => /\ q.user \in Users /\ q.patch \in Patches
                               /\ q.role \in AdminRole /\ q.org \in Tenants \cup {None}
         /\ q.at = "totp" => q.user \in Users /\ q.secret \in Secrets \cup {None}
<1> USE DEF ManagementCall, NoCallYet
<1>1. q.at = "create" => q.user \in Users /\ q.row \in AccountRow
  OBVIOUS
<1>2. q.at = "update" => /\ q.user \in Users /\ q.patch \in Patches
                         /\ q.role \in AdminRole /\ q.org \in Tenants \cup {None}
  OBVIOUS
<1>3. q.at = "totp" => q.user \in Users /\ q.secret \in Secrets \cup {None}
  OBVIOUS
<1> QED BY <1>1, <1>2, <1>3

\* What is created is a row.
LEMMA NewAccountIsRow ==
  ASSUME NEW r \in AdminRole, NEW org \in Tenants \cup {None}, NEW pw \in Passwords
  PROVE  NewAccount(r, org, pw) \in AccountRow
BY DEF NewAccount, AccountRow

\* The role the first account has.
LEMMA SuperadminIsRole == "SUPERADMIN" \in AdminRole
BY DEF AdminRole, RANK

\* Nobody has been refused and nobody waits.
LEMMA AccountInitially == AccountInit => AccountInv
<1> SUFFICES ASSUME AccountInit PROVE AccountInv
  OBVIOUS
<1>1. AccountTypeOK
  <2>1. account \in [Users -> AccountRow \cup {None}]
    BY NewAccountIsRow, SuperadminIsRole DEF AccountInit
  <2>2. NoLogin \in LoginCall /\ NoCallYet \in ManagementCall
    BY DEF NoLogin, LoginCall, ManagementCall
  <2>3. NoFailures \in [count : Nat, open : BOOLEAN]
    BY DEF NoFailures
  <2> QED BY <2>1, <2>2, <2>3 DEF AccountInit, AccountTypeOK
<1>2. ChangesFindTheirAccount
  BY DEF AccountInit, ChangesFindTheirAccount, NoCallYet
<1>3. \A g \in Logins : login[g].at = "idle"
  BY DEF AccountInit, NoLogin
<1>4. \A u \in Users : refused[u] = 0 /\ ~failures[u].open
  BY DEF AccountInit, NoFailures
<1>5. ASSUME NEW u \in Users
      PROVE  refused[u] + Cardinality(Waiting(u)) <= FailLimit + Cardinality(Logins) - 1
  <2>1. Cardinality(Waiting(u)) = 0
    BY <1>3, FS_EmptySet DEF Waiting
  <2>2. Cardinality(Logins) \in Nat
    BY AccountAssumption, FS_CardinalityType
  <2>3. FailLimit \in Nat \ {0}
    BY AccountAssumption, Zenon
  <2> QED BY <1>4, <2>1, <2>2, <2>3
<1> QED BY <1>1, <1>2, <1>3, <1>4, <1>5 DEF AccountInv

\* The accounts and the requests that manage them have no part in the count of failures.
LEMMA CountUndisturbed ==
  ASSUME AccountInv, UNCHANGED <<failures, login, refused>>, AccountTypeOK', ChangesFindTheirAccount'
  PROVE  AccountInv'
<1>1. \A u \in Users : Waiting(u)' = Waiting(u)
  BY DEF Waiting
<1> QED BY <1>1 DEF AccountInv

\* A management request begins with what it has read.
LEMMA BeginningKeepsInv ==
  ASSUME AccountInv, NEW c \in Calls, NEW what \in ManagementCall, Begins(c, what),
         what.at \in {"update", "totp"} => account[what.user] # None
  PROVE  AccountInv'
<1> USE DEF AccountInv, Begins
<1>1. AccountTypeOK'
  <2>1. calls' \in Nat /\ admin' \in [Calls -> ManagementCall]
    BY DEF AccountTypeOK
  <2> QED BY <2>1 DEF AccountTypeOK
<1>2. ChangesFindTheirAccount'
  BY DEF ChangesFindTheirAccount, AccountTypeOK
<1> QED BY <1>1, <1>2, CountUndisturbed

\* A row replaces what the account had; the request ends.
LEMMA StoringKeepsInv ==
  ASSUME AccountInv, NEW c \in Calls, NEW u \in Users, NEW row \in AccountRow, StoreRow(c, u, row)
  PROVE  AccountInv'
<1> USE DEF AccountInv, StoreRow
<1>0. NoCallYet \in ManagementCall /\ NoCallYet.at \notin {"update", "totp"} /\ row # None
  BY AccountAssumption DEF ManagementCall, NoCallYet
<1>1. AccountTypeOK'
  BY <1>0 DEF AccountTypeOK
<1>2. ChangesFindTheirAccount'
  BY <1>0 DEF ChangesFindTheirAccount, AccountTypeOK
<1> QED BY <1>1, <1>2, CountUndisturbed

\* updateUser writes a row again, whatever the patch leaves out.
LEMMA UpdatingKeepsInv ==
  ASSUME AccountInv, NEW c \in Calls, UpdateWrites(c)
  PROVE  AccountInv'
<1> DEFINE q == admin[c]
           was == account[q.user]
           org1 == CASE q.patch.org = None -> q.org [] q.patch.org = "" -> None [] OTHER -> q.patch.org
           new == [was EXCEPT !.role = IF q.patch.role = None THEN @ ELSE q.patch.role,
                              !.org = IF q.patch.org # None \/ org1 # q.org THEN org1 ELSE @,
                              !.disabled = IF q.patch.disabled = None THEN @ ELSE q.patch.disabled,
                              !.password = IF q.patch.password = None THEN @ ELSE q.patch.password]
<1>1. q.at = "update" /\ StoreRow(c, q.user, new)
  BY DEF UpdateWrites
<1>2. /\ q.user \in Users /\ q.patch \in Patches /\ q.org \in Tenants \cup {None}
      /\ was \in AccountRow
  BY <1>1, CallKinds DEF AccountInv, AccountTypeOK, ChangesFindTheirAccount
<1>3. /\ q.patch.role \in AdminRole \cup {None}
      /\ q.patch.org \in Tenants \cup {None, ""}
      /\ q.patch.disabled \in BOOLEAN \cup {None}
      /\ q.patch.password \in Passwords \cup {None}
  BY <1>2, AccountAssumption
<1>4. org1 \in Tenants \cup {None}
  BY <1>2, <1>3
<1>5. new \in AccountRow
  <2> HIDE DEF org1, q, was
  <2> QED BY <1>2, <1>3, <1>4 DEF AccountRow
<1> QED BY <1>1, <1>2, <1>5, StoringKeepsInv

\* The second factor is set or cleared on a row that is there.
LEMMA TotpKeepsInv ==
  ASSUME AccountInv, NEW c \in Calls, TotpWrites(c)
  PROVE  AccountInv'
<1>1. /\ admin[c].user \in Users /\ admin[c].secret \in Secrets \cup {None}
      /\ account[admin[c].user] \in AccountRow
  BY CallKinds DEF TotpWrites, AccountInv, AccountTypeOK, ChangesFindTheirAccount
<1>2. [account[admin[c].user] EXCEPT !.totp = admin[c].secret] \in AccountRow
  BY <1>1 DEF AccountRow
<1> QED BY <1>1, <1>2, StoringKeepsInv DEF TotpWrites

\* Every way a management request ends.
LEMMA ManagementKeepsInv ==
  ASSUME AccountInv, NEW c \in Calls,
         CreateWrites(c) \/ UpdateWrites(c) \/ TotpWrites(c) \/ AdminCallFails(c)
  PROVE  AccountInv'
<1>1. CASE CreateWrites(c)
  BY <1>1, CallKinds, StoringKeepsInv DEF CreateWrites, AccountInv, AccountTypeOK
<1>2. CASE AdminCallFails(c)
  <2>0. NoCallYet \in ManagementCall /\ NoCallYet.at \notin {"update", "totp"}
    BY DEF ManagementCall, NoCallYet
  <2>1. AccountTypeOK'
    BY <1>2, <2>0 DEF AdminCallFails, AccountInv, AccountTypeOK
  <2>2. ChangesFindTheirAccount'
    BY <1>2, <2>0 DEF AdminCallFails, AccountInv, AccountTypeOK, ChangesFindTheirAccount
  <2> QED BY <1>2, <2>1, <2>2, CountUndisturbed DEF AdminCallFails
<1> QED BY <1>1, <1>2, UpdatingKeepsInv, TotpKeepsInv

\* Every way a management request begins.
LEMMA RequestsKeepInv ==
  ASSUME AccountInv, NEW c \in Calls, NEW u \in Users
  PROVE  /\ \A pw \in Passwords : bootstrapCounts(c, u, pw) => AccountInv'
         /\ \A by \in Users \cup {None}, r \in AdminRole, org \in Tenants \cup {None}, pw \in Passwords :
              createFinds(c, by, u, r, org, pw) => AccountInv'
         /\ \A by \in Users \cup {None}, patch \in Patches : updateReads(c, by, u, patch) => AccountInv'
         /\ \A s \in Secrets : enableTotp(c, u, s) \/ disableTotp(c, u, s) => AccountInv'
<1>1. ASSUME NEW r \in AdminRole, NEW org \in Tenants \cup {None}, NEW pw \in Passwords,
             Begins(c, [at |-> "create", user |-> u, row |-> NewAccount(r, org, pw)])
      PROVE  AccountInv'
  <2> DEFINE what == [at |-> "create", user |-> u, row |-> NewAccount(r, org, pw)]
  <2>1. what \in ManagementCall /\ what.at \notin {"update", "totp"}
    BY NewAccountIsRow DEF ManagementCall
  <2> HIDE DEF what
  <2>2. Begins(c, what)
    BY <1>1 DEF what
  <2> QED BY <2>1, <2>2, BeginningKeepsInv
<1>2. ASSUME NEW pw \in Passwords, bootstrapCounts(c, u, pw) PROVE AccountInv'
  BY <1>1, <1>2, SuperadminIsRole DEF bootstrapCounts
<1>3. ASSUME NEW by \in Users \cup {None}, NEW r \in AdminRole, NEW org \in Tenants \cup {None},
             NEW pw \in Passwords, createFinds(c, by, u, r, org, pw)
      PROVE  AccountInv'
  BY <1>1, <1>3 DEF createFinds
<1>4. ASSUME NEW by \in Users \cup {None}, NEW patch \in Patches, updateReads(c, by, u, patch)
      PROVE  AccountInv'
  <2> DEFINE what == [at |-> "update", user |-> u, patch |-> patch,
                      role |-> account[u].role, org |-> account[u].org]
  <2>1. account[u] \in AccountRow /\ account[u] # None
    BY <1>4 DEF updateReads, AccountInv, AccountTypeOK
  <2>2. what \in ManagementCall /\ what.user = u
    BY <2>1 DEF ManagementCall, AccountRow
  <2>3. Begins(c, what)
    BY <1>4 DEF updateReads
  <2> HIDE DEF what
  <2> QED BY <2>1, <2>2, <2>3, BeginningKeepsInv
<1>5. ASSUME NEW s \in Secrets, enableTotp(c, u, s) \/ disableTotp(c, u, s) PROVE AccountInv'
  <2>1. PICK sent \in Secrets \cup {None} : Begins(c, [at |-> "totp", user |-> u, secret |-> sent])
    BY <1>5 DEF enableTotp, disableTotp
  <2>2. account[u] # None
    BY <1>5 DEF enableTotp, disableTotp, canActivate
  <2> DEFINE what == [at |-> "totp", user |-> u, secret |-> sent]
  <2>3. what \in ManagementCall /\ what.user = u
    BY DEF ManagementCall
  <2>4. Begins(c, what)
    BY <2>1
  <2> HIDE DEF what
  <2> QED BY <2>2, <2>3, <2>4, BeginningKeepsInv
<1> QED BY <1>2, <1>3, <1>4, <1>5

\* The numbers the bound is about.
LEMMA LimitArithmetic ==
  /\ FailLimit \in Nat /\ FailLimit >= 1
  /\ Cardinality(Logins) \in Nat
  /\ \A u \in Users : /\ IsFiniteSet(Waiting(u)) /\ Cardinality(Waiting(u)) \in Nat
                      /\ Cardinality(Waiting(u)) <= Cardinality(Logins)
<1>0. FailLimit \in Nat \ {0} /\ IsFiniteSet(Logins)
  BY AccountAssumption, Zenon
<1>1. IsFiniteSet(Logins) /\ Cardinality(Logins) \in Nat /\ FailLimit \in Nat /\ FailLimit >= 1
  BY <1>0, FS_CardinalityType
<1>2. ASSUME NEW u \in Users
      PROVE  /\ IsFiniteSet(Waiting(u)) /\ Cardinality(Waiting(u)) \in Nat
             /\ Cardinality(Waiting(u)) <= Cardinality(Logins)
  <2>1. Waiting(u) \subseteq Logins
    BY DEF Waiting
  <2> HIDE DEF Waiting
  <2> QED BY <1>1, <2>1, FS_Subset, FS_CardinalityType
<1> QED BY <1>1, <1>2

\* A login is admitted below the limit: it may be any of the logins, but one refusal is left.
LEMMA LoginStartsKeepsInv ==
  ASSUME AccountInv, NEW g \in Logins, NEW u \in Users, NEW pw \in Passwords, NEW code \in Secrets \cup {None},
         LoginStarts(g, u, pw, code)
  PROVE  AccountInv'
<1> USE DEF AccountInv
<1> DEFINE l == [at |-> "find", user |-> u, password |-> pw, code |-> code, row |-> None]
<1>0. l \in LoginCall /\ l.at # "idle" /\ l.user = u /\ login' = [login EXCEPT ![g] = l]
  BY DEF LoginCall, LoginStarts
<1> HIDE DEF l
<1>1. AccountTypeOK'
  BY <1>0 DEF AccountTypeOK, LoginStarts
<1>2. ChangesFindTheirAccount'
  BY DEF ChangesFindTheirAccount, LoginStarts
<1>3. \A h \in Logins : login'[h].at # "idle" => login'[h].user \in Users
  BY <1>0 DEF AccountTypeOK
<1>4. \A v \in Users : refused'[v] = IF failures'[v].open THEN failures'[v].count ELSE 0
  BY DEF LoginStarts
<1>5. ASSUME NEW v \in Users
      PROVE  refused'[v] + Cardinality(Waiting(v)') <= FailLimit + Cardinality(Logins) - 1
  <2>1. CASE v = u
    <3>1. refused[u] \in Nat /\ refused[u] <= FailLimit - 1
      BY LimitArithmetic DEF LoginStarts, RateLimited, AccountTypeOK
    <3>2. Waiting(v)' \subseteq Logins
      BY DEF Waiting
    <3>3. Cardinality(Waiting(v)') \in Nat /\ Cardinality(Waiting(v)') <= Cardinality(Logins)
      <4> HIDE DEF Waiting
      <4> QED BY <3>2, AccountAssumption, FS_Subset, FS_CardinalityType
    <3>4. refused'[v] = refused[u]
      BY <2>1 DEF LoginStarts
    <3> QED BY <3>1, <3>3, <3>4, LimitArithmetic
  <2>2. CASE v # u
    <3>1. Waiting(v)' \subseteq Waiting(v)
      BY <1>0, <2>2 DEF Waiting, AccountTypeOK
    <3>2. Cardinality(Waiting(v)') \in Nat /\ Cardinality(Waiting(v)') <= Cardinality(Waiting(v))
      <4> HIDE DEF Waiting
      <4> QED BY <3>1, LimitArithmetic, FS_Subset, FS_CardinalityType
    <3>3. refused'[v] = refused[v] /\ refused[v] \in Nat
      BY DEF LoginStarts, AccountTypeOK
    <3> QED BY <3>2, <3>3, LimitArithmetic
  <2> QED BY <2>1, <2>2
<1> QED BY <1>1, <1>2, <1>3, <1>4, <1>5

\* Reading the row leaves the login waiting.
LEMMA LoginReadsKeepsInv ==
  ASSUME AccountInv, NEW g \in Logins, LoginReads(g)
  PROVE  AccountInv'
<1> USE DEF AccountInv, LoginReads
<1>1. AccountTypeOK'
  <2>1. login[g] \in LoginCall /\ account[login[g].user] \in AccountRow \cup {None}
    BY DEF AccountTypeOK
  <2>2. login' \in [Logins -> LoginCall]
    BY <2>1 DEF AccountTypeOK, LoginCall
  <2> QED BY <2>2 DEF AccountTypeOK
<1>2. ChangesFindTheirAccount'
  BY DEF ChangesFindTheirAccount
<1>3. \A h \in Logins : login'[h].user = login[h].user /\ (login'[h].at = "idle" <=> login[h].at = "idle")
  BY DEF AccountTypeOK, LoginCall
<1>4. \A u \in Users : Waiting(u)' = Waiting(u)
  BY <1>3 DEF Waiting
<1> QED BY <1>1, <1>2, <1>3, <1>4

\* The verdict adds one to what is refused and takes one from what waits, or leaves or clears the count.
LEMMA LoginVerifiesKeepsInv ==
  ASSUME AccountInv, NEW g \in Logins, LoginVerifies(g)
  PROVE  AccountInv'
<1> USE DEF AccountInv
<1> DEFINE u == login[g].user
<1>0. /\ u \in Users /\ login[g].at = "verify" /\ login' = [login EXCEPT ![g] = NoLogin]
      /\ NoLogin \in LoginCall /\ NoLogin.at = "idle"
  BY DEF LoginVerifies, NoLogin, LoginCall
<1>a. /\ failures[u] \in [count : Nat, open : BOOLEAN] /\ refused[u] \in Nat
      /\ refused[u] = IF failures[u].open THEN failures[u].count ELSE 0
  BY <1>0 DEF AccountTypeOK
<1>b. PICK f \in [count : Nat, open : BOOLEAN], n \in Nat :
        /\ failures' = [failures EXCEPT ![u] = f] /\ refused' = [refused EXCEPT ![u] = n]
        /\ n <= refused[u] + 1 /\ n = IF f.open THEN f.count ELSE 0
  <2> DEFINE l == login[g]
             half == PasswordHolds(l) /\ l.row.totp # None /\ l.code = None
             fails == ~half /\ ~(PasswordHolds(l) /\ CodeHolds(l))
             kept == IF ClearsFailures(l) THEN NoFailures ELSE failures[u]
             f == IF fails THEN RecordedFailure(kept) ELSE kept
             n == IF fails THEN refused[u] + 1 ELSE IF half THEN refused[u] ELSE 0
  <2>1. failures' = [failures EXCEPT ![u] = f] /\ refused' = [refused EXCEPT ![u] = n]
    BY DEF LoginVerifies
  <2>2. /\ f \in [count : Nat, open : BOOLEAN] /\ n \in Nat
        /\ n <= refused[u] + 1 /\ n = IF f.open THEN f.count ELSE 0
    <3>1. CASE fails
      <4>1. kept = failures[u]
        BY <3>1 DEF ClearsFailures
      <4>2. CASE failures[u].open
        BY <3>1, <4>1, <4>2, <1>a DEF RecordedFailure
      <4>3. CASE ~failures[u].open
        BY <3>1, <4>1, <4>3, <1>a DEF RecordedFailure
      <4> QED BY <4>2, <4>3
    <3>2. CASE half
      BY <3>2, <1>a DEF ClearsFailures, CodeHolds, NoFailures
    <3>3. CASE ~half /\ ~fails
      BY <3>3, <1>a DEF ClearsFailures, NoFailures
    <3> QED BY <3>1, <3>2, <3>3
  <2> HIDE DEF f, n
  <2> QED BY <2>1, <2>2
<1>1. AccountTypeOK'
  BY <1>0, <1>b DEF AccountTypeOK, LoginVerifies
<1>2. ChangesFindTheirAccount'
  BY DEF ChangesFindTheirAccount, LoginVerifies
<1>3. \A h \in Logins : login'[h].at # "idle" => login'[h].user \in Users
  BY <1>0 DEF AccountTypeOK
<1>4. \A v \in Users : refused'[v] = IF failures'[v].open THEN failures'[v].count ELSE 0
  BY <1>0, <1>b DEF AccountTypeOK
<1>5. ASSUME NEW v \in Users
      PROVE  refused'[v] + Cardinality(Waiting(v)') <= FailLimit + Cardinality(Logins) - 1
  <2>0. refused[v] \in Nat /\ refused'[v] \in Nat
    BY <1>1 DEF AccountTypeOK
  <2>1. CASE v = u
    <3>1. Waiting(v)' = Waiting(v) \ {g} /\ g \in Waiting(v)
      BY <1>0, <2>1 DEF Waiting, AccountTypeOK
    <3>2. Cardinality(Waiting(v)') = Cardinality(Waiting(v)) - 1
      <4> HIDE DEF Waiting
      <4> QED BY <3>1, LimitArithmetic, FS_RemoveElement
    <3>3. refused'[v] <= refused[v] + 1
      BY <1>0, <1>b, <2>1 DEF AccountTypeOK
    <3> QED BY <2>0, <3>2, <3>3, LimitArithmetic
  <2>2. CASE v # u
    <3>1. Waiting(v)' = Waiting(v)
      BY <1>0, <2>2 DEF Waiting, AccountTypeOK
    <3>2. refused'[v] = refused[v]
      BY <1>b, <2>2 DEF AccountTypeOK
    <3> QED BY <3>1, <3>2
  <2> QED BY <2>1, <2>2
<1> QED BY <1>1, <1>2, <1>3, <1>4, <1>5

\* The window closes on what was refused in it; a token that expires concerns no count.
LEMMA TimePassingKeepsInv ==
  ASSUME AccountInv, NEW u \in Users, WindowPasses(u) \/ TokenExpires(u)
  PROVE  AccountInv'
<1> USE DEF AccountInv
<1>1. CASE TokenExpires(u)
  <2>1. AccountTypeOK'
    BY <1>1 DEF TokenExpires, AccountTypeOK
  <2>2. ChangesFindTheirAccount'
    BY <1>1 DEF TokenExpires, ChangesFindTheirAccount
  <2> QED BY <1>1, <2>1, <2>2, CountUndisturbed DEF TokenExpires
<1>2. CASE WindowPasses(u)
  <2>1. AccountTypeOK'
    BY <1>2 DEF WindowPasses, AccountTypeOK
  <2>2. ChangesFindTheirAccount'
    BY <1>2 DEF WindowPasses, ChangesFindTheirAccount
  <2>3. \A v \in Users : refused'[v] = IF failures'[v].open THEN failures'[v].count ELSE 0
    BY <1>2 DEF WindowPasses, AccountTypeOK
  <2>4. ASSUME NEW v \in Users
        PROVE  refused'[v] + Cardinality(Waiting(v)') <= FailLimit + Cardinality(Logins) - 1
    <3>1. Waiting(v)' = Waiting(v)
      BY <1>2 DEF Waiting, WindowPasses
    <3>2. refused[v] \in Nat /\ refused'[v] \in Nat /\ refused'[v] <= refused[v]
      BY <1>2 DEF WindowPasses, AccountTypeOK
    <3> QED BY <3>1, <3>2, LimitArithmetic
  <2> QED BY <1>2, <2>1, <2>2, <2>3, <2>4 DEF WindowPasses
<1> QED BY <1>1, <1>2

\* Every step.
LEMMA AccountStep == AccountInv /\ [AccountNext]_accountVars => AccountInv'
<1> SUFFICES ASSUME AccountInv, [AccountNext]_accountVars PROVE AccountInv'
  OBVIOUS
<1>1. CASE UNCHANGED accountVars
  <2>1. AccountTypeOK' /\ ChangesFindTheirAccount'
    BY <1>1 DEF AccountInv, AccountTypeOK, ChangesFindTheirAccount, accountVars
  <2> QED BY <1>1, <2>1, CountUndisturbed DEF accountVars
<1>2. CASE AccountNext
  BY <1>2, LoginStartsKeepsInv, LoginReadsKeepsInv, LoginVerifiesKeepsInv, TimePassingKeepsInv,
     ManagementKeepsInv, RequestsKeepInv DEF AccountNext
<1> QED BY <1>1, <1>2

\* The count on record is what was refused in the open window, and together with the logins that
\* passed checkRateLimit it stays within the bound (login, recordFailure, clearFailures).
THEOREM AccountInvariant == AccountSpec => []AccountInv
BY AccountInitially, AccountStep, PTL DEF AccountSpec

\* However logins of one account overlap, and whatever is changed about the account between their
\* steps, at most FAIL_LIMIT - 1 credentials and one for each concurrent login are refused in one
\* window (checkRateLimit before the await, recordFailure after it).
THEOREM FewGuesses == AccountSpec => []GuessesAreLimited
<1>1. AccountInv => GuessesAreLimited
  BY LimitArithmetic DEF AccountInv, AccountTypeOK, GuessesAreLimited
<1> QED BY <1>1, AccountInvariant, PTL
=============================================================================
