----------------------------- MODULE CrashAlerts ----------------------------
(***************************************************************************)
(* Desktop crash reports and their alert outbox (crash-reports/).          *)
(* Submitters store reports and reopen resolved ones, workers deliver      *)
(* alerts to Feishu, administrators review reports and retry failed        *)
(* alerts.  A worker is a control process; processes overlap while a new   *)
(* version is rolled out.                                                  *)
(*                                                                         *)
(* Times are what the code compares them for: due (alertNextAttemptAt has  *)
(* passed), stale (alertClaimedAt is older than the claim time-out), old   *)
(* (lastOccurredAt is beyond retention; the client supplies it, so it may  *)
(* pass at any moment).  alertClaimedAt is the call that wrote it, since   *)
(* the code only asks whether it is still its own.                         *)
(***************************************************************************)
EXTENDS Naturals, Null

CONSTANTS
  Rows,            \* ids of DesktopCrashReport rows
  KeyOf,           \* row -> its dedupe key
  Workers,         \* control processes, one processOne at a time in each
  Submitters,      \* concurrent calls of submit
  Admins,          \* concurrent calls of retryAlert
  MaxAttempts,     \* MAX_ATTEMPTS
  MaxSubmissions,  \* bound on accepted submissions
  MaxRetries,      \* bound on manual retries
  MaxFaults        \* bound on failing calls and crashes

ASSUME AlertAssumption ==
  /\ MaxAttempts \in Nat \ {0} /\ MaxSubmissions \in Nat /\ MaxRetries \in Nat /\ MaxFaults \in Nat
  /\ None \notin Workers /\ None \notin Rows

VARIABLES
  live, status, alertState, generation, attempts, claimedBy,  \* the rows
  due, stale, old,            \* rows whose times have passed
  delivered,                  \* alerts Feishu has: row and generation, the uuid of the message
  wpc, wRow, wGen, wAttempts, \* processOne: position, candidate, report read after the claim
  spc, sRow,                  \* submit
  apc, aRow,                  \* retryAlert
  submissions, retries, faults

rowVars == <<live, status, alertState, generation, attempts, claimedBy, due, stale, old>>
workerVars == <<wpc, wRow, wGen, wAttempts>>
submitVars == <<spc, sRow, submissions>>
adminVars == <<apc, aRow, retries>>
alertVars == <<rowVars, delivered, workerVars, submitVars, adminVars, faults>>

\* DesktopCrashReportStatus: the code asks only for RESOLVED; NEW, REVIEWING and IGNORED are open.
ReportStatus == {"open", "RESOLVED"}
AlertState == {"PENDING", "SENDING", "SENT", "FAILED"}
WorkerSteps == {"idle", "claim", "read", "send", "sent", "failed"}

CrashInit ==
  /\ live = {} /\ due = {} /\ stale = {} /\ old = {} /\ delivered = {}
  /\ status = [r \in Rows |-> "open"]
  /\ alertState = [r \in Rows |-> "PENDING"]
  /\ generation = [r \in Rows |-> 0]
  /\ attempts = [r \in Rows |-> 0]
  /\ claimedBy = [r \in Rows |-> None]
  /\ wpc = [w \in Workers |-> "idle"] /\ wRow = [w \in Workers |-> None]
  /\ wGen = [w \in Workers |-> 0] /\ wAttempts = [w \in Workers |-> 0]
  /\ spc = [s \in Submitters |-> "idle"] /\ sRow = [s \in Submitters |-> None]
  /\ apc = [a \in Admins |-> "idle"] /\ aRow = [a \in Admins |-> None]
  /\ submissions = 0 /\ retries = 0 /\ faults = 0

Fault == faults < MaxFaults /\ faults' = faults + 1
-----------------------------------------------------------------------------
(***************************************************************************)
(* submit: an upsert, then, in a statement of its own, the reopening.      *)
(***************************************************************************)

\* The upsert creates a row: a fresh id, unless the dedupe key has a row.
SubmitCreates(s, r) ==
  /\ spc[s] = "idle" /\ submissions < MaxSubmissions
  /\ generation[r] = 0 /\ \A q \in live : KeyOf[q] # KeyOf[r]
  /\ live' = live \cup {r} /\ due' = due \cup {r}
  /\ generation' = [generation EXCEPT ![r] = 1]
  /\ submissions' = submissions + 1
  /\ UNCHANGED <<status, alertState, attempts, claimedBy, stale, old, delivered, workerVars,
                 spc, sRow, adminVars, faults>>

\* The upsert counts another occurrence and returns the status it found.
SubmitRepeats(s, r) ==
  /\ spc[s] = "idle" /\ submissions < MaxSubmissions
  /\ r \in live
  /\ old' = old \ {r}
  /\ submissions' = submissions + 1
  /\ IF status[r] = "RESOLVED"
     THEN /\ spc' = [spc EXCEPT ![s] = "reopen"] /\ sRow' = [sRow EXCEPT ![s] = r]
     ELSE UNCHANGED <<spc, sRow>>
  /\ UNCHANGED <<live, status, alertState, generation, attempts, claimedBy, due, stale,
                 delivered, workerVars, adminVars, faults>>

SubmitReturns(s) ==
  /\ spc' = [spc EXCEPT ![s] = "idle"] /\ sRow' = [sRow EXCEPT ![s] = None]
  /\ UNCHANGED <<delivered, workerVars, submissions, adminVars>>

\* Mutant of Reopen: by id alone, whatever has happened since the upsert.
ReopenUnconditionally(s) ==
  /\ spc[s] = "reopen"
  /\ status' = [status EXCEPT ![sRow[s]] = "open"]
  /\ alertState' = [alertState EXCEPT ![sRow[s]] = "PENDING"]
  /\ generation' = [generation EXCEPT ![sRow[s]] = @ + 1]
  /\ attempts' = [attempts EXCEPT ![sRow[s]] = 0]
  /\ claimedBy' = [claimedBy EXCEPT ![sRow[s]] = None]
  /\ due' = due \cup {sRow[s]} /\ stale' = stale \ {sRow[s]}
  /\ SubmitReturns(s)
  /\ UNCHANGED <<live, old, faults>>

\* updateMany where the row is still RESOLVED: a new alert generation, queued from the start.
Reopen(s) ==
  /\ spc[s] = "reopen"
  /\ IF sRow[s] \in live /\ status[sRow[s]] = "RESOLVED"
     THEN /\ status' = [status EXCEPT ![sRow[s]] = "open"]
          /\ alertState' = [alertState EXCEPT ![sRow[s]] = "PENDING"]
          /\ generation' = [generation EXCEPT ![sRow[s]] = @ + 1]
          /\ attempts' = [attempts EXCEPT ![sRow[s]] = 0]
          /\ claimedBy' = [claimedBy EXCEPT ![sRow[s]] = None]
          /\ due' = due \cup {sRow[s]} /\ stale' = stale \ {sRow[s]}
     ELSE UNCHANGED <<status, alertState, generation, attempts, claimedBy, due, stale>>
  /\ SubmitReturns(s)
  /\ UNCHANGED <<live, old, faults>>

\* The second statement fails, or the process dies before it.
ReopenFails(s) ==
  /\ spc[s] = "reopen" /\ Fault
  /\ SubmitReturns(s)
  /\ UNCHANGED rowVars

\* deleteMany, not awaited: it runs whenever Postgres gets to it.
Retention ==
  /\ live \cap old # {}
  /\ live' = live \ old
  /\ UNCHANGED <<status, alertState, generation, attempts, claimedBy, due, stale, old, delivered,
                 workerVars, spc, sRow, submissions, adminVars, faults>>
-----------------------------------------------------------------------------
(***************************************************************************)
(* Time.                                                                   *)
(***************************************************************************)
BecomesDue(r) ==
  /\ r \in live \ due
  /\ due' = due \cup {r}
  /\ UNCHANGED <<live, status, alertState, generation, attempts, claimedBy, stale, old, delivered,
                 workerVars, submitVars, adminVars, faults>>

BecomesStale(r) ==
  /\ r \in live \ stale /\ claimedBy[r] # None
  /\ stale' = stale \cup {r}
  /\ UNCHANGED <<live, status, alertState, generation, attempts, claimedBy, due, old, delivered,
                 workerVars, submitVars, adminVars, faults>>

BecomesOld(r) ==
  /\ r \in live \ old
  /\ old' = old \cup {r}
  /\ UNCHANGED <<live, status, alertState, generation, attempts, claimedBy, due, stale, delivered,
                 workerVars, submitVars, adminVars, faults>>
-----------------------------------------------------------------------------
(***************************************************************************)
(* processOne.                                                             *)
(***************************************************************************)

\* Mutant of Ready: an abandoned claim is never taken over.
ReadyPending(r) ==
  r \in live /\ attempts[r] < MaxAttempts /\ alertState[r] = "PENDING" /\ r \in due

\* The filter of candidates, also the condition of the claim.
Ready(r) ==
  /\ r \in live /\ attempts[r] < MaxAttempts
  /\ \/ alertState[r] = "PENDING" /\ r \in due
     \/ alertState[r] = "SENDING" /\ r \in stale

WorkerAt(w, step) ==
  /\ wpc' = [wpc EXCEPT ![w] = step]
  /\ UNCHANGED <<submitVars, adminVars>>

\* processOne returns or throws; tick goes on with the next row or waits for the timer.
WorkerDone(w) ==
  /\ wRow' = [wRow EXCEPT ![w] = None] /\ wGen' = [wGen EXCEPT ![w] = 0]
  /\ wAttempts' = [wAttempts EXCEPT ![w] = 0]
  /\ WorkerAt(w, "idle")

FindCandidate(w, r) ==
  /\ wpc[w] = "idle" /\ Ready(r)
  /\ wRow' = [wRow EXCEPT ![w] = r]
  /\ WorkerAt(w, "claim")
  /\ UNCHANGED <<rowVars, delivered, wGen, wAttempts, faults>>

\* updateMany with the filter again: of several workers one gets the row.  The code asks it of the
\* time at which the call began; a row that became ready since is found by the call's next round,
\* which the model does not tell apart.
Claim(w) ==
  LET r == wRow[w] IN
  /\ wpc[w] = "claim"
  /\ IF Ready(r)
     THEN /\ alertState' = [alertState EXCEPT ![r] = "SENDING"]
          /\ attempts' = [attempts EXCEPT ![r] = @ + 1]
          /\ claimedBy' = [claimedBy EXCEPT ![r] = w]
          /\ stale' = stale \ {r}
          /\ WorkerAt(w, "read") /\ UNCHANGED <<wRow, wGen, wAttempts>>
     ELSE UNCHANGED <<alertState, attempts, claimedBy, stale>> /\ WorkerDone(w)
  /\ UNCHANGED <<live, status, generation, due, old, delivered, faults>>

\* The report is read after the claim, in a statement of its own.
ReadReport(w) ==
  /\ wpc[w] = "read"
  /\ IF wRow[w] \in live
     THEN /\ wGen' = [wGen EXCEPT ![w] = generation[wRow[w]]]
          /\ wAttempts' = [wAttempts EXCEPT ![w] = attempts[wRow[w]]]
          /\ WorkerAt(w, "send") /\ UNCHANGED wRow
     ELSE WorkerDone(w)
  /\ UNCHANGED <<rowVars, delivered, faults>>

\* Feishu accepts the message; a message with a known uuid changes nothing.
Send(w) ==
  /\ wpc[w] = "send"
  /\ delivered' = delivered \cup {<<wRow[w], wGen[w]>>}
  /\ WorkerAt(w, "sent")
  /\ UNCHANGED <<rowVars, wRow, wGen, wAttempts, faults>>

\* No usable answer: the message may have been posted.
SendFails(w) ==
  /\ wpc[w] = "send" /\ Fault
  /\ delivered' \in {delivered, delivered \cup {<<wRow[w], wGen[w]>>}}
  /\ WorkerAt(w, "failed")
  /\ UNCHANGED <<rowVars, wRow, wGen, wAttempts>>

\* Mutant of StillClaimed: any claim will do.
SomeoneClaimed(w) == wRow[w] \in live /\ alertState[wRow[w]] = "SENDING"

\* The row is still as this call claimed it.
StillClaimed(w) ==
  wRow[w] \in live /\ alertState[wRow[w]] = "SENDING" /\ claimedBy[wRow[w]] = w

\* updateMany: a claim that was reopened, retried or taken over since is left alone.
Settle(w, newState) ==
  /\ IF StillClaimed(w)
     THEN /\ alertState' = [alertState EXCEPT ![wRow[w]] = newState]
          /\ claimedBy' = [claimedBy EXCEPT ![wRow[w]] = None]
          /\ stale' = stale \ {wRow[w]}
          /\ due' = IF newState = "SENT" THEN due ELSE due \ {wRow[w]}
     ELSE UNCHANGED <<alertState, claimedBy, stale, due>>
  /\ WorkerDone(w)
  /\ UNCHANGED <<live, status, generation, attempts, old, delivered, faults>>

SettleSent(w) == wpc[w] = "sent" /\ Settle(w, "SENT")

\* The update stands in the try block: its failure is treated as a failed delivery.
SettleSentFails(w) ==
  /\ wpc[w] = "sent" /\ Fault
  /\ WorkerAt(w, "failed")
  /\ UNCHANGED <<rowVars, delivered, wRow, wGen, wAttempts>>

\* Mutant of Verdict: one attempt too few.
VerdictEarly(w) == IF wAttempts[w] + 1 >= MaxAttempts THEN "FAILED" ELSE "PENDING"

Verdict(w) == IF wAttempts[w] >= MaxAttempts THEN "FAILED" ELSE "PENDING"

SettleFailed(w) == wpc[w] = "failed" /\ Settle(w, Verdict(w))

\* A database call throws out of processOne, or the process dies: the claim stays in the row.
WorkerStops(w) ==
  /\ wpc[w] # "idle" /\ Fault
  /\ WorkerDone(w)
  /\ UNCHANGED <<rowVars, delivered>>

WorkerProceeds(w) ==
  \/ \E r \in Rows : FindCandidate(w, r)
  \/ Claim(w) \/ ReadReport(w) \/ Send(w) \/ SendFails(w)
  \/ SettleSent(w) \/ SettleSentFails(w) \/ SettleFailed(w)
-----------------------------------------------------------------------------
(***************************************************************************)
(* Administrators.                                                         *)
(***************************************************************************)

\* update: the status is overwritten; the alert is not touched.
Review(r, newStatus) ==
  /\ r \in live
  /\ status' = [status EXCEPT ![r] = newStatus]
  /\ UNCHANGED <<live, alertState, generation, attempts, claimedBy, due, stale, old, delivered,
                 workerVars, spc, sRow, submissions, adminVars, faults>>

\* retryAlert reads the state and refuses anything but FAILED ...
RetryRead(a, r) ==
  /\ apc[a] = "idle" /\ retries < MaxRetries
  /\ r \in live /\ alertState[r] = "FAILED"
  /\ retries' = retries + 1
  /\ apc' = [apc EXCEPT ![a] = "retry"] /\ aRow' = [aRow EXCEPT ![a] = r]
  /\ UNCHANGED <<rowVars, delivered, workerVars, submitVars, faults>>

\* ... and queues the row by its id.  A row deleted meanwhile is an error.
RetryWrite(a) ==
  LET r == aRow[a] IN
  /\ apc[a] = "retry"
  /\ apc' = [apc EXCEPT ![a] = "idle"] /\ aRow' = [aRow EXCEPT ![a] = None]
  /\ IF r \in live
     THEN /\ alertState' = [alertState EXCEPT ![r] = "PENDING"]
          /\ attempts' = [attempts EXCEPT ![r] = 0]
          /\ claimedBy' = [claimedBy EXCEPT ![r] = None]
          /\ due' = due \cup {r} /\ stale' = stale \ {r}
     ELSE UNCHANGED <<alertState, attempts, claimedBy, due, stale>>
  /\ UNCHANGED <<live, status, generation, old, delivered, workerVars, submitVars, retries, faults>>
-----------------------------------------------------------------------------
CrashNext ==
  \/ \E s \in Submitters : \/ \E r \in Rows : SubmitCreates(s, r) \/ SubmitRepeats(s, r)
                           \/ Reopen(s) \/ ReopenFails(s)
  \/ Retention
  \/ \E r \in Rows : BecomesDue(r) \/ BecomesStale(r) \/ BecomesOld(r)
  \/ \E w \in Workers : WorkerProceeds(w) \/ WorkerStops(w)
  \/ \E r \in Rows, newStatus \in ReportStatus : Review(r, newStatus)
  \/ \E a \in Admins : RetryWrite(a) \/ \E r \in Rows : RetryRead(a, r)

CrashSpec == CrashInit /\ [][CrashNext]_alertVars

\* A process that runs goes on with its row and its poll, and time passes.
CrashFairness ==
  /\ \A w \in Workers : WF_alertVars(WorkerProceeds(w))
  /\ \A r \in Rows : WF_alertVars(BecomesDue(r)) /\ WF_alertVars(BecomesStale(r))

FairCrashSpec == CrashSpec /\ CrashFairness
-----------------------------------------------------------------------------
(***************************************************************************)
(* Properties.                                                             *)
(***************************************************************************)
CrashTypeOK ==
  /\ live \subseteq Rows /\ due \subseteq Rows /\ stale \subseteq Rows /\ old \subseteq Rows
  /\ status \in [Rows -> ReportStatus] /\ alertState \in [Rows -> AlertState]
  /\ generation \in [Rows -> Nat] /\ attempts \in [Rows -> 0 .. MaxAttempts]
  /\ claimedBy \in [Rows -> Workers \cup {None}]
  /\ delivered \subseteq Rows \X Nat
  /\ wpc \in [Workers -> WorkerSteps] /\ wRow \in [Workers -> Rows \cup {None}]
  /\ wGen \in [Workers -> Nat] /\ wAttempts \in [Workers -> 0 .. MaxAttempts]
  /\ spc \in [Submitters -> {"idle", "reopen"}] /\ sRow \in [Submitters -> Rows \cup {None}]
  /\ apc \in [Admins -> {"idle", "retry"}] /\ aRow \in [Admins -> Rows \cup {None}]
  /\ submissions \in 0 .. MaxSubmissions /\ retries \in 0 .. MaxRetries /\ faults \in 0 .. MaxFaults

\* A row says SENT only if Feishu has the alert of its current generation: a delivery that was
\* under way when the report was reopened, retried or taken over does not settle the newer alert.
SentIsDelivered ==
  \A r \in live : alertState[r] = "SENT" => <<r, generation[r]>> \in delivered

\* No alert is given up before MAX_ATTEMPTS attempts of its own, whatever earlier generations and
\* overtaken workers counted.
FailedIsExhausted == \A r \in live : alertState[r] = "FAILED" => attempts[r] = MaxAttempts

\* "ordinary duplicates do not requeue a delivered alert, but a resolved recurrence does": a new
\* generation starts only by reopening a RESOLVED report, queued with no attempt used, and so once
\* per resolution however many submissions saw it.
ReopensOncePerResolution ==
  [][\A r \in live \cap live' :
       generation'[r] # generation[r] =>
         /\ status[r] = "RESOLVED" /\ status'[r] = "open"
         /\ generation'[r] = generation[r] + 1
         /\ alertState'[r] = "PENDING" /\ attempts'[r] = 0]_alertVars

\* The inductive invariant: what a delivery in progress has read is true of the row for as long as
\* the row carries its claim, and an id that was never drawn has the columns of a new row.
AlertInv ==
  /\ CrashTypeOK /\ SentIsDelivered /\ FailedIsExhausted
  /\ \A r \in Rows : generation[r] = 0 => r \notin live /\ alertState[r] = "PENDING"
  /\ \A w \in Workers : wpc[w] # "idle" => wRow[w] \in Rows
  /\ \A s \in Submitters : spc[s] = "reopen" => sRow[s] \in Rows
  /\ \A a \in Admins : apc[a] = "retry" => aRow[a] \in Rows
  /\ \A w \in Workers : wpc[w] = "sent" => <<wRow[w], wGen[w]>> \in delivered
  /\ \A w \in Workers : wpc[w] \in {"send", "sent", "failed"} =>
       \/ wRow[w] \notin live \/ alertState[wRow[w]] # "SENDING" \/ claimedBy[wRow[w]] # w
       \/ wGen[w] = generation[wRow[w]] /\ wAttempts[w] = attempts[wRow[w]]

\* Its last attempt was interrupted: no worker is at it, and none will claim it again.
Exhausted(r) ==
  /\ alertState[r] = "SENDING" /\ attempts[r] = MaxAttempts
  /\ \A w \in Workers : claimedBy[r] = w => wRow[w] # r

\* A queued alert is settled: it is delivered, or it is FAILED and visible to an administrator.
\* The worker's stale-claim filter makes this hold across crashes; the exception is a crash in
\* the last attempt.
AlertSettles ==
  \A r \in Rows :
    (r \in live /\ alertState[r] = "PENDING") ~>
      (r \notin live \/ alertState[r] \in {"SENT", "FAILED"} \/ Exhausted(r))
=============================================================================
