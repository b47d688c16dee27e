----------------------------- MODULE FeishuMonitor ---------------------------
(***************************************************************************)
(* The Feishu issue monitor (scripts/hara-feishu-monitor.py) on several    *)
(* hosts, for one Feishu message, against the Control ticket of that       *)
(* message.  In each process a poll thread stores the message in the queue *)
(* directory while a worker thread takes queued records through intake,    *)
(* acknowledgment, a Codex run and the closing transition.  A record is a  *)
(* file: each thread works on a copy and writes it back whole.             *)
(*                                                                         *)
(* A pass of the worker takes less than the five minutes of a time unit.   *)
(* nextAttemptAt only delays a pass and is left out.  Feishu and Desk are  *)
(* external: a call of theirs succeeds, fails, or is done and reported as  *)
(* failed.  A request to Control may also run on after its monitor has     *)
(* given up on it, next to the monitor's later ones, but not for five      *)
(* minutes.  A claim that is checked late is checked when it is sent here: *)
(* a token that is valid later was valid then.                             *)
(***************************************************************************)
EXTENDS FeedbackTickets, FiniteSets

CONSTANTS
  MaxAttempts,   \* MAX_ATTEMPTS
  MaxFaults,     \* bound on failing calls
  MaxCrashes,    \* bound on crashes of a monitor
  MaxUpdates,    \* bound on operators' updates
  MaxOverlaps,   \* bound on passes that start while enqueue still completes the record
  MaxDisturbances  \* bound on all of these and foreground replies together; an overlap comes alone

VARIABLES
  queue,         \* host -> the queued record, or None
  ended,         \* host -> outcomes of the records in the done, failed and skipped directories
  wpc, wrec,     \* worker thread: position and its copy of the record
  ppc, prec,     \* poll thread: position and its copy of the record
  aged,          \* hosts whose controlSyncedAt is five minutes old
  refreshDue,    \* hosts whose Codex run must renew its claim
  acks,          \* acknowledgments the monitors have posted under the message
  foreground,    \* a foreground session has replied under the message
  expired,       \* hosts whose record a restart has found to predate the catch-up window
  delayed,       \* hosts whose monitor gave up on an intake that Control has yet to carry out
  takenBack,     \* history: a request its monitor had given up on has reopened a settled ticket
  worked,        \* history: hosts on which Codex was started
  faults, crashes, updates, overlaps

workVars == <<queue, ended, wpc, wrec, ppc, prec, aged, refreshDue>>
threadVars == <<acks, foreground, worked, takenBack>>
worldVars == <<threadVars, delayed, expired>>
boundVars == <<faults, crashes, updates, overlaps>>
monitorVars == <<ticketVars, workVars, worldVars, boundVars>>

\* build_record; ctl: controlTicketId is known, granted: with a claim token, ready: workerAttemptReady is attempts + 1.
NewRecord ==
  [ctl |-> FALSE, cst |-> "RECEIVED", granted |-> FALSE, latest |-> FALSE, desk |-> "none",
   acked |-> FALSE, inFlight |-> FALSE, existing |-> FALSE, attempts |-> 0,
   pending |-> "none", ready |-> FALSE]

\* pendingTransition: IN_PROGRESS is the one before the worker, the others are terminal.
PendingTransition == {"none", "IN_PROGRESS", "WAITING_RELEASE", "BLOCKED", "REJECTED"}

Record ==
  [ctl : BOOLEAN, cst : Status, granted : BOOLEAN, latest : BOOLEAN,
   desk : {"none", "task", "fingerprint"}, acked : BOOLEAN, inFlight : BOOLEAN, existing : BOOLEAN,
   attempts : Nat, pending : PendingTransition, ready : BOOLEAN]

ASSUME MonitorAssumption ==
  /\ MaxAttempts \in Nat \ {0} /\ MaxFaults \in Nat /\ MaxCrashes \in Nat /\ MaxUpdates \in Nat
  /\ MaxOverlaps \in Nat /\ MaxDisturbances \in Nat
  /\ None \notin Record

SettledRemotely == {"WAITING_RELEASE", "WAITING_VERIFICATION", "CLOSED", "REJECTED", "BLOCKED"}

MonitorInit ==
  /\ TicketInit
  /\ queue = [h \in Hosts |-> None] /\ ended = [h \in Hosts |-> {}]
  /\ wpc = [h \in Hosts |-> "idle"] /\ wrec = [h \in Hosts |-> NewRecord]
  /\ ppc = [h \in Hosts |-> "watch"] /\ prec = [h \in Hosts |-> NewRecord]
  /\ aged = {} /\ refreshDue = {}
  /\ acks = 0 /\ foreground = FALSE /\ worked = {} /\ delayed = {} /\ expired = {}
  /\ takenBack = FALSE
  /\ faults = 0 /\ crashes = 0 /\ updates = 0 /\ overlaps = 0

Disturbances == faults + crashes + updates + MaxDisturbances * overlaps + (IF foreground THEN 1 ELSE 0)
MayDisturb == Disturbances < MaxDisturbances

Fault ==
  /\ MayDisturb /\ faults < MaxFaults /\ faults' = faults + 1
  /\ UNCHANGED <<crashes, updates, overlaps>>

At(h, pc) == wpc[h] = pc
Goto(h, pc) == wpc' = [wpc EXCEPT ![h] = pc]

\* atomic_json, and the copy in memory it was written from.
Save(h, r) == wrec' = [wrec EXCEPT ![h] = r] /\ queue' = [queue EXCEPT ![h] = r]

\* Between passes the worker has no copy.
Forget(h) == wrec' = [wrec EXCEPT ![h] = NewRecord]

\* The pass ends early with r saved.
Pause(h, r) == queue' = [queue EXCEPT ![h] = r] /\ Forget(h) /\ Goto(h, "idle")

\* A grant, even one whose answer is lost, outdates every token handed out before it.
Outdate(f) == [h \in Hosts |-> IF f[h] = None THEN None ELSE [f[h] EXCEPT !.latest = FALSE]]
AfterIntake(h, f) == IF Grantable(h) THEN Outdate(f) ELSE f

\* sync_control_intake: what the answer writes into the record.
TakeIntake(h, r) ==
  [r EXCEPT !.ctl = TRUE, !.cst = IF status = None THEN "RECEIVED" ELSE status,
            !.granted = Grantable(h), !.latest = Grantable(h)]

\* The answer is lost, or the request is, or it runs on; the thread saves its copy, workers keep w.
IntakeUnanswered(h, mine, w) ==
  /\ Fault
  /\ \/ /\ Intake(h) /\ wrec' = AfterIntake(h, w) /\ prec' = AfterIntake(h, prec)
        /\ queue' = AfterIntake(h, [queue EXCEPT ![h] = mine]) /\ UNCHANGED delayed
     \/ /\ UNCHANGED <<ticketVars, prec>> /\ wrec' = w
        /\ queue' = [queue EXCEPT ![h] = mine] /\ delayed' \in {delayed, delayed \cup {h}}

\* Control carries out an intake that its monitor has given up on.
LateIntake(h) ==
  /\ h \in delayed /\ delayed' = delayed \ {h}
  /\ Intake(h) /\ wrec' = AfterIntake(h, wrec) /\ prec' = AfterIntake(h, prec)
  /\ queue' = AfterIntake(h, queue)
  /\ UNCHANGED <<ended, wpc, ppc, aged, refreshDue, expired, threadVars, boundVars>>
-----------------------------------------------------------------------------
(***************************************************************************)
(* The poll thread.                                                        *)
(***************************************************************************)

\* poll_once, then enqueue before it calls anyone, or store_skipped_replay for an old message.
Watch(h, stale) ==
  /\ ppc[h] = "watch" /\ wpc[h] \notin {"down", "boot", "bootWait"}
  /\ IF stale
     THEN /\ ended' = [ended EXCEPT ![h] = {"skipped"}] /\ ppc' = [ppc EXCEPT ![h] = "idle"]
          /\ UNCHANGED queue
     ELSE /\ queue' = [queue EXCEPT ![h] = NewRecord] /\ ppc' = [ppc EXCEPT ![h] = "intake"]
          /\ UNCHANGED ended
  /\ UNCHANGED <<ticketVars, wpc, wrec, prec, aged, refreshDue, worldVars, boundVars>>

\* enqueue's own intake; the record saved is the poll thread's.
PollIntake(h) ==
  /\ ppc[h] = "intake" /\ ppc' = [ppc EXCEPT ![h] = "desk"]
  /\ \/ /\ Intake(h) /\ aged' = aged \ {h} /\ UNCHANGED <<delayed, boundVars>>
        /\ prec' = [AfterIntake(h, prec) EXCEPT ![h] = TakeIntake(h, NewRecord)]
        /\ wrec' = AfterIntake(h, wrec) /\ queue' = [AfterIntake(h, queue) EXCEPT ![h] = prec'[h]]
     \/ IntakeUnanswered(h, NewRecord, wrec) /\ UNCHANGED aged
  /\ UNCHANGED <<ended, wpc, refreshDue, expired, threadVars>>

\* enqueue's Desk intake: a task of its own, or one it duplicates by fingerprint.
PollDesk(h) ==
  /\ ppc[h] = "desk" /\ ppc' = [ppc EXCEPT ![h] = "idle"]
  /\ prec' = [prec EXCEPT ![h] = NewRecord]
  /\ \/ \E d \in {"task", "fingerprint"} :
          queue' = [queue EXCEPT ![h] = [prec[h] EXCEPT !.desk = d]] /\ UNCHANGED boundVars
     \/ Fault /\ queue' = [queue EXCEPT ![h] = prec[h]]
  /\ UNCHANGED <<ticketVars, ended, wpc, wrec, aged, refreshDue, worldVars>>
-----------------------------------------------------------------------------
(***************************************************************************)
(* The worker thread: process_record up to the acknowledgment.             *)
(***************************************************************************)

\* The pass reads the file: a pending transition first, else Control, unless synced just now.
StartPass(h) ==
  /\ At(h, "idle") /\ queue[h] # None
  /\ \/ ppc[h] = "idle" /\ UNCHANGED overlaps
     \/ ppc[h] # "idle" /\ Disturbances = 0 /\ overlaps < MaxOverlaps /\ overlaps' = overlaps + 1
  /\ wrec' = [wrec EXCEPT ![h] = queue[h]]
  /\ Goto(h, IF queue[h].pending # "none" THEN "resume"
             ELSE IF ~queue[h].ctl \/ h \in aged THEN "intake" ELSE "route")
  /\ UNCHANGED <<ticketVars, queue, ended, ppc, prec, aged, refreshDue, worldVars, faults, crashes, updates>>

\* The answer of an intake is saved with the worker's copy.
WorkerTakes(h) ==
  /\ Intake(h) /\ aged' = aged \ {h} /\ prec' = AfterIntake(h, prec) /\ UNCHANGED delayed
  /\ wrec' = [AfterIntake(h, wrec) EXCEPT ![h] = TakeIntake(h, wrec[h])]
  /\ queue' = [AfterIntake(h, queue) EXCEPT ![h] = wrec'[h]]

WorkerIntake(h) ==
  /\ At(h, "intake")
  /\ \/ WorkerTakes(h) /\ Goto(h, "route") /\ UNCHANGED boundVars
     \/ /\ IntakeUnanswered(h, wrec[h], [wrec EXCEPT ![h] = NewRecord])
        /\ Goto(h, "idle") /\ UNCHANGED aged
  /\ UNCHANGED <<ended, ppc, refreshDue, expired, threadVars>>

\* Mutant of Archive: the queue file is removed before the archived copy exists.
UnlinkFirst(h, o) ==
  queue' = [queue EXCEPT ![h] = None] /\ Goto(h, "unlink") /\ Forget(h) /\ UNCHANGED ended

\* finish_record writes the destination; the source is unlinked in a step of its own.
Archive(h, o) ==
  ended' = [ended EXCEPT ![h] = @ \cup {o}] /\ Goto(h, "unlink") /\ Forget(h) /\ UNCHANGED queue

Unlink(h) ==
  /\ At(h, "unlink") /\ Goto(h, "idle")
  /\ queue' = [queue EXCEPT ![h] = None] /\ aged' = aged \ {h}
  /\ UNCHANGED <<ticketVars, ended, wrec, ppc, prec, refreshDue, worldVars, boundVars>>

\* Settled remotely, without a Desk task yet, claimed by another worker, or on to the acknowledgment.
Route(h) ==
  /\ At(h, "route")
  /\ IF wrec[h].cst \in SettledRemotely THEN Archive(h, "settled")
     ELSE IF wrec[h].desk = "none" THEN Goto(h, "desk") /\ UNCHANGED <<queue, ended, wrec>>
     ELSE IF ~wrec[h].granted THEN Archive(h, "claimed")
     ELSE Goto(h, IF wrec[h].acked THEN "next" ELSE "reconcile") /\ UNCHANGED <<queue, ended, wrec>>
  /\ UNCHANGED <<ticketVars, ppc, prec, aged, refreshDue, worldVars, boundVars>>

WorkerDesk(h) ==
  /\ At(h, "desk")
  /\ \/ \E d \in {"task", "fingerprint"} :
          Save(h, [wrec[h] EXCEPT !.desk = d]) /\ Goto(h, "route") /\ UNCHANGED boundVars
     \/ Fault /\ Pause(h, wrec[h])
  /\ UNCHANGED <<ticketVars, ended, ppc, prec, aged, refreshDue, worldVars>>

\* Mutant of ReplyExists: the thread is read only when a send was in flight.
ReplyExistsInFlight(h) == wrec[h].inFlight /\ (acks > 0 \/ foreground)

\* recent_codex_reply_exists: a monitor's or a foreground session's reply is in the thread.
ReplyExists(h) == acks > 0 \/ foreground

\* Mutant of OwnedElsewhere: a reply that was there already changes nothing.
NeverOwnedElsewhere(h) == FALSE

\* handledByExistingCodex: no send of this monitor's was in flight when it found the reply.
OwnedElsewhere(h) == ~wrec[h].inFlight

\* ensure_acknowledged reads the thread before it replies.
Reconcile(h) ==
  /\ At(h, "reconcile")
  /\ \/ Fault /\ Pause(h, wrec[h])
     \/ /\ ReplyExists(h) /\ Goto(h, "ackSync")
        /\ wrec' = [wrec EXCEPT ![h] =
             [wrec[h] EXCEPT !.acked = TRUE, !.inFlight = FALSE, !.existing = OwnedElsewhere(h)]]
        /\ UNCHANGED <<queue, boundVars>>
     \/ /\ ~ReplyExists(h) /\ Goto(h, "reply") /\ Save(h, [wrec[h] EXCEPT !.inFlight = TRUE])
        /\ UNCHANGED boundVars
  /\ UNCHANGED <<ticketVars, ended, ppc, prec, aged, refreshDue, worldVars>>

\* reply_fixed: posted; reported as failed, posted or not; or timed out, which ends the pass.
Reply(h) ==
  /\ At(h, "reply")
  /\ \/ /\ acks' = acks + 1 /\ Goto(h, "ackSync")
        /\ wrec' = [wrec EXCEPT ![h] = [@ EXCEPT !.acked = TRUE, !.inFlight = FALSE]]
        /\ UNCHANGED <<queue, boundVars>>
     \/ /\ Fault /\ acks' \in {acks, acks + 1}
        /\ \/ Pause(h, [wrec[h] EXCEPT !.inFlight = FALSE])
           \/ Goto(h, "idle") /\ Forget(h) /\ UNCHANGED queue
  /\ UNCHANGED <<ticketVars, ended, ppc, prec, aged, refreshDue, foreground, worked, takenBack, delayed, expired>>
-----------------------------------------------------------------------------
(***************************************************************************)
(* sync_ticket_transition: Control, then Desk, whatever Control answered.  *)
(***************************************************************************)

\* Where the worker asks for a transition, and where it waits for the answer.
WaitOf == [ackSync |-> "ackWait", resume |-> "resumeWait", pend |-> "pendWait", boot |-> "bootWait"]

Target(h) ==
  CASE At(h, "ackSync") -> "ACKNOWLEDGED"
    [] At(h, "boot") -> "REJECTED"
    [] OTHER -> wrec[h].pending

\* Mutant of Patch: the claim is not checked.
PatchUnchecked(h) ==
  /\ wpc[h] \in DOMAIN WaitOf /\ Goto(h, WaitOf[wpc[h]])
  /\ Begin(h, Target(h), "keep")
  /\ UNCHANGED <<queue, ended, wrec, ppc, prec, aged, refreshDue, worldVars, boundVars>>

\* sync_control_transition: the request reaches Control with a claim that holds, or it fails.
Patch(h) ==
  /\ wpc[h] \in DOMAIN WaitOf /\ Goto(h, WaitOf[wpc[h]])
  /\ \/ BeginClaimed(h, Target(h), wrec[h].latest) /\ UNCHANGED boundVars
     \/ /\ RefuseClaimed(h)
        /\ \/ ~Claimed(wrec[h].latest) /\ UNCHANGED boundVars
           \/ Claimed(wrec[h].latest) /\ Fault
  /\ UNCHANGED <<queue, ended, wrec, ppc, prec, aged, refreshDue, worldVars>>

\* Control's answer as the monitor has it, or none, with the request done or still to be done.
ControlAnswers(h, ok) ==
  \/ /\ call[h].step = (IF ok THEN "done" ELSE "refused")
     /\ Returns(h) /\ UNCHANGED boundVars
  \/ ~ok /\ Fault /\ call[h].step \in {"begin", "read", "done"} /\ Abandon(h)

\* Control did it and Desk, which is asked unless the task is another message's, did not.
DeskFails(h) ==
  call[h].step = "done" /\ wrec[h].desk = "task" /\ Fault /\ Returns(h)

\* controlSyncedAt moves with a successful transition too, though the claim is not renewed.
Synced(h, ok) == aged' = IF ok THEN aged \ {h} ELSE aged

\* The acknowledgment is saved whatever became of its transition.
AckDone(h) ==
  /\ At(h, "ackWait") /\ Goto(h, "next")
  /\ \E ok \in BOOLEAN :
       /\ ControlAnswers(h, ok) /\ Synced(h, ok)
       /\ Save(h, IF ok THEN [wrec[h] EXCEPT !.cst = "ACKNOWLEDGED"] ELSE wrec[h])
  /\ UNCHANGED <<ended, ppc, prec, refreshDue, worldVars>>

OutcomeOf == [WAITING_RELEASE |-> "completed", BLOCKED |-> "exhausted", REJECTED |-> "duplicate"]

\* Mutant of Applied: the archive does not wait for the backends.
AppliedAnyway(h) == \E ok \in BOOLEAN : ControlAnswers(h, ok) /\ Synced(h, ok)

\* Both backends have the transition.
Applied(h) == ControlAnswers(h, TRUE) /\ Synced(h, TRUE)

\* apply_pending_transition succeeded: on to the worker, or into its directory.
PendingApplied(h) ==
  LET r == [wrec[h] EXCEPT !.cst = wrec[h].pending, !.pending = "none", !.ready = TRUE]
  IN /\ wpc[h] \in {"resumeWait", "pendWait"} /\ Applied(h)
     /\ IF wrec[h].pending = "IN_PROGRESS"
        THEN /\ IF At(h, "pendWait") THEN Save(h, r) /\ Goto(h, "start") ELSE Pause(h, r)
             /\ UNCHANGED ended
        ELSE Archive(h, OutcomeOf[wrec[h].pending])
     /\ UNCHANGED <<ppc, prec, refreshDue, worldVars>>

\* apply_pending_transition failed: the record stays queued with its pending transition.
PendingWaits(h) ==
  /\ wpc[h] \in {"resumeWait", "pendWait"}
  /\ \/ ControlAnswers(h, FALSE) /\ Pause(h, wrec[h]) /\ UNCHANGED aged
     \/ /\ DeskFails(h) /\ Pause(h, [wrec[h] EXCEPT !.cst = wrec[h].pending])
        /\ aged' = aged \ {h}
  /\ UNCHANGED <<ended, ppc, prec, refreshDue, worldVars>>
-----------------------------------------------------------------------------
(***************************************************************************)
(* The worker thread: process_record from the acknowledgment on.           *)
(***************************************************************************)

\* The attempt is counted in the file before Codex starts.
Run(h, r) ==
  /\ Save(h, [r EXCEPT !.ready = FALSE, !.attempts = @ + 1]) /\ Goto(h, "running")
  /\ worked' = worked \cup {h} /\ UNCHANGED <<ended, acks, foreground, takenBack, delayed, expired>>

\* queue_ticket_transition, then straight to apply_pending_transition.
Queue(h, r, t) ==
  Save(h, [r EXCEPT !.pending = t]) /\ Goto(h, "pend") /\ UNCHANGED <<ended, worldVars>>

\* A duplicate, a thread another session owns, an attempt whose transition is recorded, or a new one.
AfterAck(h) ==
  /\ At(h, "next")
  /\ IF wrec[h].desk = "fingerprint" THEN Queue(h, wrec[h], "REJECTED")
     ELSE IF wrec[h].existing THEN Archive(h, "existing") /\ UNCHANGED worldVars
     ELSE IF wrec[h].ready THEN Run(h, wrec[h])
     ELSE Queue(h, wrec[h], "IN_PROGRESS")
  /\ UNCHANGED <<ticketVars, ppc, prec, aged, refreshDue, boundVars>>

\* The record is read again; the poll thread may have replaced it meanwhile.
StartWorker(h) ==
  /\ At(h, "start")
  /\ IF queue[h].ready THEN Run(h, queue[h])
     ELSE Archive(h, "invalid") /\ UNCHANGED worldVars
  /\ UNCHANGED <<ticketVars, ppc, prec, aged, refreshDue, boundVars>>

\* run_codex renews the claim every five minutes and stops the child when it cannot.
Refresh(h) ==
  /\ At(h, "running") /\ h \in refreshDue /\ refreshDue' = refreshDue \ {h}
  /\ \/ /\ WorkerTakes(h) /\ UNCHANGED boundVars
        /\ Goto(h, IF Grantable(h) THEN "running" ELSE "lost")
     \/ IntakeUnanswered(h, wrec[h], wrec) /\ Goto(h, "lost") /\ UNCHANGED aged
  /\ UNCHANGED <<ended, ppc, expired, threadVars>>

MayRetry(h) == wrec[h].attempts < MaxAttempts

\* Codex has ended; the file is read again, the attempt number is the worker's own.
CodexExit(h, ok) ==
  /\ At(h, "running") \/ (At(h, "lost") /\ ~ok)
  /\ refreshDue' = refreshDue \ {h}
  /\ IF ok THEN Queue(h, queue[h], "WAITING_RELEASE")
     ELSE IF MayRetry(h) THEN Pause(h, queue[h]) /\ UNCHANGED <<ended, worldVars>>
     ELSE Queue(h, queue[h], "BLOCKED")
  /\ UNCHANGED <<ticketVars, ppc, prec, aged, boundVars>>
-----------------------------------------------------------------------------
(***************************************************************************)
(* Crash and restart, time, and everyone else.                             *)
(***************************************************************************)

\* The process dies with its Codex child; files and a request already sent remain.
Crash(h) ==
  /\ MayDisturb /\ crashes < MaxCrashes /\ wpc[h] # "down"
  /\ crashes' = crashes + 1 /\ UNCHANGED <<faults, updates, overlaps>>
  /\ Goto(h, "down") /\ Forget(h) /\ Abandon(h)
  /\ ppc' = [ppc EXCEPT ![h] = IF @ = "watch" THEN "watch" ELSE "idle"]
  /\ prec' = [prec EXCEPT ![h] = NewRecord] /\ refreshDue' = refreshDue \ {h}
  /\ UNCHANGED <<queue, ended, aged, worldVars>>

\* quarantine_stale_queue_records: a record from before the catch-up window, which a later start
\* finds still more so, is rejected and skipped.
Boot(h, stale) ==
  /\ At(h, "down") /\ (h \in expired => stale)
  /\ expired' = IF queue[h] # None /\ stale THEN expired \cup {h} ELSE expired
  /\ IF queue[h] = None \/ ~stale THEN Goto(h, "idle") /\ UNCHANGED <<wrec, queue, ended>>
     ELSE IF queue[h].ctl /\ queue[h].granted
          THEN wrec' = [wrec EXCEPT ![h] = queue[h]] /\ Goto(h, "boot") /\ UNCHANGED <<queue, ended>>
          ELSE Archive(h, "skipped")
  /\ UNCHANGED <<ticketVars, ppc, prec, aged, refreshDue, threadVars, delayed, boundVars>>

\* The record is skipped whatever became of its transition.
Quarantine(h) ==
  /\ At(h, "bootWait") /\ Archive(h, "skipped")
  /\ \E ok \in BOOLEAN : ControlAnswers(h, ok) /\ Synced(h, ok)
  /\ UNCHANGED <<ppc, prec, refreshDue, worldVars>>

\* Five minutes pass between passes and with no request under way; every running Codex has renewed its claim since the last five.
Tick ==
  /\ \A h \in Hosts : wpc[h] \in {"idle", "running", "down"} /\ ppc[h] \in {"watch", "idle"}
  /\ \A c \in Hosts \cup Late : call[c] = NoCall
  /\ refreshDue = {} /\ delayed = {}
  /\ LeaseTick /\ aged' = {h \in Hosts : queue[h] # None} /\ refreshDue' = {h \in Hosts : At(h, "running")}
  /\ UNCHANGED <<queue, ended, wpc, wrec, ppc, prec, worldVars, boundVars>>

ForegroundReplies ==
  /\ ~foreground /\ MayDisturb /\ foreground' = TRUE
  /\ UNCHANGED <<ticketVars, workVars, acks, worked, takenBack, delayed, expired, boundVars>>

OperatorUpdates(o, u) ==
  /\ MayDisturb /\ updates < MaxUpdates /\ updates' = updates + 1
  /\ BeginUpdate(o, u) /\ UNCHANGED <<workVars, worldVars, faults, crashes, overlaps>>

TransitionReads(c, note) == TxRead(c, note) /\ UNCHANGED <<workVars, worldVars, boundVars>>
RequestReturns(c) == Returns(c) /\ UNCHANGED <<workVars, worldVars, boundVars>>

\* A request its monitor has given up on reopens a ticket that is settled.
TakesBack(c) == c \in Late /\ status \in SettledRemotely /\ call[c].to \notin SettledRemotely

TransitionWrites(c) ==
  /\ TxWrite(c) /\ takenBack' = (takenBack \/ TakesBack(c))
  /\ UNCHANGED <<workVars, acks, foreground, worked, delayed, expired, boundVars>>

WorkerStep(h) ==
  \/ StartPass(h) \/ WorkerIntake(h) \/ Route(h) \/ WorkerDesk(h) \/ Reconcile(h) \/ Reply(h)
  \/ Patch(h) \/ AckDone(h) \/ PendingApplied(h) \/ PendingWaits(h) \/ AfterAck(h) \/ StartWorker(h)
  \/ Refresh(h) \/ Unlink(h) \/ Quarantine(h)
  \/ \E ok \in BOOLEAN : CodexExit(h, ok)
  \/ \E stale \in BOOLEAN : Boot(h, stale)

PollStep(h) ==
  PollIntake(h) \/ PollDesk(h) \/ \E stale \in BOOLEAN : Watch(h, stale)

MonitorNext ==
  \/ \E h \in Hosts :
       WorkerStep(h) \/ PollStep(h) \/ LateIntake(h) \/ Crash(h)
  \/ \E c \in Callers : TransitionWrites(c)
  \/ \E c \in Hosts \cup Late : TransitionReads(c, TRUE)
  \/ \E c \in Operators \cup Late : RequestReturns(c)
  \/ \E o \in Operators :
       \/ \E note \in BOOLEAN : TransitionReads(o, note)
       \/ \E u \in Updates : OperatorUpdates(o, u)
  \/ ForegroundReplies \/ Tick

MonitorSpec == MonitorInit /\ [][MonitorNext]_monitorVars

\* Threads keep running, a Codex run ends (run_codex stops it after four hours), and requests that
\* reached Control are carried out.
MonitorFairness ==
  /\ \A h \in Hosts : /\ WF_monitorVars(WorkerStep(h)) /\ WF_monitorVars(PollStep(h))
                     /\ WF_monitorVars(\E ok \in BOOLEAN : CodexExit(h, ok))
                     /\ WF_monitorVars(LateIntake(h))
  /\ \A c \in Hosts \cup Late : WF_monitorVars(TransitionReads(c, TRUE))
  /\ \A c \in Operators \cup Late : WF_monitorVars(RequestReturns(c))
  /\ \A c \in Callers : WF_monitorVars(TransitionWrites(c))

FairMonitorSpec == MonitorSpec /\ MonitorFairness
-----------------------------------------------------------------------------
(***************************************************************************)
(* However hosts, restarts, foreground sessions and lost answers           *)
(* interleave, the monitors acknowledge a message at most once, unless an  *)
(* operator moves the ticket: rejecting and reopening it during a pass     *)
(* lets a second host claim it before the first one has replied.           *)
(***************************************************************************)
AckOnce == updates = 0 => acks <= 1

(***************************************************************************)
(* A message whose record a poll thread has stored and still completes, a  *)
(* pass works on, or Codex has worked on is in the queue or in an archive, *)
(* at every point a crash can come: finish_record writes before it         *)
(* unlinks.  (Where both threads rest and Codex never ran it is silent:    *)
(* a host that has not seen the message has no record of it.)              *)
(***************************************************************************)
RecordSurvives ==
  \A h \in Hosts : ppc[h] \in {"intake", "desk"} \/ wpc[h] \notin {"idle", "down"} \/ h \in worked
                   => queue[h] # None \/ ended[h] # {}

(***************************************************************************)
(* A record leaves the queue as completed or exhausted only once Control   *)
(* has that outcome, and Control keeps it: whatever requests a monitor     *)
(* waits for, repeats or has given up on run next to each other, it stays  *)
(* until one that was given up on reopens the settled ticket, which the    *)
(* unconditional write of the code allows (OutcomeStays).  Exceptions: an  *)
(* operator moves the ticket; a pass that overlapped enqueue had its       *)
(* record restored behind its back; a crash left a copy in the queue,      *)
(* which the quarantine rejects.                                           *)
(***************************************************************************)
FinalStatusKept ==
  updates = 0 /\ overlaps = 0 /\ ~takenBack =>
    \A h \in Hosts : ended[h] \cap {"completed", "exhausted"} # {} =>
      status \in {"WAITING_RELEASE", "BLOCKED"} \cup (IF crashes > 0 THEN {"REJECTED"} ELSE {})

(***************************************************************************)
(* The monitors use Control only as its service allows: every step of      *)
(* theirs is a step of the ticket service or none.                         *)
(***************************************************************************)
ImplementsTickets == TicketSpec

(***************************************************************************)
(* One processing lease: no single failure, restart, foreground reply or   *)
(* operator's update lets Codex run on two hosts at a time.  (Two of them  *)
(* can: a marker of an unfinished send claims another host's reply.)       *)
(***************************************************************************)
OneWorker ==
  faults + crashes + updates + overlaps <= 1
    => Cardinality({h \in Hosts : At(h, "running")}) <= 1

(***************************************************************************)
(* Expected to fail: no backend failure loses a final status.  A request   *)
(* that was given up on and has read the row before the outcome was        *)
(* written overwrites it afterwards, by the row's id alone.                *)
(***************************************************************************)
OutcomeStays ==
  \A h \in Hosts : ended[h] \cap {"completed", "exhausted", "duplicate"} # {} => status \in SettledRemotely

(***************************************************************************)
(* Expected to fail: a backend failure only pauses the record, which is    *)
(* retried until it is settled.  A transition that gives up the claim and  *)
(* is then reported as failed can never be repeated with that claim.       *)
(***************************************************************************)
RecordSettles == \A h \in Hosts : queue[h] # None ~> queue[h] = None
=============================================================================
