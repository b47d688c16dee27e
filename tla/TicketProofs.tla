----------------------------- MODULE TicketProofs ----------------------------
(***************************************************************************)
(* The ticket service and the monitors on top of it, for every number of   *)
(* monitors and operators, every set of updates, every lease and every     *)
(* budget of disturbances: TicketInv is inductive, the monitors use the    *)
(* service as it allows, no stored message is lost and, while no operator  *)
(* moves the ticket, the message is acknowledged once and its outcome      *)
(* stays.                                                                  *)
(***************************************************************************)
EXTENDS MonitorInvariants, TLAPS

\* ALLOWED_TRANSITIONS knows exactly the eight statuses of FeedbackTicketStatus.
LEMMA StatusNames ==
  Status = {"RECEIVED", "ACKNOWLEDGED", "IN_PROGRESS", "WAITING_RELEASE", "WAITING_VERIFICATION",
            "CLOSED", "BLOCKED", "REJECTED"}
BY DEF Status, ALLOWED_TRANSITIONS

\* A message that has no ticket yet is in none of the settled statuses.
LEMMA NoneIsUnsettled == None \notin {"WAITING_VERIFICATION", "CLOSED", "REJECTED"}
<1>1. None \notin Status
  BY TicketAssumption
<1> QED BY <1>1, StatusNames

\* A call that does not run is a call.
LEMMA NoCallIsCall == NoCall \in Call
BY StatusNames DEF NoCall, Call, FixInput

\* No message has been received.
LEMMA TicketInitially == TicketInit => TicketInv
<1> SUFFICES ASSUME TicketInit PROVE TicketInv
  OBVIOUS
<1>1. TicketTypeOK
  <2>1. status \in Status \cup {None} /\ claimOwner \in Hosts \cup {None} /\ lease \in 0 .. Lease
    BY TicketAssumption DEF TicketInit
  <2>2. released \in BOOLEAN /\ closedAt \in BOOLEAN
    BY Zenon DEF TicketInit
  <2>3. call \in [Callers -> Call]
    BY NoCallIsCall DEF TicketInit
  <2> QED BY <2>1, <2>2, <2>3 DEF TicketTypeOK
<1>2. CallsAreChecked
  BY DEF TicketInit, CallsAreChecked, NoCall
<1>3. SettledTicket
  <2>1. status = None /\ claimOwner = None /\ lease = 0
    BY DEF TicketInit
  <2> QED BY <2>1, NoneIsUnsettled DEF SettledTicket, TERMINAL_STATUSES
<1> QED BY <1>1, <1>2, <1>3 DEF TicketInv

\* intake grants a claim only on a ticket that is not terminal.
LEMMA IntakeKeepsInv ==
  ASSUME TicketInv, NEW h \in Hosts, Intake(h)
  PROVE  TicketInv'
<1> USE DEF TicketInv, Intake, claimVars
<1>1. TicketTypeOK'
  BY TicketAssumption, StatusNames DEF TicketTypeOK
<1>2. CallsAreChecked'
  BY TicketAssumption, StatusNames DEF CallsAreChecked
<1>3. SettledTicket'
  BY NoneIsUnsettled DEF SettledTicket, Grantable, TERMINAL_STATUSES
<1> QED BY <1>1, <1>2, <1>3

\* A request that begins, is refused or returns touches nothing but its own call.
LEMMA CallerKeepsInv ==
  ASSUME TicketInv, NEW c \in Callers, NEW k \in Call,
         k.step \notin {"begin", "read"} \/ (k.step = "begin" /\ status # None),
         call' = [call EXCEPT ![c] = k],
         UNCHANGED <<status, released, closedAt, claimVars>>
  PROVE  TicketInv'
<1>1. TicketTypeOK'
  BY DEF TicketInv, TicketTypeOK, claimVars
<1>2. CallsAreChecked'
  BY DEF TicketInv, TicketTypeOK, CallsAreChecked
<1>3. SettledTicket'
  BY DEF TicketInv, SettledTicket, claimVars
<1> QED BY <1>1, <1>2, <1>3 DEF TicketInv

\* A transition begins with the status asked for.
LEMMA BeginKeepsInv ==
  ASSUME TicketInv, NEW c \in Callers, NEW to \in Status, NEW input \in FixInput,
         Begin(c, to, input)
  PROVE  TicketInv'
<1> DEFINE k == [NoCall EXCEPT !.step = "begin", !.to = to, !.input = input]
<1>1. k \in Call /\ k.step = "begin"
  BY NoCallIsCall DEF Call, NoCall
<1>2. call' = [call EXCEPT ![c] = k] /\ status # None
  BY DEF Begin
<1> QED BY <1>1, <1>2, CallerKeepsInv DEF Begin

\* The request that ends is no transition any more.
LEMMA RefusalIsCall == [NoCall EXCEPT !.step = "refused"] \in Call /\ [NoCall EXCEPT !.step = "done"] \in Call
BY NoCallIsCall DEF Call, NoCall

\* A request that has read the row still asks for the same, unless it is refused.
LEMMA ReadLeaves ==
  ASSUME TicketInv, NEW c \in Callers, NEW note \in BOOLEAN, TxRead(c, note)
  PROVE  \E k \in Call : /\ call' = [call EXCEPT ![c] = k]
                         /\ k.step = "refused" \/ (k.step = "read" /\ k.to = call[c].to)
<1> DEFINE k == [call[c] EXCEPT !.step = "read", !.from = status, !.fix = FixAfter(c)]
           n == [NoCall EXCEPT !.step = "refused"]
<1>1. call[c] \in Call /\ status \in Status /\ released \in BOOLEAN
  BY DEF TicketInv, TicketTypeOK, CallsAreChecked, TxRead
<1>2. FixAfter(c) \in BOOLEAN
  BY <1>1 DEF FixAfter
<1>3. k \in Call /\ k.step = "read" /\ k.to = call[c].to
  BY <1>1, <1>2 DEF Call
<1>4. n \in Call /\ n.step = "refused"
  BY RefusalIsCall DEF NoCall
<1> HIDE DEF k, n
<1>5. call' = [call EXCEPT ![c] = k] \/ call' = [call EXCEPT ![c] = n]
  BY DEF TxRead, k, n
<1>6. QED
  BY <1>3, <1>4, <1>5

\* The transaction that has read the row has checked version and steps against it.
LEMMA TxReadKeepsInv ==
  ASSUME TicketInv, NEW c \in Callers, NEW note \in BOOLEAN, TxRead(c, note)
  PROVE  TicketInv'
<1> DEFINE k == [call[c] EXCEPT !.step = "read", !.from = status, !.fix = FixAfter(c)]
<1>0. call[c] \in Call /\ status \in Status /\ released \in BOOLEAN
  BY DEF TicketInv, TicketTypeOK, CallsAreChecked, TxRead
<1>1. CASE Valid(c, note)
  <2>1. FixAfter(c) \in BOOLEAN
    BY <1>0 DEF FixAfter
  <2>2. k \in Call /\ k.step = "read" /\ k.to = call[c].to /\ k.fix = FixAfter(c)
    BY <1>0, <2>1 DEF Call
  <2>3. call' = [call EXCEPT ![c] = k]
    BY <1>1 DEF TxRead
  <2>4. k.to \in {"WAITING_VERIFICATION", "CLOSED"} => k.fix
    BY <1>1, <2>2 DEF Valid
  <2>5. TicketTypeOK'
    BY <2>2, <2>3 DEF TicketInv, TicketTypeOK, TxRead, claimVars
  <2>6. CallsAreChecked'
    BY <1>0, <2>2, <2>3, <2>4, TicketAssumption DEF TicketInv, TicketTypeOK, CallsAreChecked, TxRead
  <2>7. SettledTicket'
    BY DEF TicketInv, SettledTicket, TxRead, claimVars
  <2> QED BY <2>5, <2>6, <2>7 DEF TicketInv
<1>2. CASE ~Valid(c, note)
  <2>1. call' = [call EXCEPT ![c] = [NoCall EXCEPT !.step = "refused"]]
    BY <1>2 DEF TxRead
  <2> QED BY <2>1, RefusalIsCall, CallerKeepsInv DEF TxRead, NoCall
<1> QED BY <1>1, <1>2

\* The write overwrites whatever was committed since the read, and leaves a settled ticket complete.
LEMMA TxWriteKeepsInv ==
  ASSUME TicketInv, NEW c \in Callers, TxWrite(c)
  PROVE  TicketInv'
<1>0. call[c] \in Call /\ closedAt \in BOOLEAN
  BY DEF TicketInv, TicketTypeOK
<1>1. status' \in Status /\ released' \in BOOLEAN /\ closedAt' \in BOOLEAN
  BY <1>0 DEF TxWrite, Call
<1>2. call' \in [Callers -> Call]
  BY RefusalIsCall DEF TicketInv, TicketTypeOK, TxWrite
<1>3. claimOwner' \in Hosts \cup {None} /\ lease' \in 0 .. Lease
  BY TicketAssumption DEF TicketInv, TicketTypeOK, TxWrite, claimVars
<1>4. CallsAreChecked'
  BY <1>1, TicketAssumption DEF TicketInv, TicketTypeOK, CallsAreChecked, TxWrite, NoCall
<1>5. SettledTicket'
  BY DEF TicketInv, CallsAreChecked, SettledTicket, TxWrite, Unclaims, TERMINAL_STATUSES
<1> QED BY <1>1, <1>2, <1>3, <1>4, <1>5 DEF TicketInv, TicketTypeOK

\* A request that is given up on moves to a place of its own as it is.
LEMMA AbandonKeepsInv ==
  ASSUME TicketInv, NEW h \in Hosts, Abandon(h)
  PROVE  TicketInv'
<1>0. /\ h \in Callers /\ \A p \in Places : <<h, p>> \in Callers
      /\ call \in [Callers -> Call] /\ call[h] \in Call
  BY DEF Callers, Late, TicketInv, TicketTypeOK
<1>1. CASE call[h].step \in {"begin", "read"}
  <2>1. PICK p \in Places : call' = [call EXCEPT ![<<h, p>>] = call[h], ![h] = NoCall]
    BY <1>1 DEF Abandon
  <2>2. \A c \in Callers : call'[c] \in {call[c], call[h], NoCall}
    BY <1>0, <2>1
  <2>3. TicketTypeOK'
    BY <1>0, <2>1, NoCallIsCall DEF TicketInv, TicketTypeOK, Abandon, claimVars
  <2>4. CallsAreChecked'
    BY <1>0, <2>2 DEF TicketInv, CallsAreChecked, Abandon, NoCall
  <2>5. SettledTicket'
    BY DEF TicketInv, SettledTicket, Abandon, claimVars
  <2>6. QED
    BY <2>3, <2>4, <2>5 DEF TicketInv
<1>2. CASE call[h].step \notin {"begin", "read"}
  BY <1>0, <1>2, NoCallIsCall, CallerKeepsInv DEF Abandon, NoCall
<1>3. QED
  BY <1>1, <1>2

\* Every step of the service keeps it.
LEMMA TicketStep == TicketInv /\ [TicketNext]_ticketVars => TicketInv'
<1> SUFFICES ASSUME TicketInv, [TicketNext]_ticketVars PROVE TicketInv'
  OBVIOUS
<1>1. ASSUME NEW h \in Hosts, RefuseClaimed(h) PROVE TicketInv'
  BY <1>1, RefusalIsCall, CallerKeepsInv DEF RefuseClaimed, NoCall, Callers
<1>2. ASSUME NEW h \in Hosts, NEW to \in Status, BeginClaimed(h, to, TRUE) PROVE TicketInv'
  BY <1>2, BeginKeepsInv DEF BeginClaimed, FixInput, Callers
<1>3. ASSUME NEW o \in Operators, NEW u \in Updates, BeginUpdate(o, u) PROVE TicketInv'
  BY <1>3, BeginKeepsInv, TicketAssumption DEF BeginUpdate, Callers
<1>4. ASSUME NEW c \in Callers, Returns(c) PROVE TicketInv'
  BY <1>4, NoCallIsCall, CallerKeepsInv DEF Returns, NoCall
<1>5. CASE LeaseTick
  BY <1>5, TicketAssumption DEF LeaseTick, TicketInv, TicketTypeOK, CallsAreChecked, SettledTicket
<1>6. CASE UNCHANGED ticketVars
  BY <1>6 DEF ticketVars, claimVars, TicketInv, TicketTypeOK, CallsAreChecked, SettledTicket
<1>7. QED
  BY <1>1, <1>2, <1>3, <1>4, <1>5, <1>6, IntakeKeepsInv, AbandonKeepsInv, TxReadKeepsInv, TxWriteKeepsInv
     DEF TicketNext

\* TicketInv holds in every reachable state of the service.
THEOREM TicketInvariant == TicketSpec => []TicketInv
BY TicketInitially, TicketStep, PTL DEF TicketSpec

\* transition: a released ticket has version and steps, a closed one its closing time, and a
\* terminal one no claim, although the claim is checked outside the transaction and one transition
\* may overwrite another.
THEOREM TicketsSettle == TicketSpec => []SettledTicket
BY TicketInvariant, PTL DEF TicketInv

-----------------------------------------------------------------------------
(***************************************************************************)
(* The records of the monitors.                                            *)
(***************************************************************************)

\* The record enqueue builds is a record.
LEMMA NewRecordType == NewRecord \in Record
BY StatusNames DEF NewRecord, Record, PendingTransition

\* A grant changes nothing in a copy but whether its token is the latest.
LEMMA OutdatedCopy ==
  ASSUME NEW h \in Hosts, NEW f, DOMAIN f = Hosts, NEW g \in Hosts, f[g] \in Record \cup {None}
  PROVE  /\ AfterIntake(h, f)[g] \in Record \cup {None}
         /\ (AfterIntake(h, f)[g] = None) <=> (f[g] = None)
         /\ f[g] # None => /\ AfterIntake(h, f)[g].pending = f[g].pending
                           /\ AfterIntake(h, f)[g].granted = f[g].granted
                           /\ AfterIntake(h, f)[g].acked = f[g].acked
                           /\ AfterIntake(h, f)[g].cst = f[g].cst
                           /\ AfterIntake(h, f)[g].inFlight = f[g].inFlight
                           /\ AfterIntake(h, f)[g].existing = f[g].existing
                           /\ AfterIntake(h, f)[g].ready = f[g].ready
                           /\ Grantable(h) => ~AfterIntake(h, f)[g].latest
<1>1. CASE ~Grantable(h) \/ f[g] = None
  BY <1>1 DEF AfterIntake, Outdate
<1>2. CASE Grantable(h) /\ f[g] # None
  <2> DEFINE o == [f[g] EXCEPT !.latest = FALSE]
  <2>1. AfterIntake(h, f)[g] = o
    BY <1>2 DEF AfterIntake, Outdate
  <2>2. /\ o \in Record /\ o.pending = f[g].pending /\ o.granted = f[g].granted
        /\ o.acked = f[g].acked /\ o.cst = f[g].cst /\ o.latest = FALSE
        /\ o.inFlight = f[g].inFlight /\ o.existing = f[g].existing /\ o.ready = f[g].ready
    BY <1>2 DEF Record
  <2>3. o # None
    BY <2>2, MonitorAssumption
  <2> HIDE DEF o
  <2>4. QED
    BY <1>2, <2>1, <2>2, <2>3
<1>3. QED
  BY <1>1, <1>2

\* It is a function on the hosts with the same files.
LEMMA OutdatedCopies ==
  ASSUME NEW h \in Hosts, NEW f
  PROVE  /\ f \in [Hosts -> Record \cup {None}] => AfterIntake(h, f) \in [Hosts -> Record \cup {None}]
         /\ f \in [Hosts -> Record] => AfterIntake(h, f) \in [Hosts -> Record]
<1>1. f \in [Hosts -> Record \cup {None}] => AfterIntake(h, f) \in [Hosts -> Record \cup {None}]
  BY OutdatedCopy DEF AfterIntake, Outdate
<1>2. f \in [Hosts -> Record] => AfterIntake(h, f) \in [Hosts -> Record]
  BY OutdatedCopy, MonitorAssumption DEF AfterIntake, Outdate
<1>3. QED
  BY <1>1, <1>2

\* The answer of an intake is written into a record.
LEMMA TakeIntakeType ==
  ASSUME TicketInv, NEW h \in Hosts, NEW r \in Record
  PROVE  /\ TakeIntake(h, r) \in Record
         /\ TakeIntake(h, r).pending = r.pending /\ TakeIntake(h, r).acked = r.acked
         /\ TakeIntake(h, r).granted = Grantable(h) /\ TakeIntake(h, r).latest = Grantable(h)
         /\ TakeIntake(h, r).inFlight = r.inFlight /\ TakeIntake(h, r).existing = r.existing
         /\ TakeIntake(h, r).ready = r.ready
         /\ TakeIntake(h, r).cst = IF status = None THEN "RECEIVED" ELSE status
<1>1. Grantable(h) \in BOOLEAN
  BY DEF Grantable
<1>2. (IF status = None THEN "RECEIVED" ELSE status) \in Status
  BY StatusNames DEF TicketInv, TicketTypeOK
<1>3. QED
  BY <1>1, <1>2 DEF TakeIntake, Record

-----------------------------------------------------------------------------
(***************************************************************************)
(* The monitors use the service as it allows.                              *)
(***************************************************************************)

\* A request of the worker asks for a status of the ticket.
LEMMA PatchIsTicketStep ==
  ASSUME MonitorInv, NEW h \in Hosts, Patch(h)
  PROVE  TicketNext
<1>1. Target(h) \in Status
  BY StatusNames DEF Patch, WaitOf, Target, At, MonitorInv, MonitorTypeOK, PassOK, Record, PendingTransition
<1>2. CASE RefuseClaimed(h)
  BY <1>2 DEF TicketNext
<1>3. CASE BeginClaimed(h, Target(h), wrec[h].latest)
  <2>1. BeginClaimed(h, Target(h), TRUE)
    BY <1>3 DEF BeginClaimed, Claimed
  <2>2. QED
    BY <1>1, <2>1 DEF TicketNext
<1>4. QED
  BY <1>2, <1>3 DEF Patch

\* Control's answer, or Desk's failure after it, ends the request, or the monitor gives up on it.
LEMMA AnswerIsTicketStep ==
  ASSUME NEW h \in Hosts, NEW ok \in BOOLEAN, ControlAnswers(h, ok) \/ DeskFails(h)
  PROVE  Returns(h) \/ Abandon(h)
BY DEF ControlAnswers, DeskFails

\* Then the monitor waits for nothing, and what has not answered runs on in a place of its own.
LEMMA AnsweredRequests ==
  ASSUME call \in [Callers -> Call], NEW h \in Hosts, Returns(h) \/ Abandon(h)
  PROVE  /\ call'[h] = NoCall /\ call' \in [Callers -> Call]
         /\ \A c \in Callers \ ({h} \cup Late) : call'[c] = call[c]
         /\ \A c \in Late : \/ call'[c] = call[c]
                            \/ c \in {h} \X Places /\ call[c] = NoCall /\ Active(h) /\ call'[c] = call[h]
<1>1. /\ h \in Callers /\ h \notin Late /\ NoCall \in Call
      /\ \A p \in Places : <<h, p>> \in Late /\ <<h, p>> \in Callers /\ <<h, p>> # h
  BY NoCallIsCall, TicketAssumption DEF Callers, Late
<1>2. CASE call' = [call EXCEPT ![h] = NoCall]
  BY <1>1, <1>2
<1>3. CASE Abandon(h) /\ call[h].step \in {"begin", "read"}
  <2>1. PICK p \in Places : /\ call[<<h, p>>] = NoCall
                            /\ call' = [call EXCEPT ![<<h, p>>] = call[h], ![h] = NoCall]
    BY <1>3 DEF Abandon
  <2>2. /\ call'[h] = NoCall /\ call'[<<h, p>>] = call[h] /\ call' \in [Callers -> Call]
        /\ \A c \in Callers \ {h, <<h, p>>} : call'[c] = call[c]
    BY <1>1, <2>1
  <2>3. <<h, p>> \in {h} \X Places
    OBVIOUS
  <2>4. Late \subseteq Callers
    BY DEF Callers
  <2>5. QED
    BY <1>1, <1>3, <2>1, <2>2, <2>3, <2>4 DEF Active
<1>4. QED
  BY <1>2, <1>3 DEF Returns, Abandon

\* Every step of the monitors is a step of the ticket service or leaves the ticket alone.
LEMMA MonitorTicketStep == MonitorInv /\ [MonitorNext]_monitorVars => [TicketNext]_ticketVars
<1> SUFFICES ASSUME MonitorInv, [MonitorNext]_monitorVars PROVE TicketNext \/ UNCHANGED ticketVars
  OBVIOUS
<1>1. ASSUME NEW h \in Hosts, Intake(h) \/ Abandon(h) PROVE TicketNext
  BY <1>1 DEF TicketNext
<1>2. ASSUME NEW c \in Callers, Returns(c) \/ TxWrite(c) \/ \E note \in BOOLEAN : TxRead(c, note)
      PROVE  TicketNext
  BY <1>2 DEF TicketNext
<1>3. ASSUME NEW h \in Hosts, WorkerStep(h) PROVE TicketNext \/ UNCHANGED ticketVars
  <2>1. CASE StartPass(h) \/ Route(h) \/ WorkerDesk(h) \/ Reconcile(h) \/ Reply(h) \/ AfterAck(h)
    BY <2>1 DEF StartPass, Route, WorkerDesk, Reconcile, Reply, AfterAck
  <2>2. CASE \/ StartWorker(h) \/ Unlink(h) \/ \E ok \in BOOLEAN : CodexExit(h, ok)
             \/ \E stale \in BOOLEAN : Boot(h, stale)
    BY <2>2 DEF StartWorker, Unlink, CodexExit, Boot
  <2>3. CASE WorkerIntake(h) \/ Refresh(h)
    BY <1>1, <2>3 DEF WorkerIntake, Refresh, WorkerTakes, IntakeUnanswered
  <2>4. CASE Patch(h)
    BY <2>4, PatchIsTicketStep
  <2>5. CASE AckDone(h) \/ PendingApplied(h) \/ PendingWaits(h) \/ Quarantine(h)
    <3>1. Returns(h) \/ Abandon(h)
      BY <2>5, AnswerIsTicketStep DEF AckDone, PendingApplied, Applied, PendingWaits, Quarantine
    <3>2. QED
      BY <1>1, <1>2, <3>1 DEF Callers
  <2>6. QED
    BY <1>3, <2>1, <2>2, <2>3, <2>4, <2>5 DEF WorkerStep
<1>4. ASSUME NEW h \in Hosts, PollStep(h) PROVE TicketNext \/ UNCHANGED ticketVars
  BY <1>1, <1>4 DEF PollStep, PollIntake, PollDesk, Watch, IntakeUnanswered
<1>5. ASSUME NEW h \in Hosts, LateIntake(h) \/ Crash(h) PROVE TicketNext
  BY <1>1, <1>5 DEF LateIntake, Crash
<1>6. ASSUME NEW c \in Callers,
             TransitionWrites(c) \/ RequestReturns(c) \/ \E note \in BOOLEAN : TransitionReads(c, note)
      PROVE  TicketNext
  BY <1>2, <1>6 DEF TransitionWrites, RequestReturns, TransitionReads
<1>7. ASSUME NEW o \in Operators, NEW u \in Updates, OperatorUpdates(o, u) PROVE TicketNext
  BY <1>7 DEF OperatorUpdates, TicketNext
<1>8. CASE ForegroundReplies \/ Tick
  BY <1>8 DEF ForegroundReplies, Tick, TicketNext
<1>9. CASE UNCHANGED monitorVars
  BY <1>9 DEF monitorVars
<1>10. QED
  BY <1>3, <1>4, <1>5, <1>6, <1>7, <1>8, <1>9 DEF MonitorNext, Callers

-----------------------------------------------------------------------------
(***************************************************************************)
(* Types, and no stored message is lost.                                   *)
(***************************************************************************)

\* Initially nothing is stored.
LEMMA MonitorInitially == MonitorInit => MonitorInv
<1> SUFFICES ASSUME MonitorInit PROVE MonitorInv
  OBVIOUS
<1>1. takenBack \in BOOLEAN
  BY Zenon DEF MonitorInit
<1>2. MonitorTypeOK
  BY <1>1, NewRecordType DEF MonitorInit, MonitorTypeOK, WorkerSteps
<1>3. PassOK /\ RecordSurvives
  BY DEF MonitorInit, PassOK, RecordSurvives
<1>4. QED
  BY <1>2, <1>3 DEF MonitorInv

\* An intake whose answer is lost leaves every copy a record.
LEMMA UnansweredTypes ==
  ASSUME MonitorInv, NEW h \in Hosts, NEW mine \in Record, NEW w \in [Hosts -> Record],
         IntakeUnanswered(h, mine, w)
  PROVE  /\ wrec' \in [Hosts -> Record] /\ prec' \in [Hosts -> Record]
         /\ queue' \in [Hosts -> Record \cup {None}]
         /\ \A g \in Hosts : queue'[g] = None => queue[g] = None
         /\ queue'[h] # None
         /\ \A g \in Hosts : wrec'[g].pending = w[g].pending
         /\ faults' \in Nat /\ UNCHANGED <<crashes, updates, overlaps>>
         /\ delayed' \subseteq Hosts
<1> DEFINE q == [queue EXCEPT ![h] = mine]
<1>1. q \in [Hosts -> Record \cup {None}] /\ q[h] = mine /\ \A g \in Hosts \ {h} : q[g] = queue[g]
  BY DEF MonitorInv, MonitorTypeOK
<1>2. mine # None
  BY MonitorAssumption
<1>3. faults' \in Nat /\ UNCHANGED <<crashes, updates, overlaps>> /\ delayed' \subseteq Hosts
  BY DEF IntakeUnanswered, Fault, MonitorInv, MonitorTypeOK
<1>4. CASE /\ wrec' = AfterIntake(h, w) /\ prec' = AfterIntake(h, prec) /\ queue' = AfterIntake(h, q)
  <2>1. prec \in [Hosts -> Record]
    BY DEF MonitorInv, MonitorTypeOK
  <2>2. \A g \in Hosts : w[g] # None
    BY MonitorAssumption
  <2> HIDE DEF q
  <2>3. \A g \in Hosts : /\ (queue'[g] = None) <=> (q[g] = None)
                         /\ wrec'[g].pending = w[g].pending
    BY <1>1, <1>4, <2>2, OutdatedCopy
  <2>4. /\ wrec' \in [Hosts -> Record] /\ prec' \in [Hosts -> Record]
        /\ queue' \in [Hosts -> Record \cup {None}]
    BY <1>1, <1>4, <2>1, OutdatedCopies
  <2>5. QED
    BY <1>1, <1>2, <1>3, <2>3, <2>4
<1>5. CASE UNCHANGED prec /\ wrec' = w /\ queue' = q
  BY <1>1, <1>2, <1>3, <1>5 DEF MonitorInv, MonitorTypeOK
<1>6. QED
  BY <1>4, <1>5 DEF IntakeUnanswered

\* So does one whose answer the worker takes.
LEMMA TakenTypes ==
  ASSUME TicketInv, MonitorInv, NEW h \in Hosts, WorkerTakes(h)
  PROVE  /\ wrec' \in [Hosts -> Record] /\ prec' \in [Hosts -> Record]
         /\ queue' \in [Hosts -> Record \cup {None}]
         /\ \A g \in Hosts : queue'[g] = None => queue[g] = None
         /\ queue'[h] # None
         /\ \A g \in Hosts : wrec'[g].pending = wrec[g].pending
<1>1. /\ wrec \in [Hosts -> Record] /\ prec \in [Hosts -> Record] /\ queue \in [Hosts -> Record \cup {None}]
  BY DEF MonitorInv, MonitorTypeOK
<1>2. \A g \in Hosts : wrec[g] # None
  BY <1>1, MonitorAssumption
<1>3. /\ TakeIntake(h, wrec[h]) \in Record /\ TakeIntake(h, wrec[h]).pending = wrec[h].pending
  BY <1>1, TakeIntakeType
<1>4. /\ AfterIntake(h, wrec) \in [Hosts -> Record] /\ AfterIntake(h, prec) \in [Hosts -> Record]
      /\ AfterIntake(h, queue) \in [Hosts -> Record \cup {None}]
  BY <1>1, OutdatedCopies
<1>5. \A g \in Hosts : /\ (AfterIntake(h, queue)[g] = None) <=> (queue[g] = None)
                       /\ AfterIntake(h, wrec)[g].pending = wrec[g].pending
  BY <1>1, <1>2, OutdatedCopy
<1>6. TakeIntake(h, wrec[h]) # None
  BY <1>3, MonitorAssumption
<1>7. QED
  BY <1>3, <1>4, <1>5, <1>6 DEF WorkerTakes

\* What the worker writes into its copy keeps it a record; only queueing and applying a transition
\* change the pending one.
LEMMA RecordEdits ==
  ASSUME NEW r \in Record
  PROVE  /\ \A d \in {"task", "fingerprint"} : [r EXCEPT !.desk = d] \in Record
         /\ \A e \in BOOLEAN :
              [r EXCEPT !.acked = TRUE, !.inFlight = FALSE, !.existing = e] \in Record
         /\ [r EXCEPT !.acked = TRUE, !.inFlight = FALSE] \in Record
         /\ \A e \in BOOLEAN : [r EXCEPT !.inFlight = e] \in Record
         /\ [r EXCEPT !.cst = "ACKNOWLEDGED"] \in Record
         /\ [r EXCEPT !.ready = FALSE, !.attempts = @ + 1] \in Record
         /\ r.pending # "none" =>
              /\ [r EXCEPT !.cst = r.pending] \in Record
              /\ [r EXCEPT !.cst = r.pending, !.pending = "none", !.ready = TRUE] \in Record
         /\ \A t \in PendingTransition : /\ [r EXCEPT !.pending = t] \in Record
                                         /\ [r EXCEPT !.pending = t].pending = t
<1> USE DEF Record
<1>1. \A d \in {"task", "fingerprint"} : [r EXCEPT !.desk = d] \in Record
  OBVIOUS
<1>2. \A e \in BOOLEAN : /\ [r EXCEPT !.acked = TRUE, !.inFlight = FALSE, !.existing = e] \in Record
                         /\ [r EXCEPT !.inFlight = e] \in Record
  OBVIOUS
<1>3. [r EXCEPT !.acked = TRUE, !.inFlight = FALSE] \in Record
  OBVIOUS
<1>4. [r EXCEPT !.cst = "ACKNOWLEDGED"] \in Record
  BY StatusNames
<1>5. [r EXCEPT !.ready = FALSE, !.attempts = @ + 1] \in Record
  <2>1. r.attempts + 1 \in Nat
    OBVIOUS
  <2>2. QED
    BY <2>1
<1>6. ASSUME r.pending # "none"
      PROVE  /\ [r EXCEPT !.cst = r.pending] \in Record
             /\ [r EXCEPT !.cst = r.pending, !.pending = "none", !.ready = TRUE] \in Record
  <2>1. r.pending \in Status
    BY <1>6, StatusNames DEF PendingTransition
  <2>2. QED
    BY <2>1 DEF PendingTransition
<1>7. \A t \in PendingTransition : /\ [r EXCEPT !.pending = t] \in Record
                                   /\ [r EXCEPT !.pending = t].pending = t
  OBVIOUS
<1> HIDE DEF Record
<1>8. QED
  BY <1>1, <1>2, <1>3, <1>4, <1>5, <1>6, <1>7

\* A step of a pass of h to pc that leaves r in memory and q in the queue and archives it, or not.
PassMoves(h, pc, r, q) ==
  /\ pc \in WorkerSteps /\ r \in Record /\ q \in Record
  /\ wpc' = [wpc EXCEPT ![h] = pc] /\ wrec' = [wrec EXCEPT ![h] = r] /\ queue' = [queue EXCEPT ![h] = q]
  /\ pc \in {"resume", "resumeWait", "pend", "pendWait"} => r.pending # "none"
  /\ \/ UNCHANGED ended /\ pc # "unlink"
     \/ \E o \in Outcomes : ended' = [ended EXCEPT ![h] = @ \cup {o}]

\* It touches nothing of the poll thread's.
PassLeaves(h) ==
  /\ UNCHANGED <<ppc, prec>> /\ aged' \subseteq Hosts /\ refreshDue' \subseteq Hosts
  /\ acks' \in Nat /\ worked' \subseteq worked \cup {h} /\ UNCHANGED <<takenBack, delayed, expired>>
  /\ faults' \in Nat /\ crashes' \in Nat /\ updates' \in Nat /\ overlaps' \in Nat

\* Such a step keeps the types and loses nothing.
LEMMA PassKeepsInv ==
  ASSUME MonitorInv, NEW h \in Hosts, NEW pc, NEW r, NEW q, PassMoves(h, pc, r, q), PassLeaves(h)
  PROVE  MonitorInv'
<1> USE DEF PassMoves, PassLeaves
<1>0. q # None
  BY MonitorAssumption
<1>1. /\ ended' \in [Hosts -> SUBSET Outcomes] /\ \A g \in Hosts : ended[g] \subseteq ended'[g]
      /\ pc = "unlink" => ended'[h] # {}
  BY DEF MonitorInv, MonitorTypeOK
<1>2. MonitorTypeOK'
  BY <1>1 DEF MonitorInv, MonitorTypeOK
<1>3. PassOK'
  BY <1>0, <1>1 DEF MonitorInv, MonitorTypeOK, PassOK
<1>4. RecordSurvives'
  BY <1>0, <1>1 DEF MonitorInv, MonitorTypeOK, RecordSurvives
<1>5. QED
  BY <1>2, <1>3, <1>4 DEF MonitorInv

\* Every step of a pass that does not ask for a claim is such a step.
LEMMA WorkerMoves ==
  ASSUME MonitorInv, NEW h \in Hosts,
         \/ StartPass(h) \/ Route(h) \/ WorkerDesk(h) \/ Reconcile(h) \/ Reply(h) \/ Patch(h)
         \/ AckDone(h) \/ PendingApplied(h) \/ PendingWaits(h) \/ AfterAck(h) \/ StartWorker(h)
         \/ Quarantine(h) \/ \E ok \in BOOLEAN : CodexExit(h, ok)
  PROVE  PassLeaves(h) /\ \E pc, r, q : PassMoves(h, pc, r, q)
<1> USE DEF At, Goto, Save, Forget, Pause, Archive, Queue, Run, worldVars, threadVars, boundVars
<1>1. /\ queue \in [Hosts -> Record \cup {None}] /\ wrec \in [Hosts -> Record]
      /\ wpc \in [Hosts -> WorkerSteps] /\ wrec[h] \in Record
      /\ wpc[h] \notin {"idle", "down"} => queue[h] \in Record
      /\ wpc[h] \in {"resume", "resumeWait", "pend", "pendWait"} => wrec[h].pending # "none"
      /\ wrec = [wrec EXCEPT ![h] = wrec[h]] /\ queue = [queue EXCEPT ![h] = queue[h]]
  BY DEF MonitorInv, MonitorTypeOK, PassOK
<1>2. /\ aged \subseteq Hosts /\ refreshDue \subseteq Hosts /\ acks \in Nat /\ acks + 1 \in Nat
      /\ faults \in Nat /\ faults + 1 \in Nat /\ crashes \in Nat /\ updates \in Nat
      /\ overlaps \in Nat /\ overlaps + 1 \in Nat
  BY DEF MonitorInv, MonitorTypeOK
<1> DEFINE Moves == \E pc, r, q : PassMoves(h, pc, r, q)
<1> USE DEF PassMoves, PassLeaves, WorkerSteps
<1>3. CASE StartPass(h)
  <2>1. PassLeaves(h)
    BY <1>2, <1>3 DEF StartPass
  <2>2. \E pc \in {"resume", "intake", "route"} : PassMoves(h, pc, queue[h], queue[h])
    BY <1>1, <1>3 DEF StartPass
  <2>3. QED
    BY <2>1, <2>2
<1>4. CASE Route(h)
  <2>1. PassLeaves(h)
    BY <1>2, <1>4 DEF Route
  <2>2. \/ PassMoves(h, "unlink", NewRecord, queue[h])
        \/ \E pc \in {"desk", "next", "reconcile"} : PassMoves(h, pc, wrec[h], queue[h])
    BY <1>1, <1>4, NewRecordType DEF Route, Outcomes
  <2>3. QED
    BY <2>1, <2>2
<1>5. CASE WorkerDesk(h)
  <2>1. PassLeaves(h)
    BY <1>2, <1>5 DEF WorkerDesk, Fault
  <2>2. \/ \E r \in Record : PassMoves(h, "route", r, r)
        \/ PassMoves(h, "idle", NewRecord, wrec[h])
    BY <1>1, <1>5, NewRecordType, RecordEdits DEF WorkerDesk
  <2>3. QED
    BY <2>1, <2>2
<1>6. CASE Reconcile(h)
  <2>1. PassLeaves(h)
    BY <1>2, <1>6 DEF Reconcile, Fault
  <2>2. OwnedElsewhere(h) \in BOOLEAN
    BY DEF OwnedElsewhere
  <2>3. \/ PassMoves(h, "idle", NewRecord, wrec[h])
        \/ \E r \in Record : PassMoves(h, "ackSync", r, queue[h])
        \/ \E r \in Record : PassMoves(h, "reply", r, r)
    BY <1>1, <1>6, <2>2, NewRecordType, RecordEdits DEF Reconcile
  <2>4. QED
    BY <2>1, <2>3
<1>7. CASE Reply(h)
  <2>1. PassLeaves(h)
    BY <1>2, <1>7 DEF Reply, Fault
  <2>2. \/ \E r \in Record : PassMoves(h, "ackSync", r, queue[h])
        \/ \E r \in Record : PassMoves(h, "idle", NewRecord, r)
    BY <1>1, <1>7, NewRecordType, RecordEdits DEF Reply
  <2>3. QED
    BY <2>1, <2>2
<1>8. CASE Patch(h)
  <2>1. PassLeaves(h)
    BY <1>2, <1>8 DEF Patch, Fault
  <2>2. \E pc \in {"ackWait", "resumeWait", "pendWait", "bootWait"} : PassMoves(h, pc, wrec[h], queue[h])
    <3>1. /\ wpc[h] \in {"ackSync", "resume", "pend", "boot"}
          /\ WaitOf[wpc[h]] \in {"ackWait", "resumeWait", "pendWait", "bootWait"}
          /\ wpc[h] \in {"ackSync", "boot"} => WaitOf[wpc[h]] \in {"ackWait", "bootWait"}
      BY <1>8 DEF Patch, WaitOf
    <3>2. PassMoves(h, WaitOf[wpc[h]], wrec[h], queue[h])
      BY <1>1, <1>8, <3>1 DEF Patch
    <3>3. QED
      BY <3>1, <3>2
  <2>3. QED
    BY <2>1, <2>2
<1>9. CASE AckDone(h)
  <2>1. PassLeaves(h)
    BY <1>2, <1>9 DEF AckDone, ControlAnswers, Fault, Synced
  <2>2. \E r \in Record : PassMoves(h, "next", r, r)
    BY <1>1, <1>9, RecordEdits DEF AckDone
  <2>3. QED
    BY <2>1, <2>2
<1>10. CASE PendingApplied(h)
  <2>1. PassLeaves(h)
    BY <1>2, <1>10 DEF PendingApplied, Applied, ControlAnswers, Fault, Synced
  <2>2. \/ \E r \in Record : PassMoves(h, "start", r, r) \/ PassMoves(h, "idle", NewRecord, r)
        \/ PassMoves(h, "unlink", NewRecord, queue[h])
    <3>1. CASE wrec[h].pending = "IN_PROGRESS"
      BY <1>1, <1>10, <3>1, NewRecordType, RecordEdits DEF PendingApplied
    <3>2. CASE wrec[h].pending # "IN_PROGRESS"
      <4>1. wrec[h].pending \in {"WAITING_RELEASE", "BLOCKED", "REJECTED"}
        BY <1>1, <1>10, <3>2 DEF PendingApplied, Record, PendingTransition
      <4>2. OutcomeOf[wrec[h].pending] \in Outcomes
        BY <4>1 DEF OutcomeOf, Outcomes
      <4>3. QED
        BY <1>1, <1>10, <3>2, <4>2, NewRecordType DEF PendingApplied
    <3>3. QED
      BY <3>1, <3>2
  <2>3. QED
    BY <2>1, <2>2
<1>11. CASE PendingWaits(h)
  <2>1. PassLeaves(h)
    BY <1>2, <1>11 DEF PendingWaits, ControlAnswers, DeskFails, Fault
  <2>2. \E r \in Record : PassMoves(h, "idle", NewRecord, r)
    BY <1>1, <1>11, NewRecordType, RecordEdits DEF PendingWaits
  <2>3. QED
    BY <2>1, <2>2
<1>12. CASE AfterAck(h)
  <2>1. PassLeaves(h)
    BY <1>2, <1>12 DEF AfterAck
  <2>2. \/ \E r \in Record : PassMoves(h, "pend", r, r) \/ PassMoves(h, "running", r, r)
        \/ PassMoves(h, "unlink", NewRecord, queue[h])
    BY <1>1, <1>12, NewRecordType, RecordEdits DEF AfterAck, PendingTransition, Outcomes
  <2>3. QED
    BY <2>1, <2>2
<1>13. CASE StartWorker(h)
  <2>1. PassLeaves(h)
    BY <1>2, <1>13 DEF StartWorker
  <2>2. \/ \E r \in Record : PassMoves(h, "running", r, r)
        \/ PassMoves(h, "unlink", NewRecord, queue[h])
    BY <1>1, <1>13, NewRecordType, RecordEdits DEF StartWorker, Outcomes
  <2>3. QED
    BY <2>1, <2>2
<1>14. CASE Quarantine(h)
  <2>1. PassLeaves(h)
    BY <1>2, <1>14 DEF Quarantine, ControlAnswers, Fault, Synced
  <2>2. PassMoves(h, "unlink", NewRecord, queue[h])
    BY <1>1, <1>14, NewRecordType DEF Quarantine, Outcomes
  <2>3. QED
    BY <2>1, <2>2
<1>15. CASE \E ok \in BOOLEAN : CodexExit(h, ok)
  <2>1. PassLeaves(h)
    BY <1>2, <1>15 DEF CodexExit
  <2>2. \E r \in Record : PassMoves(h, "pend", r, r) \/ PassMoves(h, "idle", NewRecord, r)
    BY <1>1, <1>15, NewRecordType, RecordEdits DEF CodexExit, PendingTransition
  <2>3. QED
    BY <2>1, <2>2
<1>16. QED
  BY <1>3, <1>4, <1>5, <1>6, <1>7, <1>8, <1>9, <1>10, <1>11, <1>12, <1>13, <1>14, <1>15

\* Every step keeps the types, and the queue file until the archived copy exists.
LEMMA MonitorStep == TicketInv /\ MonitorInv /\ [MonitorNext]_monitorVars => MonitorInv'
<1> SUFFICES ASSUME TicketInv, MonitorInv, [MonitorNext]_monitorVars PROVE MonitorInv'
  OBVIOUS
<1> USE NewRecordType, MonitorAssumption
    DEF At, Goto, Save, Forget, Pause, Archive, Queue, Run, workVars, worldVars, threadVars, boundVars
<1>1. ASSUME NEW h \in Hosts, WorkerStep(h) PROVE MonitorInv'
  <2>1. CASE WorkerIntake(h) \/ Refresh(h)
    <3> DEFINE w == IF At(h, "intake") THEN [wrec EXCEPT ![h] = NewRecord] ELSE wrec
    <3>1. /\ wrec[h] \in Record /\ w \in [Hosts -> Record]
          /\ \A g \in Hosts : w[g].pending \in {wrec[g].pending, "none"} /\ (g # h => w[g] = wrec[g])
      BY DEF MonitorInv, MonitorTypeOK, NewRecord
    <3>2. \/ WorkerTakes(h) /\ UNCHANGED boundVars
          \/ IntakeUnanswered(h, wrec[h], w) /\ UNCHANGED aged
      BY <2>1 DEF WorkerIntake, Refresh
    <3>3. /\ wrec' \in [Hosts -> Record] /\ prec' \in [Hosts -> Record]
          /\ queue' \in [Hosts -> Record \cup {None}]
          /\ \A g \in Hosts : queue'[g] = None => queue[g] = None
          /\ queue'[h] # None
          /\ \A g \in Hosts \ {h} : wrec'[g].pending = wrec[g].pending
          /\ UNCHANGED boundVars \/ (faults' \in Nat /\ UNCHANGED <<crashes, updates, overlaps>>)
          /\ aged' \in {aged, aged \ {h}} /\ delayed' \subseteq Hosts
      <4> HIDE DEF w
      <4>1. CASE WorkerTakes(h) /\ UNCHANGED boundVars
        BY <4>1, TakenTypes DEF WorkerTakes, MonitorInv, MonitorTypeOK
      <4>2. CASE IntakeUnanswered(h, wrec[h], w) /\ UNCHANGED aged
        BY <3>1, <4>2, UnansweredTypes
      <4>3. QED
        BY <3>2, <4>1, <4>2
    <3>4. /\ \E pc \in {"idle", "route", "running", "lost"} : wpc' = [wpc EXCEPT ![h] = pc]
          /\ UNCHANGED <<ended, ppc, acks, worked, takenBack, expired>> /\ refreshDue' \in {refreshDue, refreshDue \ {h}}
      BY <2>1 DEF WorkerIntake, Refresh
    <3>5. MonitorTypeOK'
      BY <3>3, <3>4 DEF MonitorInv, MonitorTypeOK, WorkerSteps
    <3>6. PassOK' /\ RecordSurvives'
      BY <3>3, <3>4 DEF MonitorInv, MonitorTypeOK, PassOK, RecordSurvives
    <3>7. QED
      BY <3>5, <3>6 DEF MonitorInv
  <2>3. CASE Unlink(h)
    BY <2>3 DEF Unlink, MonitorInv, MonitorTypeOK, PassOK, RecordSurvives, WorkerSteps
  <2>4. CASE \E stale \in BOOLEAN : Boot(h, stale)
    BY <2>4 DEF Boot, MonitorInv, MonitorTypeOK, PassOK, RecordSurvives, WorkerSteps, Outcomes
  <2>5. QED
    BY <1>1, <2>1, <2>3, <2>4, WorkerMoves, PassKeepsInv DEF WorkerStep
<1>2. ASSUME NEW h \in Hosts, PollStep(h) PROVE MonitorInv'
  <2> USE DEF MonitorInv, MonitorTypeOK, PassOK, RecordSurvives, Outcomes
  <2>1. ASSUME NEW stale \in BOOLEAN, Watch(h, stale) PROVE MonitorInv'
    <3>1. CASE stale
      <4>1. /\ ended' = [ended EXCEPT ![h] = {"skipped"}] /\ ppc' = [ppc EXCEPT ![h] = "idle"]
            /\ UNCHANGED <<queue, wpc, wrec, prec, aged, refreshDue, worldVars, boundVars>>
        BY <2>1, <3>1 DEF Watch
      <4>2. /\ ended' \in [Hosts -> SUBSET Outcomes] /\ ended'[h] # {}
            /\ \A g \in Hosts \ {h} : ended'[g] = ended[g]
        BY <4>1
      <4>3. MonitorTypeOK'
        BY <4>1, <4>2
      <4>4. PassOK' /\ RecordSurvives'
        BY <4>1, <4>2
      <4>5. QED
        BY <4>3, <4>4
    <3>2. CASE ~stale
      BY <2>1, <3>2 DEF Watch
    <3>3. QED
      BY <3>1, <3>2
  <2>2. CASE PollIntake(h)
    <3>1. /\ TakeIntake(h, NewRecord) \in Record /\ TakeIntake(h, NewRecord) # None
      BY TakeIntakeType
    <3>2. CASE IntakeUnanswered(h, NewRecord, wrec) /\ UNCHANGED aged
      <4>1. /\ wrec' \in [Hosts -> Record] /\ prec' \in [Hosts -> Record]
            /\ queue' \in [Hosts -> Record \cup {None}] /\ queue'[h] # None
            /\ \A g \in Hosts : queue'[g] = None => queue[g] = None
            /\ \A g \in Hosts : wrec'[g].pending = wrec[g].pending
            /\ faults' \in Nat /\ delayed' \subseteq Hosts
        BY <3>2, UnansweredTypes
      <4>2. /\ ppc' = [ppc EXCEPT ![h] = "desk"]
            /\ UNCHANGED <<ended, wpc, aged, refreshDue, expired, threadVars, crashes, updates, overlaps>>
        BY <2>2, <3>2 DEF PollIntake, IntakeUnanswered, Fault
      <4> HIDE DEF At, Goto, Save, Forget, Pause, Archive, Queue, Run
      <4>3. MonitorTypeOK'
        BY <4>1, <4>2
      <4>4. PassOK' /\ RecordSurvives'
        BY <4>1, <4>2
      <4>5. QED
        BY <4>3, <4>4
    <3>3. ASSUME ~(IntakeUnanswered(h, NewRecord, wrec) /\ UNCHANGED aged) PROVE MonitorInv'
      <4>1. /\ AfterIntake(h, wrec) \in [Hosts -> Record] /\ AfterIntake(h, prec) \in [Hosts -> Record]
            /\ AfterIntake(h, queue) \in [Hosts -> Record \cup {None}]
        BY OutdatedCopies
      <4>2. \A g \in Hosts : /\ (AfterIntake(h, queue)[g] = None) <=> (queue[g] = None)
                             /\ AfterIntake(h, wrec)[g].pending = wrec[g].pending
        BY OutdatedCopy
      <4>3. QED
        <5>1. /\ wrec' = AfterIntake(h, wrec)
              /\ prec' = [AfterIntake(h, prec) EXCEPT ![h] = TakeIntake(h, NewRecord)]
              /\ queue' = [AfterIntake(h, queue) EXCEPT ![h] = prec'[h]]
              /\ ppc' = [ppc EXCEPT ![h] = "desk"] /\ aged' = aged \ {h}
              /\ UNCHANGED <<ended, wpc, refreshDue, worldVars, faults, crashes, updates, overlaps>>
          BY <2>2, <3>3 DEF PollIntake
        <5>2. prec' \in [Hosts -> Record] /\ prec'[h] = TakeIntake(h, NewRecord)
          BY <3>1, <4>1, <5>1
        <5>3. /\ queue' \in [Hosts -> Record \cup {None}] /\ queue'[h] # None
              /\ \A g \in Hosts : queue'[g] = None => queue[g] = None
          BY <3>1, <4>1, <4>2, <5>1, <5>2
        <5>4. QED
          BY <4>1, <4>2, <5>1, <5>2, <5>3
    <3>4. QED
      BY <3>2, <3>3
  <2>3. CASE PollDesk(h)
    <3>1. \A d \in {"task", "fingerprint"} : [prec[h] EXCEPT !.desk = d] \in Record
      BY DEF Record
    <3>2. QED
      BY <2>3, <3>1 DEF PollDesk, Fault
  <2>4. QED
    BY <1>2, <2>1, <2>2, <2>3 DEF PollStep
<1>3. ASSUME NEW h \in Hosts, Crash(h) PROVE MonitorInv'
  BY <1>3 DEF Crash, MonitorInv, MonitorTypeOK, PassOK, RecordSurvives, WorkerSteps
<1>4. CASE Tick \/ ForegroundReplies
  BY <1>4 DEF Tick, ForegroundReplies, MonitorInv, MonitorTypeOK, PassOK, RecordSurvives
<1>5. ASSUME NEW o \in Operators, NEW u \in Updates, OperatorUpdates(o, u) PROVE MonitorInv'
  BY <1>5 DEF OperatorUpdates, MonitorInv, MonitorTypeOK, PassOK, RecordSurvives
<1>6. ASSUME UNCHANGED <<workVars, worldVars, boundVars>> PROVE MonitorInv'
  BY <1>6 DEF MonitorInv, MonitorTypeOK, PassOK, RecordSurvives
<1>7. ASSUME NEW c \in Callers, TransitionWrites(c) PROVE MonitorInv'
  <2>1. TakesBack(c) \in BOOLEAN
    BY DEF TakesBack
  <2>2. QED
    BY <1>7, <2>1 DEF TransitionWrites, MonitorInv, MonitorTypeOK, PassOK, RecordSurvives
<1>8. ASSUME NEW h \in Hosts, LateIntake(h) PROVE MonitorInv'
  <2> USE DEF MonitorInv, MonitorTypeOK
  <2>1. /\ AfterIntake(h, wrec) \in [Hosts -> Record] /\ AfterIntake(h, prec) \in [Hosts -> Record]
        /\ AfterIntake(h, queue) \in [Hosts -> Record \cup {None}]
    BY OutdatedCopies
  <2>2. \A g \in Hosts : /\ (AfterIntake(h, queue)[g] = None) <=> (queue[g] = None)
                         /\ AfterIntake(h, wrec)[g].pending = wrec[g].pending
    BY OutdatedCopy
  <2>3. /\ wrec' = AfterIntake(h, wrec) /\ prec' = AfterIntake(h, prec) /\ queue' = AfterIntake(h, queue)
        /\ delayed' \subseteq Hosts
        /\ UNCHANGED <<ended, wpc, ppc, aged, refreshDue, expired, threadVars, boundVars>>
    BY <1>8 DEF LateIntake
  <2>4. MonitorTypeOK'
    BY <2>1, <2>3
  <2>5. PassOK' /\ RecordSurvives'
    BY <2>2, <2>3 DEF PassOK, RecordSurvives
  <2>6. QED
    BY <2>4, <2>5
<1>9. QED
  BY <1>1, <1>2, <1>3, <1>4, <1>5, <1>6, <1>7, <1>8 DEF MonitorNext, TransitionReads, RequestReturns, monitorVars

\* The types and the files hold in every behaviour of the monitors, and the ticket is the service's.
THEOREM MonitorInvariant == MonitorSpec => [](TicketInv /\ MonitorInv)
<1>1. MonitorInit => TicketInv /\ MonitorInv
  BY TicketInitially, MonitorInitially DEF MonitorInit
<1>2. TicketInv /\ MonitorInv /\ [MonitorNext]_monitorVars => (TicketInv /\ MonitorInv)'
  BY MonitorTicketStep, TicketStep, MonitorStep
<1>3. QED
  BY <1>1, <1>2, PTL DEF MonitorSpec

\* Whatever fails, crashes or overlaps, the monitors ask of Control only what its service allows:
\* every step of theirs is a step of the ticket service or none.
THEOREM MonitorsUseTickets == MonitorSpec => ImplementsTickets
<1>1. MonitorInit => TicketInit
  BY DEF MonitorInit
<1>2. QED
  BY <1>1, MonitorTicketStep, MonitorInvariant, PTL DEF MonitorSpec, ImplementsTickets, TicketSpec

\* finish_record: a stored message is in the queue or in an archive, wherever a crash comes and
\* although the poll thread may rewrite the file under a running pass.
THEOREM MessagesSurvive == MonitorSpec => []RecordSurvives
<1>1. MonitorInv => RecordSurvives
  BY DEF MonitorInv
<1>2. QED
  BY <1>1, MonitorInvariant, PTL

-----------------------------------------------------------------------------
(***************************************************************************)
(* One acknowledgment.                                                     *)
(***************************************************************************)

\* The fields of two copies that say how far a record has come, and a record that has come nowhere.
Carries(r, o) ==
  /\ r.granted = o.granted /\ r.latest = o.latest /\ r.acked = o.acked /\ r.pending = o.pending
  /\ r.cst = o.cst
Untouched(r) ==
  ~r.granted /\ ~r.latest /\ ~r.acked /\ r.pending = "none" /\ r.cst \in {"RECEIVED", "REJECTED"}
Inherited(h, r) == Untouched(r) \/ \E o \in Copies(h) : Carries(r, o)

\* The copies of a host before and after a step.
LEMMA CopiesOf ==
  ASSUME NEW h \in Hosts, NEW r
  PROVE  /\ r \in Copies(h) <=> r = wrec[h] \/ r = prec[h] \/ (r = queue[h] /\ r # None)
         /\ r \in Copies(h)' <=> r = wrec'[h] \/ r = prec'[h] \/ (r = queue'[h] /\ r # None)
BY DEF Copies

\* What a pass before the acknowledgment writes is inherited.
LEMMA InheritedEdits ==
  ASSUME MonitorInv, NEW h \in Hosts, NEW o \in Copies(h)
  PROVE  /\ Inherited(h, o)
         /\ \A d \in {"task", "fingerprint"} : Inherited(h, [o EXCEPT !.desk = d])
         /\ \A e \in BOOLEAN : Inherited(h, [o EXCEPT !.inFlight = e])
<1>1. o \in Record
  BY CopiesOf DEF MonitorInv, MonitorTypeOK
<1>2. \A d \in {"task", "fingerprint"} : Carries([o EXCEPT !.desk = d], o)
  BY <1>1 DEF Carries, Record
<1>3. \A e \in BOOLEAN : Carries([o EXCEPT !.inFlight = e], o)
  BY <1>1 DEF Carries, Record
<1>4. Carries(o, o)
  BY DEF Carries
<1>5. QED
  BY <1>2, <1>3, <1>4 DEF Inherited

\* So is the record enqueue builds.
LEMMA NewIsInherited == ASSUME NEW h \in Hosts PROVE Untouched(NewRecord) /\ Inherited(h, NewRecord)
BY DEF Inherited, Untouched, NewRecord

\* Steps that only pass copies on, start no request and entitle nobody keep Unreplied.
LEMMA QuietStep ==
  ASSUME MonitorInv, Unreplied,
         \A g \in Hosts : /\ Inherited(g, wrec'[g]) /\ Inherited(g, prec'[g])
                          /\ queue'[g] # None => Inherited(g, queue'[g]),
         claimOwner' = claimOwner, lease' = lease, status' = status,
         OnlyRejections',
         \A g \in Hosts : Entitled(g)' => Entitled(g),
         CopiesOK',
         \A g \in Hosts : wpc'[g] \in {"idle", "down", "boot", "bootWait", "intake", "route", "desk",
                                       "reconcile", "reply", "unlink"}
  PROVE  Unreplied'
<1>1. \A g \in Hosts : \A r \in Copies(g)' : Inherited(g, r)
  BY CopiesOf
<1>2. TokensOK'
  BY <1>1 DEF Unreplied, TokensOK, Inherited, Untouched, Carries
<1>3. \A g \in Hosts : \A r \in Copies(g)' :
        ~r.acked /\ r.pending = "none" /\ r.cst \in {"RECEIVED", "REJECTED"}
  BY <1>1 DEF Unreplied, Inherited, Untouched, Carries
<1>4. /\ \A g \in Hosts : Entitled(g)' =>
           (status = "RECEIVED" /\ claimOwner = g /\ lease > 0) \/ status = "REJECTED"
      /\ \A g, h \in Hosts : Entitled(g)' /\ Entitled(h)' => g = h
  BY DEF Unreplied
<1>5. status \in {None, "RECEIVED", "REJECTED"}
  BY DEF Unreplied
<1>6. QED
  BY <1>2, <1>3, <1>4, <1>5 DEF Unreplied

\* Copies that are passed on entitle nobody, if nobody is rejuvenated and no request starts.
LEMMA QuietEntitles ==
  ASSUME MonitorInv, Unreplied, NEW g \in Hosts, Entitled(g)',
         Inherited(g, wrec'[g]), Inherited(g, prec'[g]), queue'[g] # None => Inherited(g, queue'[g]),
         g \in aged => g \in aged',
         call'[g].step \in {"begin", "read", "done"} => call[g].step \in {"begin", "read", "done"}
  PROVE  Entitled(g)
<1>1. \A r \in Copies(g)' : Inherited(g, r)
  BY CopiesOf
<1>2. CASE call'[g].step \in {"begin", "read", "done"}
  BY <1>2 DEF Entitled
<1>3. CASE g \notin aged' /\ \E r \in Copies(g)' : r.granted
  BY <1>1, <1>3 DEF Entitled, Inherited, Untouched, Carries
<1>4. QED
  BY <1>2, <1>3 DEF Entitled

\* A step of one thread that gives its host no grant, though it may bring its record up to date.
LEMMA UngrantedHost ==
  ASSUME TicketInv, MonitorInv, Unreplied, NEW h \in Hosts, NEW w, NEW p, NEW q, NEW pc,
         wrec' = [wrec EXCEPT ![h] = w], prec' = [prec EXCEPT ![h] = p], queue' = [queue EXCEPT ![h] = q],
         Inherited(h, w), Inherited(h, p), q # None => Inherited(h, q),
         wpc' = [wpc EXCEPT ![h] = pc],
         pc \in {"idle", "down", "boot", "bootWait", "intake", "route", "desk", "reconcile", "reply",
                 "unlink"},
         claimOwner' = claimOwner, lease' = lease, status' = status, CopiesOK',
         OnlyRejections',
         \A g \in Hosts : call'[g].step \in {"begin", "read", "done"}
                            => call[g].step \in {"begin", "read", "done"},
         aged \ {h} \subseteq aged', Entitled(h)' => Entitled(h)
  PROVE  Unreplied'
<1>1. /\ wrec \in [Hosts -> Record] /\ prec \in [Hosts -> Record]
      /\ queue \in [Hosts -> Record \cup {None}] /\ wpc \in [Hosts -> WorkerSteps]
  BY DEF MonitorInv, MonitorTypeOK
<1>2. \A g \in Hosts : /\ Inherited(g, wrec[g]) /\ Inherited(g, prec[g])
                       /\ queue[g] # None => Inherited(g, queue[g])
  BY InheritedEdits, CopiesOf
<1>3. \A g \in Hosts : /\ Inherited(g, wrec'[g]) /\ Inherited(g, prec'[g])
                       /\ queue'[g] # None => Inherited(g, queue'[g])
  BY <1>1, <1>2
<1>4. \A g \in Hosts \ {h} : Entitled(g)' => Entitled(g)
  BY <1>3, QuietEntitles
<1>5. \A g \in Hosts : wpc'[g] \in {"idle", "down", "boot", "bootWait", "intake", "route", "desk",
                                    "reconcile", "reply", "unlink"}
  BY <1>1 DEF Unreplied
<1>6. \A g \in Hosts : Entitled(g)' => Entitled(g)
  BY <1>4
<1>7. QED
  BY <1>3, <1>5, <1>6, QuietStep

\* A step of one host that passes copies on, ages as before and at most ends its own request.
LEMMA QuietHost ==
  ASSUME TicketInv, MonitorInv, Unreplied, NEW h \in Hosts, NEW w, NEW p, NEW q, NEW pc,
         wrec' = [wrec EXCEPT ![h] = w], prec' = [prec EXCEPT ![h] = p], queue' = [queue EXCEPT ![h] = q],
         Inherited(h, w), Inherited(h, p), q # None => Inherited(h, q),
         wpc' = [wpc EXCEPT ![h] = pc],
         pc \in {"idle", "down", "boot", "bootWait", "intake", "route", "desk", "reconcile", "reply",
                 "unlink"},
         claimOwner' = claimOwner, lease' = lease, status' = status, CopiesOK',
         OnlyRejections',
         \A g \in Hosts : call'[g].step \in {"begin", "read", "done"}
                            => call[g].step \in {"begin", "read", "done"},
         aged \subseteq aged'
  PROVE  Unreplied'
<1>1. wrec'[h] = w /\ prec'[h] = p /\ queue'[h] = q
  BY DEF MonitorInv, MonitorTypeOK
<1>2. Entitled(h)' => Entitled(h)
  BY <1>1, QuietEntitles
<1>3. QED
  BY <1>2, UngrantedHost

\* Steps of a pass before the acknowledgment that send nothing to Control.
LEMMA UnrepliedPass ==
  ASSUME TicketInv, MonitorInv, Unreplied, NEW h \in Hosts, acks = 0, ~foreground, acks' = 0,
         \/ StartPass(h) \/ Route(h) \/ WorkerDesk(h) \/ Reconcile(h) \/ Reply(h)
         \/ \E stale \in BOOLEAN : Boot(h, stale)
  PROVE  Unreplied'
<1>1. /\ wrec \in [Hosts -> Record] /\ prec \in [Hosts -> Record]
      /\ queue \in [Hosts -> Record \cup {None}] /\ wpc \in [Hosts -> WorkerSteps]
      /\ ppc \in [Hosts -> {"watch", "intake", "desk", "idle"}]
      /\ wrec = [wrec EXCEPT ![h] = wrec[h]] /\ prec = [prec EXCEPT ![h] = prec[h]]
      /\ queue = [queue EXCEPT ![h] = queue[h]] /\ wpc = [wpc EXCEPT ![h] = wpc[h]]
      /\ wpc[h] \notin {"idle", "down"} => queue[h] # None
  BY DEF MonitorInv, MonitorTypeOK, PassOK
<1>2. /\ wrec[h] \in Copies(h) /\ prec[h] \in Copies(h)
      /\ queue[h] # None => queue[h] \in Copies(h)
  BY CopiesOf
<1>3. /\ Inherited(h, NewRecord) /\ Inherited(h, wrec[h]) /\ Inherited(h, prec[h])
      /\ queue[h] # None => Inherited(h, queue[h])
      /\ \A d \in {"task", "fingerprint"} : Inherited(h, [wrec[h] EXCEPT !.desk = d])
      /\ \A e \in BOOLEAN : Inherited(h, [wrec[h] EXCEPT !.inFlight = e])
  BY <1>2, InheritedEdits, NewIsInherited
<1>4. /\ ~wrec[h].acked
      /\ queue[h] # None => queue[h].pending = "none"
      /\ OnlyRejections /\ (call' = call => OnlyRejections')
      /\ CopiesOK
  BY <1>2 DEF Unreplied, OnlyRejections, Active
<1>5. /\ ~NewRecord.granted
      /\ \A d \in {"task", "fingerprint"} : [wrec[h] EXCEPT !.desk = d].granted = wrec[h].granted
      /\ \A e \in BOOLEAN : [wrec[h] EXCEPT !.inFlight = e].granted = wrec[h].granted
  BY <1>1 DEF NewRecord, Record
<1> USE DEF At, Goto, Save, Forget, Pause, Archive, worldVars, threadVars, boundVars, ticketVars, claimVars
<1>6. CASE StartPass(h)
  <2>1. CopiesOK'
    BY <1>1, <1>4, <1>5, <1>6 DEF StartPass, CopiesOK
  <2>2. QED
    BY <1>1, <1>3, <1>4, <1>6, <2>1, QuietHost DEF StartPass
<1>7. CASE Route(h)
  <2>1. CopiesOK'
    BY <1>1, <1>4, <1>5, <1>7 DEF Route, CopiesOK
  <2>2. QED
    BY <1>1, <1>3, <1>4, <1>7, <2>1, QuietHost DEF Route
<1>8. CASE WorkerDesk(h)
  <2>1. CopiesOK'
    BY <1>1, <1>4, <1>5, <1>8 DEF WorkerDesk, CopiesOK
  <2>2. QED
    BY <1>1, <1>3, <1>4, <1>8, <2>1, QuietHost DEF WorkerDesk
<1>9. CASE Reconcile(h)
  <2>1. /\ ~ReplyExists(h) /\ wpc[h] = "reconcile"
        /\ UNCHANGED <<ticketVars, ppc, prec, aged>>
    BY <1>9 DEF Reconcile, ReplyExists
  <2>2. CASE Pause(h, wrec[h])
    <3>1. CopiesOK'
      BY <1>1, <1>4, <1>5, <2>1, <2>2 DEF CopiesOK
    <3>2. QED
      BY <1>1, <1>3, <1>4, <2>1, <2>2, <3>1, QuietHost
  <2>3. CASE Goto(h, "reply") /\ Save(h, [wrec[h] EXCEPT !.inFlight = TRUE])
    <3> DEFINE r == [wrec[h] EXCEPT !.inFlight = TRUE]
    <3>1. Inherited(h, r) /\ r.granted = wrec[h].granted
      BY <1>3, <1>5
    <3>2. wrec' = [wrec EXCEPT ![h] = r] /\ queue' = [queue EXCEPT ![h] = r]
      BY <2>3
    <3> HIDE DEF r
    <3>3. wrec[h].granted /\ h \notin aged /\ ppc[h] # "watch"
      BY <1>1, <1>4, <2>1 DEF CopiesOK
    <3>4. CopiesOK'
      BY <1>1, <1>4, <2>1, <2>3, <3>1, <3>2, <3>3 DEF CopiesOK
    <3>5. QED
      BY <1>1, <1>3, <1>4, <2>1, <2>3, <3>1, <3>2, <3>4, QuietHost
  <2>4. QED
    BY <1>9, <2>1, <2>2, <2>3 DEF Reconcile
<1>10. CASE Reply(h)
  <2>1. /\ UNCHANGED <<ticketVars, ppc, prec, aged>> /\ wpc[h] = "reply"
        /\ wrec' = [wrec EXCEPT ![h] = NewRecord] /\ wpc' = [wpc EXCEPT ![h] = "idle"]
        /\ \E q \in {queue[h], [wrec[h] EXCEPT !.inFlight = FALSE]} : queue' = [queue EXCEPT ![h] = q]
    BY <1>1, <1>10 DEF Reply
  <2>2. CopiesOK'
    BY <1>1, <1>4, <1>5, <2>1 DEF CopiesOK
  <2>3. PICK q \in {queue[h], [wrec[h] EXCEPT !.inFlight = FALSE]} : queue' = [queue EXCEPT ![h] = q]
    BY <2>1
  <2>4. q # None => Inherited(h, q)
    BY <1>3
  <2>5. prec' = [prec EXCEPT ![h] = prec[h]]
    BY <1>1, <2>1
  <2>6. QED
    BY <1>3, <1>4, <2>1, <2>2, <2>3, <2>4, <2>5, QuietHost
<1>11. CASE \E stale \in BOOLEAN : Boot(h, stale)
  <2>1. CopiesOK'
    BY <1>1, <1>4, <1>5, <1>11 DEF Boot, CopiesOK
  <2>2. QED
    BY <1>1, <1>3, <1>4, <1>11, <2>1, QuietHost DEF Boot
<1>12. QED
  BY <1>6, <1>7, <1>8, <1>9, <1>10, <1>11

\* A copy whose token a grant has outdated, and one that holds the new grant.
Outdated(g, r) ==
  /\ ~r.latest
  /\ \/ Untouched(r)
     \/ \E o \in Copies(g) : /\ r.granted = o.granted /\ r.acked = o.acked /\ r.pending = o.pending
                             /\ r.cst = o.cst
Fresh(r) == ~r.acked /\ r.pending = "none" /\ r.cst = "RECEIVED"

\* A grant is given when nobody else is entitled, and makes its host the only one.
LEMMA GrantStep ==
  ASSUME TicketInv, MonitorInv, Unreplied, NEW h \in Hosts, Intake(h), Grantable(h),
         \A g \in Hosts : \A r \in Copies(g)' : Outdated(g, r) \/ (g = h /\ Fresh(r)),
         aged \ {h} \subseteq aged', CopiesOK',
         \A g \in Hosts : wpc'[g] \in {"idle", "down", "boot", "bootWait", "intake", "route", "desk",
                                       "reconcile", "reply", "unlink"}
  PROVE  Unreplied'
<1>1. /\ status \in {None, "RECEIVED"} /\ status' = "RECEIVED" /\ claimOwner' = h /\ lease' = Lease
      /\ call' = call /\ Lease > 0
  BY TicketAssumption DEF Unreplied, Intake, Grantable, TERMINAL_STATUSES
<1>2. status # "REJECTED"
  BY <1>1, NoneIsUnsettled
<1>3. \A g \in Hosts \ {h} : ~Entitled(g)
  <2> SUFFICES ASSUME NEW g \in Hosts \ {h}, Entitled(g) PROVE FALSE
    OBVIOUS
  <2>1. status = "RECEIVED" /\ claimOwner = g /\ lease > 0
    BY <1>2 DEF Unreplied
  <2>2. QED
    BY <2>1, TicketAssumption, StatusNames DEF Grantable
<1>4. \A g \in Hosts \ {h} : ~Entitled(g)'
  BY <1>1, <1>3 DEF Entitled, Outdated, Untouched
<1>5. TokensOK'
  BY <1>1 DEF TokensOK, Outdated
<1>6. \A g \in Hosts : \A r \in Copies(g)' :
        ~r.acked /\ r.pending = "none" /\ r.cst \in {"RECEIVED", "REJECTED"}
  BY DEF Unreplied, Outdated, Untouched, Fresh
<1>7. OnlyRejections'
  BY <1>1 DEF Unreplied, OnlyRejections, Active
<1>8. QED
  BY <1>1, <1>4, <1>5, <1>6, <1>7 DEF Unreplied

\* What a grant makes of the copies: the tokens are outdated, nothing else changes.
LEMMA GrantOutdates ==
  ASSUME MonitorInv, NEW h \in Hosts, Grantable(h), NEW g \in Hosts, NEW f, DOMAIN f = Hosts,
         f[g] \in Record \cup {None}
  PROVE  /\ f[g] \in Copies(g) \/ (f[g] # None /\ Untouched(f[g])) => Outdated(g, AfterIntake(h, f)[g])
         /\ f[g] # None => AfterIntake(h, f)[g].granted = f[g].granted
         /\ (AfterIntake(h, f)[g] = None) <=> (f[g] = None)
<1>1. f[g] \in Copies(g) => f[g] # None
  BY CopiesOf, MonitorAssumption DEF MonitorInv, MonitorTypeOK
<1>2. QED
  BY <1>1, OutdatedCopy DEF Outdated, Untouched

\* The answer of an intake brings a record that was never acknowledged up to date.
LEMMA TakenIsFresh ==
  ASSUME TicketInv, Unreplied, NEW h \in Hosts, NEW r \in Record, ~r.acked, r.pending = "none"
  PROVE  /\ TakeIntake(h, r) # None
         /\ Grantable(h) => Fresh(TakeIntake(h, r))
         /\ ~Grantable(h) => Untouched(TakeIntake(h, r))
<1>1. ~Grantable(h) => status \in {"RECEIVED", "REJECTED"}
  BY DEF Unreplied, Grantable
<1>2. Grantable(h) => status \in {None, "RECEIVED"}
  BY DEF Unreplied, Grantable, TERMINAL_STATUSES
<1>3. status \in {"RECEIVED", "REJECTED"} => status # None
  BY TicketAssumption, StatusNames
<1>4. TakeIntake(h, r) # None
  BY TakeIntakeType, MonitorAssumption
<1>5. QED
  BY <1>1, <1>2, <1>3, <1>4, TakeIntakeType DEF Fresh, Untouched

\* Before the first reply the worker's intake gives at most its own host the right to one.
LEMMA UnrepliedIntake ==
  ASSUME TicketInv, MonitorInv, Unreplied, NEW h \in Hosts, WorkerIntake(h)
  PROVE  Unreplied'
<1>1. /\ wrec \in [Hosts -> Record] /\ prec \in [Hosts -> Record]
      /\ queue \in [Hosts -> Record \cup {None}] /\ wpc \in [Hosts -> WorkerSteps]
      /\ ppc \in [Hosts -> {"watch", "intake", "desk", "idle"}]
      /\ wrec = [wrec EXCEPT ![h] = wrec[h]] /\ prec = [prec EXCEPT ![h] = prec[h]]
      /\ wpc[h] = "intake" /\ queue[h] # None /\ UNCHANGED ppc /\ None \notin Record
  BY MonitorAssumption DEF MonitorInv, MonitorTypeOK, PassOK, WorkerIntake, At
<1>2. /\ \A g \in Hosts : /\ wrec[g] \in Copies(g) /\ prec[g] \in Copies(g)
                          /\ queue[g] # None => queue[g] \in Copies(g)
      /\ \A g \in Hosts : wpc[g] \in {"idle", "down", "boot", "bootWait", "intake", "route", "desk",
                                       "reconcile", "reply", "unlink"}
      /\ OnlyRejections /\ (call' = call => OnlyRejections')
      /\ CopiesOK /\ ppc[h] # "watch"
  BY <1>1, CopiesOf DEF Unreplied, CopiesOK, OnlyRejections, Active
<1>3. ~wrec[h].acked /\ wrec[h].pending = "none"
  BY <1>2 DEF Unreplied
<1>4. /\ Inherited(h, wrec[h]) /\ Inherited(h, prec[h]) /\ Inherited(h, NewRecord)
      /\ ~NewRecord.granted /\ NewRecord \in Record
  BY <1>2, InheritedEdits, NewIsInherited, NewRecordType DEF NewRecord
<1> USE DEF Goto
<1>5. CASE WorkerTakes(h) /\ Goto(h, "route")
  <2> DEFINE t == TakeIntake(h, wrec[h])
  <2>1. t \in Record /\ t # None /\ (Grantable(h) => Fresh(t)) /\ (~Grantable(h) => Untouched(t))
    BY <1>1, <1>3, TakeIntakeType, TakenIsFresh
  <2>2. /\ Intake(h) /\ aged' = aged \ {h} /\ prec' = AfterIntake(h, prec)
        /\ wrec' = [AfterIntake(h, wrec) EXCEPT ![h] = t]
        /\ queue' = [AfterIntake(h, queue) EXCEPT ![h] = wrec'[h]]
    BY <1>5 DEF WorkerTakes
  <2> HIDE DEF t
  <2>3. CASE Grantable(h)
    <3>1. DOMAIN AfterIntake(h, wrec) = Hosts /\ DOMAIN AfterIntake(h, queue) = Hosts
      BY <2>3 DEF AfterIntake, Outdate
    <3>2. wrec'[h] = t /\ queue'[h] = t
      BY <2>2, <3>1
    <3>3. \A g \in Hosts : /\ Outdated(g, prec'[g]) /\ prec'[g].granted = prec[g].granted
                           /\ g # h => /\ Outdated(g, wrec'[g]) /\ wrec'[g].granted = wrec[g].granted
                                       /\ queue'[g] # None => Outdated(g, queue'[g])
                                       /\ (queue'[g] = None) <=> (queue[g] = None)
      BY <1>1, <1>2, <2>2, <2>3, <3>1, GrantOutdates
    <3>4. \A g \in Hosts : \A r \in Copies(g)' : Outdated(g, r) \/ (g = h /\ Fresh(r))
      BY <2>1, <2>3, <3>2, <3>3, CopiesOf
    <3>5. CopiesOK'
      BY <1>1, <1>2, <1>5, <2>2, <3>3 DEF CopiesOK
    <3>6. \A g \in Hosts : wpc'[g] \in {"idle", "down", "boot", "bootWait", "intake", "route", "desk",
                                        "reconcile", "reply", "unlink"}
      BY <1>1, <1>2, <1>5
    <3>7. QED
      BY <2>2, <2>3, <3>4, <3>5, <3>6, GrantStep
  <2>4. CASE ~Grantable(h)
    <3>1. /\ UNCHANGED <<status, claimOwner, lease, call, prec>>
          /\ wrec' = [wrec EXCEPT ![h] = t] /\ queue' = [queue EXCEPT ![h] = t]
      BY <1>1, <2>2, <2>4 DEF Intake, AfterIntake, claimVars
    <3>2. ~t.granted /\ Inherited(h, t)
      BY <2>1, <2>4 DEF Untouched, Inherited
    <3>3. CopiesOK'
      BY <1>1, <1>2, <1>5, <2>2, <3>1, <3>2 DEF CopiesOK
    <3>4. Entitled(h)' => Entitled(h)
      <4>1. \A r \in Copies(h)' : r.granted => r = prec[h]
        BY <1>1, <3>1, <3>2, CopiesOf
      <4>2. prec[h].granted => h \notin aged
        BY <1>2 DEF CopiesOK
      <4>3. QED
        BY <1>2, <3>1, <4>1, <4>2 DEF Entitled
    <3>5. prec' = [prec EXCEPT ![h] = prec[h]] /\ aged \ {h} \subseteq aged'
      BY <1>1, <2>2, <3>1
    <3>6. QED
      BY <1>2, <1>4, <1>5, <3>1, <3>2, <3>3, <3>4, <3>5, UngrantedHost
  <2>5. QED
    BY <2>3, <2>4
<1>6. CASE IntakeUnanswered(h, wrec[h], [wrec EXCEPT ![h] = NewRecord]) /\ Goto(h, "idle") /\ UNCHANGED aged
  <2> DEFINE w == [wrec EXCEPT ![h] = NewRecord]
             q == [queue EXCEPT ![h] = wrec[h]]
  <2>1. /\ w \in [Hosts -> Record] /\ q \in [Hosts -> Record \cup {None}]
        /\ w[h] = NewRecord /\ q[h] = wrec[h]
        /\ \A g \in Hosts \ {h} : w[g] = wrec[g] /\ q[g] = queue[g]
    BY <1>1, <1>4
  <2>2. \/ /\ Intake(h) /\ wrec' = AfterIntake(h, w) /\ prec' = AfterIntake(h, prec)
           /\ queue' = AfterIntake(h, q)
        \/ UNCHANGED <<ticketVars, prec>> /\ wrec' = w /\ queue' = q
    BY <1>6 DEF IntakeUnanswered
  <2>3. CASE Grantable(h) /\ Intake(h) /\ wrec' = AfterIntake(h, w) /\ prec' = AfterIntake(h, prec)
             /\ queue' = AfterIntake(h, q)
    <3> HIDE DEF w, q
    <3>1. \A g \in Hosts : w[g] \in Copies(g) \/ (w[g] # None /\ Untouched(w[g]))
      BY <1>1, <1>2, <1>4, <2>1, NewIsInherited
    <3>2. \A g \in Hosts : q[g] # None => q[g] \in Copies(g)
      BY <1>2, <2>1
    <3>3. \A g \in Hosts : /\ Outdated(g, prec'[g]) /\ prec'[g].granted = prec[g].granted
                           /\ Outdated(g, wrec'[g]) /\ wrec'[g].granted = w[g].granted
                           /\ queue'[g] # None => Outdated(g, queue'[g])
                           /\ (queue'[g] = None) <=> (q[g] = None)
      BY <1>1, <1>2, <2>1, <2>3, <3>1, <3>2, GrantOutdates
    <3>4. \A g \in Hosts : \A r \in Copies(g)' : Outdated(g, r) \/ (g = h /\ Fresh(r))
      BY <3>3, CopiesOf
    <3>5. CopiesOK'
      BY <1>1, <1>2, <1>4, <1>6, <2>1, <3>3 DEF CopiesOK
    <3>6. \A g \in Hosts : wpc'[g] \in {"idle", "down", "boot", "bootWait", "intake", "route", "desk",
                                        "reconcile", "reply", "unlink"}
      BY <1>1, <1>2, <1>6
    <3>7. QED
      BY <1>6, <2>3, <3>4, <3>5, <3>6, GrantStep
  <2>4. CASE UNCHANGED <<status, claimOwner, lease, call, prec>> /\ wrec' = w /\ queue' = q
    <3>1. CopiesOK'
      BY <1>1, <1>2, <1>4, <1>6, <2>4 DEF CopiesOK
    <3>2. prec' = [prec EXCEPT ![h] = prec[h]]
      BY <1>1, <2>4
    <3>3. QED
      BY <1>2, <1>4, <1>6, <2>4, <3>1, <3>2, QuietHost
  <2>5. QED
    BY <2>2, <2>3, <2>4 DEF Intake, AfterIntake, ticketVars, claimVars
<1>7. QED
  BY <1>5, <1>6 DEF WorkerIntake

\* So does the intake of enqueue.
LEMMA UnrepliedPoll ==
  ASSUME TicketInv, MonitorInv, Unreplied, NEW h \in Hosts,
         PollIntake(h) \/ PollDesk(h) \/ \E stale \in BOOLEAN : Watch(h, stale)
  PROVE  Unreplied'
<1>1. /\ wrec \in [Hosts -> Record] /\ prec \in [Hosts -> Record]
      /\ queue \in [Hosts -> Record \cup {None}] /\ wpc \in [Hosts -> WorkerSteps]
      /\ ppc \in [Hosts -> {"watch", "intake", "desk", "idle"}] /\ None \notin Record
      /\ wrec = [wrec EXCEPT ![h] = wrec[h]] /\ prec = [prec EXCEPT ![h] = prec[h]]
      /\ queue = [queue EXCEPT ![h] = queue[h]] /\ wpc = [wpc EXCEPT ![h] = wpc[h]]
  BY MonitorAssumption DEF MonitorInv, MonitorTypeOK
<1>2. /\ \A g \in Hosts : /\ wrec[g] \in Copies(g) /\ prec[g] \in Copies(g)
                          /\ queue[g] # None => queue[g] \in Copies(g)
      /\ \A g \in Hosts : wpc[g] \in {"idle", "down", "boot", "bootWait", "intake", "route", "desk",
                                       "reconcile", "reply", "unlink"}
      /\ OnlyRejections /\ (call' = call => OnlyRejections')
      /\ CopiesOK
  BY <1>1, CopiesOf DEF Unreplied, OnlyRejections, Active
<1>3. /\ Inherited(h, wrec[h]) /\ Inherited(h, prec[h]) /\ Inherited(h, NewRecord)
      /\ queue[h] # None => Inherited(h, queue[h])
      /\ \A d \in {"task", "fingerprint"} : Inherited(h, [prec[h] EXCEPT !.desk = d])
      /\ ~NewRecord.granted /\ NewRecord \in Record
  BY <1>2, InheritedEdits, NewIsInherited, NewRecordType DEF NewRecord
<1>4. ASSUME NEW stale \in BOOLEAN, Watch(h, stale) PROVE Unreplied'
  <2>1. /\ UNCHANGED <<status, claimOwner, lease, call, wpc, wrec, prec, aged>> /\ ppc[h] = "watch"
        /\ \/ queue' = queue /\ ppc' = [ppc EXCEPT ![h] = "idle"]
           \/ queue' = [queue EXCEPT ![h] = NewRecord] /\ ppc' = [ppc EXCEPT ![h] = "intake"]
    BY <1>4, Zenon DEF Watch, ticketVars, claimVars
  <2>2. CopiesOK'
    BY <1>1, <1>2, <1>3, <2>1 DEF CopiesOK
  <2>3. PICK q \in {queue[h], NewRecord} : queue' = [queue EXCEPT ![h] = q]
    BY <1>1, <2>1
  <2>4. q # None => Inherited(h, q)
    BY <1>3
  <2>5. wrec' = [wrec EXCEPT ![h] = wrec[h]] /\ prec' = [prec EXCEPT ![h] = prec[h]]
        /\ wpc' = [wpc EXCEPT ![h] = wpc[h]]
    BY <1>1, <2>1
  <2>6. QED
    BY <1>2, <1>3, <2>1, <2>2, <2>3, <2>4, <2>5, QuietHost
<1>5. CASE PollDesk(h)
  <2>1. /\ UNCHANGED <<status, claimOwner, lease, call, wpc, wrec, aged>>
        /\ ppc[h] = "desk" /\ ppc' = [ppc EXCEPT ![h] = "idle"] /\ prec' = [prec EXCEPT ![h] = NewRecord]
    BY <1>5 DEF PollDesk, ticketVars, claimVars
  <2>2. PICK q : queue' = [queue EXCEPT ![h] = q] /\ Inherited(h, q)
    BY <1>3, <1>5 DEF PollDesk
  <2>3. CopiesOK'
    BY <1>1, <1>2, <1>3, <2>1, <2>2 DEF CopiesOK
  <2>4. wrec' = [wrec EXCEPT ![h] = wrec[h]] /\ wpc' = [wpc EXCEPT ![h] = wpc[h]]
    BY <1>1, <2>1
  <2>5. QED
    BY <1>2, <1>3, <2>1, <2>2, <2>3, <2>4, QuietHost
<1>6. CASE PollIntake(h)
  <2> DEFINE t == TakeIntake(h, NewRecord)
             q == [queue EXCEPT ![h] = NewRecord]
  <2>1. /\ ppc[h] = "intake" /\ ppc' = [ppc EXCEPT ![h] = "desk"] /\ wpc' = wpc /\ h \notin aged
        /\ \A g \in Hosts : wpc'[g] \in {"idle", "down", "boot", "bootWait", "intake", "route", "desk",
                                          "reconcile", "reply", "unlink"}
        /\ wpc' = [wpc EXCEPT ![h] = wpc[h]]
    BY <1>1, <1>2, <1>6 DEF PollIntake, CopiesOK
  <2>2. /\ q \in [Hosts -> Record \cup {None}] /\ q[h] = NewRecord
        /\ \A g \in Hosts \ {h} : q[g] = queue[g]
    BY <1>1, <1>3
  <2>3. t \in Record /\ t # None /\ (Grantable(h) => Fresh(t)) /\ (~Grantable(h) => Untouched(t))
    BY <1>3, TakeIntakeType, TakenIsFresh DEF NewRecord
  <2>4. \/ /\ Intake(h) /\ aged' = aged \ {h} /\ wrec' = AfterIntake(h, wrec)
           /\ prec' = [AfterIntake(h, prec) EXCEPT ![h] = t]
           /\ queue' = [AfterIntake(h, queue) EXCEPT ![h] = prec'[h]]
        \/ /\ Intake(h) /\ aged' = aged /\ wrec' = AfterIntake(h, wrec) /\ prec' = AfterIntake(h, prec)
           /\ queue' = AfterIntake(h, q)
        \/ UNCHANGED <<ticketVars, prec, wrec, aged>> /\ queue' = q
    BY <1>6 DEF PollIntake, IntakeUnanswered
  <2> HIDE DEF t, q
  <2>5. CASE /\ Grantable(h) /\ Intake(h) /\ aged' = aged \ {h} /\ wrec' = AfterIntake(h, wrec)
             /\ prec' = [AfterIntake(h, prec) EXCEPT ![h] = t]
             /\ queue' = [AfterIntake(h, queue) EXCEPT ![h] = prec'[h]]
    <3>1. DOMAIN AfterIntake(h, prec) = Hosts /\ DOMAIN AfterIntake(h, queue) = Hosts
      BY <2>5 DEF AfterIntake, Outdate
    <3>2. prec'[h] = t /\ queue'[h] = t
      BY <2>5, <3>1
    <3>3. \A g \in Hosts : /\ Outdated(g, wrec'[g]) /\ wrec'[g].granted = wrec[g].granted
                           /\ g # h => /\ Outdated(g, prec'[g]) /\ prec'[g].granted = prec[g].granted
                                       /\ queue'[g] # None => Outdated(g, queue'[g])
                                       /\ (queue'[g] = None) <=> (queue[g] = None)
      BY <1>1, <1>2, <2>5, <3>1, GrantOutdates
    <3>4. \A g \in Hosts : \A r \in Copies(g)' : Outdated(g, r) \/ (g = h /\ Fresh(r))
      BY <2>3, <2>5, <3>2, <3>3, CopiesOf
    <3>5. CopiesOK'
      BY <1>1, <1>2, <2>1, <2>5, <3>3 DEF CopiesOK
    <3>6. QED
      BY <2>1, <2>5, <3>4, <3>5, GrantStep
  <2>6. CASE /\ Grantable(h) /\ Intake(h) /\ aged' = aged /\ wrec' = AfterIntake(h, wrec)
             /\ prec' = AfterIntake(h, prec) /\ queue' = AfterIntake(h, q)
    <3>1. \A g \in Hosts : q[g] # None => q[g] \in Copies(g) \/ Untouched(q[g])
      BY <1>2, <2>2, NewIsInherited
    <3>2. \A g \in Hosts : /\ Outdated(g, prec'[g]) /\ prec'[g].granted = prec[g].granted
                           /\ Outdated(g, wrec'[g]) /\ wrec'[g].granted = wrec[g].granted
                           /\ queue'[g] # None => Outdated(g, queue'[g])
                           /\ (queue'[g] = None) <=> (q[g] = None)
      BY <1>1, <1>2, <2>2, <2>6, <3>1, GrantOutdates
    <3>3. \A g \in Hosts : \A r \in Copies(g)' : Outdated(g, r) \/ (g = h /\ Fresh(r))
      BY <3>2, CopiesOf
    <3>4. CopiesOK'
      BY <1>1, <1>2, <2>1, <2>2, <2>6, <3>2 DEF CopiesOK
    <3>5. QED
      BY <2>1, <2>6, <3>3, <3>4, GrantStep
  <2>7. CASE /\ UNCHANGED <<status, claimOwner, lease, call, wrec>> /\ aged' = aged
             /\ \/ prec' = prec /\ queue' = q
                \/ prec' = [prec EXCEPT ![h] = t] /\ queue' = [queue EXCEPT ![h] = t] /\ ~Grantable(h)
    <3>1. PICK p, r : /\ prec' = [prec EXCEPT ![h] = p] /\ queue' = [queue EXCEPT ![h] = r]
                      /\ Inherited(h, p) /\ Inherited(h, r) /\ r # None
      <4>1. CASE prec' = prec /\ queue' = q
        BY <1>1, <1>3, <4>1 DEF q
      <4>2. CASE prec' = [prec EXCEPT ![h] = t] /\ queue' = [queue EXCEPT ![h] = t] /\ ~Grantable(h)
        BY <2>3, <4>2 DEF Inherited
      <4>3. QED
        BY <2>7, <4>1, <4>2
    <3>2. CopiesOK'
      BY <1>1, <1>2, <2>1, <2>7, <3>1 DEF CopiesOK
    <3>3. wrec' = [wrec EXCEPT ![h] = wrec[h]]
      BY <1>1, <2>7
    <3>4. wpc[h] \in {"idle", "down", "boot", "bootWait", "intake", "route", "desk", "reconcile",
                      "reply", "unlink"}
      BY <1>2
    <3>5. QED
      BY <1>2, <1>3, <2>1, <2>7, <3>1, <3>2, <3>3, <3>4, QuietHost
  <2>8. ASSUME ~Grantable(h), Intake(h), aged' = aged \ {h}, wrec' = AfterIntake(h, wrec),
               prec' = [AfterIntake(h, prec) EXCEPT ![h] = t],
               queue' = [AfterIntake(h, queue) EXCEPT ![h] = prec'[h]]
        PROVE  /\ UNCHANGED <<status, claimOwner, lease, call, wrec>> /\ aged' = aged
               /\ prec' = [prec EXCEPT ![h] = t] /\ queue' = [queue EXCEPT ![h] = t] /\ ~Grantable(h)
    BY <1>1, <2>1, <2>8 DEF Intake, AfterIntake, claimVars
  <2>9. ASSUME ~Grantable(h), Intake(h), aged' = aged, wrec' = AfterIntake(h, wrec),
               prec' = AfterIntake(h, prec), queue' = AfterIntake(h, q)
        PROVE  /\ UNCHANGED <<status, claimOwner, lease, call, wrec>> /\ aged' = aged
               /\ prec' = prec /\ queue' = q
    BY <2>9 DEF Intake, AfterIntake, claimVars
  <2>10. QED
    BY <2>4, <2>5, <2>6, <2>7, <2>8, <2>9 DEF ticketVars, claimVars
<1>7. QED
  BY <1>4, <1>5, <1>6

\* A request that ends, or is given up on, is no new one.
LEMMA AnsweredKeepsRejections ==
  ASSUME call \in [Callers -> Call], OnlyRejections, NEW h \in Hosts, Returns(h) \/ Abandon(h)
  PROVE  /\ OnlyRejections'
         /\ \A g \in Hosts : call'[g].step \in {"begin", "read", "done"}
                               => call[g].step \in {"begin", "read", "done"}
<1>1. \A c \in Hosts \cup Late : call'[c] \in {call[c], NoCall} \/ (Active(h) /\ call'[c] = call[h])
  BY AnsweredRequests DEF Callers
<1>2. \A g \in Hosts : call'[g] \in {call[g], NoCall}
  <2>1. \A g \in Hosts : g \notin Late
    BY TicketAssumption DEF Late
  <2>2. QED
    BY <2>1, AnsweredRequests DEF Callers
<1>3. QED
  BY <1>1, <1>2 DEF OnlyRejections, Active, NoCall

\* The quarantine's request and its end, and the unlinking of an archived record.
LEMMA UnrepliedRequests ==
  ASSUME TicketInv, MonitorInv, Unreplied, NEW h \in Hosts, Patch(h) \/ Quarantine(h) \/ Unlink(h)
  PROVE  Unreplied'
<1>1. /\ wrec \in [Hosts -> Record] /\ prec \in [Hosts -> Record]
      /\ queue \in [Hosts -> Record \cup {None}] /\ wpc \in [Hosts -> WorkerSteps]
      /\ ppc \in [Hosts -> {"watch", "intake", "desk", "idle"}]
      /\ wrec = [wrec EXCEPT ![h] = wrec[h]] /\ prec = [prec EXCEPT ![h] = prec[h]]
      /\ queue = [queue EXCEPT ![h] = queue[h]]
      /\ call \in [Callers -> Call]
  BY DEF MonitorInv, MonitorTypeOK, TicketInv, TicketTypeOK
<1>2. /\ wrec[h] \in Copies(h) /\ prec[h] \in Copies(h)
      /\ queue[h] # None => queue[h] \in Copies(h)
      /\ \A g \in Hosts : wpc[g] \in {"idle", "down", "boot", "bootWait", "intake", "route", "desk",
                                       "reconcile", "reply", "unlink"}
      /\ OnlyRejections /\ (call' = call => OnlyRejections')
      /\ CopiesOK
  BY <1>1, CopiesOf DEF Unreplied, OnlyRejections, Active
<1>3. /\ Inherited(h, wrec[h]) /\ Inherited(h, prec[h]) /\ Inherited(h, NewRecord)
      /\ queue[h] # None => Inherited(h, queue[h])
      /\ ~NewRecord.granted
  BY <1>2, InheritedEdits, NewIsInherited DEF NewRecord
<1> USE DEF At, Goto
<1>4. CASE Patch(h)
  <2>1. /\ wpc[h] = "boot" /\ wpc' = [wpc EXCEPT ![h] = "bootWait"] /\ Target(h) = "REJECTED"
        /\ UNCHANGED <<queue, wrec, ppc, prec, aged>>
    <3>1. DOMAIN WaitOf = {"ackSync", "resume", "pend", "boot"} /\ WaitOf["boot"] = "bootWait"
      BY DEF WaitOf
    <3>2. wpc[h] = "boot"
      BY <1>2, <1>4, <3>1 DEF Patch
    <3>3. QED
      BY <1>4, <3>1, <3>2 DEF Patch, Target
  <2>2. /\ UNCHANGED <<status, claimOwner, lease>>
        /\ \/ BeginClaimed(h, "REJECTED", wrec[h].latest)
           \/ call' = [call EXCEPT ![h] = [NoCall EXCEPT !.step = "refused"]]
    BY <1>4, <2>1 DEF Patch, BeginClaimed, Begin, RefuseClaimed, claimVars
  <2>3. CopiesOK'
    BY <1>1, <1>2, <2>1 DEF CopiesOK
  <2>4. CASE BeginClaimed(h, "REJECTED", wrec[h].latest)
    <3>1. claimOwner = h /\ lease > 0 /\ status # None
      BY <1>2, <2>4 DEF BeginClaimed, Begin, Claimed, Unreplied, TokensOK
    <3>2. status = "RECEIVED"
      BY <3>1, TicketAssumption DEF Unreplied, TicketInv, SettledTicket, TERMINAL_STATUSES
    <3>3. \A g \in Hosts \ {h} : ~Entitled(g)
      BY <3>1, <3>2 DEF Unreplied
    <3>4. \E k : k.to = "REJECTED" /\ call' = [call EXCEPT ![h] = k]
      BY <2>4 DEF BeginClaimed, Begin, NoCall
    <3>5. /\ \A g \in Hosts \ {h} : call'[g] = call[g]
          /\ OnlyRejections'
      BY <1>1, <1>2, <3>4 DEF OnlyRejections, Active, Callers
    <3>6. \A g \in Hosts : Copies(g)' = Copies(g)
      BY <2>1 DEF Copies
    <3>7. \A g \in Hosts \ {h} : ~Entitled(g)'
      BY <2>1, <3>3, <3>5, <3>6 DEF Entitled
    <3>8. TokensOK'
      BY <2>2, <3>6 DEF TokensOK, Unreplied
    <3>9. \A g \in Hosts : wpc'[g] \in {"idle", "down", "boot", "bootWait", "intake", "route", "desk",
                                        "reconcile", "reply", "unlink"}
      BY <1>1, <1>2, <2>1
    <3>10. QED
      BY <2>2, <2>3, <3>1, <3>2, <3>5, <3>6, <3>7, <3>8, <3>9 DEF Unreplied
  <2>5. CASE call' = [call EXCEPT ![h] = [NoCall EXCEPT !.step = "refused"]]
    <3>1. /\ OnlyRejections'
          /\ \A g \in Hosts : call'[g].step \in {"begin", "read", "done"}
                                => call[g].step \in {"begin", "read", "done"}
      <4>1. call'[h].step = "refused" /\ \A c \in Callers \ {h} : call'[c] = call[c]
        BY <1>1, <2>5 DEF NoCall, Callers
      <4>2. OnlyRejections
        BY <1>2
      <4>3. OnlyRejections'
        BY <4>1, <4>2 DEF OnlyRejections, Active, Callers
      <4>4. QED
        BY <4>1, <4>3 DEF Callers
    <3>2. /\ wrec' = [wrec EXCEPT ![h] = wrec[h]] /\ prec' = [prec EXCEPT ![h] = prec[h]]
          /\ queue' = [queue EXCEPT ![h] = queue[h]]
      BY <1>1, <2>1
    <3>3. QED
      BY <1>2, <1>3, <2>1, <2>2, <2>3, <3>1, <3>2, QuietHost
  <2>6. QED
    BY <2>2, <2>4, <2>5
<1>5. CASE Quarantine(h)
  <2>1. /\ wpc[h] = "bootWait" /\ wpc' = [wpc EXCEPT ![h] = "unlink"] /\ wrec' = [wrec EXCEPT ![h] = NewRecord]
        /\ UNCHANGED <<queue, ppc, prec, status, claimOwner, lease>>
        /\ \/ aged' = aged
           \/ aged' = aged \ {h} /\ call[h].step = "done"
        /\ Returns(h) \/ Abandon(h)
    BY <1>5 DEF Quarantine, Archive, Forget, ControlAnswers, Synced, Returns, Abandon, claimVars
  <2>2. CopiesOK'
    BY <1>1, <1>2, <1>3, <2>1 DEF CopiesOK
  <2>3. /\ OnlyRejections'
        /\ \A g \in Hosts : call'[g].step \in {"begin", "read", "done"}
                              => call[g].step \in {"begin", "read", "done"}
    BY <1>1, <1>2, <2>1, AnsweredKeepsRejections
  <2>4. prec' = [prec EXCEPT ![h] = prec[h]] /\ queue' = [queue EXCEPT ![h] = queue[h]]
        /\ aged \ {h} \subseteq aged'
    BY <1>1, <2>1
  <2>5. Entitled(h)' => Entitled(h)
    <3>1. CASE aged' = aged
      <4>1. /\ Inherited(h, wrec'[h]) /\ Inherited(h, prec'[h])
            /\ queue'[h] # None => Inherited(h, queue'[h])
        BY <1>1, <1>3, <2>1
      <4>2. QED
        BY <2>3, <3>1, <4>1, QuietEntitles
    <3>2. CASE call[h].step = "done"
      BY <3>2 DEF Entitled
    <3>3. QED
      BY <2>1, <3>1, <3>2
  <2>6. QED
    BY <1>2, <1>3, <2>1, <2>2, <2>3, <2>4, <2>5, UngrantedHost
<1>6. CASE Unlink(h)
  <2>1. /\ wpc[h] = "unlink" /\ wpc' = [wpc EXCEPT ![h] = "idle"] /\ queue' = [queue EXCEPT ![h] = None]
        /\ UNCHANGED <<wrec, ppc, prec, status, claimOwner, lease, call>> /\ aged' = aged \ {h}
    BY <1>6 DEF Unlink, ticketVars, claimVars
  <2>2. CopiesOK'
    BY <1>1, <1>2, <2>1 DEF CopiesOK
  <2>3. /\ wrec' = [wrec EXCEPT ![h] = wrec[h]] /\ prec' = [prec EXCEPT ![h] = prec[h]]
        /\ aged \ {h} \subseteq aged'
    BY <1>1, <2>1
  <2>4. Entitled(h)' => Entitled(h)
    <3>1. \A r \in Copies(h)' : r = wrec[h] \/ r = prec[h]
      BY <1>1, <2>1, CopiesOf
    <3>2. ~wrec[h].granted /\ (prec[h].granted => h \notin aged)
      BY <1>2, <2>1 DEF CopiesOK
    <3>3. QED
      BY <1>2, <2>1, <3>1, <3>2 DEF Entitled
  <2>5. QED
    BY <1>2, <1>3, <2>1, <2>2, <2>3, <2>4, UngrantedHost
<1>7. QED
  BY <1>4, <1>5, <1>6

\* Crashes, time, and requests that run at Control or on after their monitors have given up on them.
LEMMA UnrepliedWorld ==
  ASSUME TicketInv, MonitorInv, Unreplied, \A o \in Operators : call[o] = NoCall,
         \/ \E h \in Hosts : Crash(h) \/ LateIntake(h)
         \/ \E c \in Hosts \cup Late : RequestReturns(c) \/ TransitionReads(c, TRUE)
         \/ \E c \in Callers : TransitionWrites(c)
         \/ Tick
  PROVE  Unreplied'
<1>1. /\ wrec \in [Hosts -> Record] /\ prec \in [Hosts -> Record]
      /\ queue \in [Hosts -> Record \cup {None}] /\ wpc \in [Hosts -> WorkerSteps]
      /\ ppc \in [Hosts -> {"watch", "intake", "desk", "idle"}]
      /\ call \in [Callers -> Call]
  BY DEF MonitorInv, MonitorTypeOK, TicketInv, TicketTypeOK
<1>2. /\ \A g \in Hosts : /\ wrec[g] \in Copies(g) /\ prec[g] \in Copies(g)
                          /\ queue[g] # None => queue[g] \in Copies(g)
      /\ \A g \in Hosts : wpc[g] \in {"idle", "down", "boot", "bootWait", "intake", "route", "desk",
                                       "reconcile", "reply", "unlink"}
      /\ OnlyRejections /\ (call' = call => OnlyRejections')
      /\ CopiesOK
  BY <1>1, CopiesOf DEF Unreplied, OnlyRejections, Active
<1>3. ASSUME NEW h \in Hosts, Crash(h) PROVE Unreplied'
  <2>1. /\ wpc' = [wpc EXCEPT ![h] = "down"] /\ wrec' = [wrec EXCEPT ![h] = NewRecord]
        /\ ppc' = [ppc EXCEPT ![h] = IF @ = "watch" THEN "watch" ELSE "idle"]
        /\ prec' = [prec EXCEPT ![h] = NewRecord]
        /\ UNCHANGED <<queue, aged, status, claimOwner, lease>> /\ Abandon(h)
    BY <1>3 DEF Crash, Goto, Forget, Abandon, claimVars
  <2>2. Inherited(h, NewRecord) /\ ~NewRecord.granted /\ (queue[h] # None => Inherited(h, queue[h]))
    BY <1>2, NewIsInherited, InheritedEdits DEF NewRecord
  <2>3. CopiesOK'
    BY <1>1, <1>2, <2>1, <2>2 DEF CopiesOK
  <2>4. queue' = [queue EXCEPT ![h] = queue[h]]
    BY <1>1, <2>1
  <2>5. /\ OnlyRejections'
        /\ \A g \in Hosts : call'[g].step \in {"begin", "read", "done"}
                              => call[g].step \in {"begin", "read", "done"}
    BY <1>1, <1>2, <2>1, AnsweredKeepsRejections
  <2>6. QED
    BY <1>2, <2>1, <2>2, <2>3, <2>4, <2>5, QuietHost
<1>4. ASSUME UNCHANGED <<status, claimOwner, lease, queue, wpc, wrec, ppc, prec, aged>>, OnlyRejections',
             \A g \in Hosts : call'[g].step \in {"begin", "read", "done"}
                                 => call[g].step \in {"begin", "read", "done"}
      PROVE  Unreplied'
  <2>1. \A g \in Hosts : Copies(g)' = Copies(g)
    BY <1>4 DEF Copies
  <2>2. \A g \in Hosts : Entitled(g)' => Entitled(g)
    BY <1>4, <2>1 DEF Entitled
  <2>3. CopiesOK' /\ TokensOK'
    BY <1>2, <1>4, <2>1 DEF CopiesOK, TokensOK, Unreplied
  <2>4. QED
    BY <1>4, <2>1, <2>2, <2>3 DEF Unreplied
<1>5. ASSUME NEW c \in Hosts \cup Late, NEW k \in Call, call' = [call EXCEPT ![c] = k],
             k.step \notin {"begin", "read", "done"} \/ (Active(c) /\ k.to = call[c].to),
             UNCHANGED <<status, claimOwner, lease, queue, wpc, wrec, ppc, prec, aged>>
      PROVE  Unreplied'
  <2>1. \A d \in Hosts \cup Late : call'[d] = call[d] \/ (d = c /\ call'[d] = k)
    BY <1>1, <1>5 DEF Callers
  <2>2. QED
    BY <1>2, <1>4, <1>5, <2>1 DEF OnlyRejections, Active
<1>6. ASSUME NEW c \in Hosts \cup Late, RequestReturns(c) \/ TransitionReads(c, TRUE) PROVE Unreplied'
  <2>1. CASE RequestReturns(c)
    <3>1. NoCall \in Call /\ NoCall.step = "idle"
      BY NoCallIsCall DEF NoCall
    <3>2. QED
      BY <1>5, <2>1, <3>1 DEF RequestReturns, Returns, workVars, claimVars
  <2>2. CASE TransitionReads(c, TRUE)
    <3>1. PICK k \in Call : /\ call' = [call EXCEPT ![c] = k]
                            /\ k.step = "refused" \/ k.to = call[c].to
      BY <1>1, <2>2, ReadLeaves DEF TransitionReads, Callers
    <3>2. Active(c)
      BY <2>2 DEF TransitionReads, TxRead, Active
    <3>3. QED
      BY <1>5, <2>2, <3>1, <3>2 DEF TransitionReads, TxRead, workVars, claimVars
  <2>3. QED
    BY <1>6, <2>1, <2>2
<1>7. ASSUME NEW c \in Callers, TransitionWrites(c) PROVE Unreplied'
  <2>1. c \in Hosts \cup Late /\ call[c].step = "read" /\ call[c].to = "REJECTED"
    BY <1>2, <1>7 DEF TransitionWrites, TxWrite, NoCall, Callers, OnlyRejections, Active
  <2>2. status' = "REJECTED" /\ claimOwner' = None
    BY <1>7, <2>1 DEF TransitionWrites, TxWrite, Unclaims, TERMINAL_STATUSES
  <2>3. /\ UNCHANGED <<queue, wpc, wrec, ppc, prec, aged>>
        /\ \A d \in Hosts \cup Late : call'[d] = call[d] \/ (d = c /\ call'[d].step = "done")
    BY <1>1, <1>7, <2>1 DEF TransitionWrites, TxWrite, NoCall, workVars, Callers
  <2>4. \A g \in Hosts : Copies(g)' = Copies(g)
    BY <2>3 DEF Copies
  <2>5. \A g \in Hosts : Entitled(g)' => Entitled(g)
    BY <2>1, <2>3, <2>4 DEF Entitled
  <2>6. CopiesOK' /\ TokensOK' /\ OnlyRejections'
    BY <1>2, <2>2, <2>3 DEF CopiesOK, TokensOK, OnlyRejections, Active
  <2>7. QED
    BY <2>2, <2>3, <2>4, <2>5, <2>6 DEF Unreplied
<1>8. CASE Tick
  <2>1. /\ UNCHANGED <<status, claimOwner, call, queue, wpc, wrec, ppc, prec>>
        /\ aged' = {h \in Hosts : queue[h] # None}
        /\ \A h \in Hosts : /\ wpc[h] \in {"idle", "down"} /\ ppc[h] \in {"watch", "idle"}
                            /\ call[h] = NoCall
        /\ OnlyRejections'
    BY <1>2, <1>8 DEF Tick, LeaseTick
  <2>2. \A g \in Hosts : Copies(g)' = Copies(g) /\ ~wrec[g].granted /\ ~prec[g].granted
    BY <1>2, <2>1 DEF Copies, CopiesOK
  <2>3. \A g \in Hosts : ~Entitled(g)'
    BY <2>1, <2>2, CopiesOf DEF Entitled, NoCall
  <2>4. CopiesOK' /\ TokensOK'
    BY <1>2, <2>1, <2>2 DEF CopiesOK, TokensOK, Unreplied
  <2>5. QED
    BY <2>1, <2>2, <2>3, <2>4 DEF Unreplied
<1>9. ASSUME NEW h \in Hosts, LateIntake(h) PROVE Unreplied'
  <2>1. /\ Intake(h) /\ wrec' = AfterIntake(h, wrec) /\ prec' = AfterIntake(h, prec)
        /\ queue' = AfterIntake(h, queue) /\ UNCHANGED <<wpc, ppc, aged>>
    BY <1>9 DEF LateIntake
  <2>2. CASE Grantable(h)
    <3>1. \A g \in Hosts : /\ Outdated(g, prec'[g]) /\ prec'[g].granted = prec[g].granted
                           /\ Outdated(g, wrec'[g]) /\ wrec'[g].granted = wrec[g].granted
                           /\ queue'[g] # None => Outdated(g, queue'[g])
                           /\ (queue'[g] = None) <=> (queue[g] = None)
      BY <1>1, <1>2, <2>1, <2>2, MonitorAssumption, GrantOutdates
    <3>2. \A g \in Hosts : \A r \in Copies(g)' : Outdated(g, r) \/ (g = h /\ Fresh(r))
      BY <3>1, CopiesOf
    <3>3. CopiesOK'
      BY <1>2, <2>1, <3>1 DEF CopiesOK
    <3>4. QED
      BY <1>2, <2>1, <2>2, <3>2, <3>3, GrantStep
  <2>3. CASE ~Grantable(h)
    <3>1. UNCHANGED <<status, claimOwner, lease, call, queue, wrec, prec>>
      BY <2>1, <2>3 DEF Intake, AfterIntake, claimVars
    <3>2. QED
      BY <1>2, <1>4, <2>1, <3>1
  <2>4. QED
    BY <2>2, <2>3
<1>10. QED
  BY <1>3, <1>6, <1>7, <1>8, <1>9

\* A worker comes to its reply only from reading a thread without one, and leaves it by replying.
LEMMA ReplyPositions ==
  ASSUME MonitorInv, [MonitorNext]_monitorVars
  PROVE  \/ acks' = acks /\ \A g \in Hosts : At(g, "reply")' => At(g, "reply")
         \/ \E h \in Hosts : /\ At(h, "reply") /\ ~At(h, "reply")' /\ acks' \in {acks, acks + 1}
                             /\ \A g \in Hosts \ {h} : wpc'[g] = wpc[g]
         \/ \E h \in Hosts : /\ At(h, "reconcile") /\ ~ReplyExists(h) /\ acks' = acks
                             /\ \A g \in Hosts \ {h} : wpc'[g] = wpc[g]
<1> USE DEF At, Goto, Save, Forget, Pause, Archive, Queue, Run, worldVars, threadVars
<1>0. wpc \in [Hosts -> WorkerSteps]
  BY DEF MonitorInv, MonitorTypeOK
<1>1. ASSUME NEW h \in Hosts, NEW pc, pc # "reply", wpc' = [wpc EXCEPT ![h] = pc], acks' = acks
      PROVE  acks' = acks /\ \A g \in Hosts : At(g, "reply")' => At(g, "reply")
  BY <1>0, <1>1
<1>2. ASSUME NEW h \in Hosts, WorkerStep(h), ~Reconcile(h), ~Reply(h)
      PROVE  acks' = acks /\ \A g \in Hosts : At(g, "reply")' => At(g, "reply")
  <2>1. CASE Patch(h)
    <3>1. \A p \in DOMAIN WaitOf : WaitOf[p] # "reply"
      BY DEF WaitOf
    <3>2. QED
      BY <1>1, <2>1, <3>1 DEF Patch
  <2>2. CASE StartPass(h) \/ WorkerIntake(h) \/ Route(h) \/ WorkerDesk(h) \/ Unlink(h) \/ Quarantine(h)
    BY <1>1, <2>2 DEF StartPass, WorkerIntake, Route, WorkerDesk, Unlink, Quarantine
  <2>3. CASE AckDone(h) \/ PendingApplied(h) \/ PendingWaits(h) \/ AfterAck(h) \/ StartWorker(h) \/ Refresh(h)
    BY <1>1, <2>3 DEF AckDone, PendingApplied, PendingWaits, AfterAck, StartWorker, Refresh
  <2>4. CASE (\E ok \in BOOLEAN : CodexExit(h, ok)) \/ \E stale \in BOOLEAN : Boot(h, stale)
    BY <1>1, <2>4 DEF CodexExit, Boot
  <2>5. QED
    BY <1>2, <2>1, <2>2, <2>3, <2>4 DEF WorkerStep
<1>3. ASSUME NEW h \in Hosts, Reply(h)
      PROVE  /\ At(h, "reply") /\ ~At(h, "reply")' /\ acks' \in {acks, acks + 1}
             /\ \A g \in Hosts \ {h} : wpc'[g] = wpc[g]
  BY <1>0, <1>3 DEF Reply
<1>4. ASSUME NEW h \in Hosts, Reconcile(h)
      PROVE  \/ acks' = acks /\ \A g \in Hosts : At(g, "reply")' => At(g, "reply")
             \/ /\ At(h, "reconcile") /\ ~ReplyExists(h) /\ acks' = acks
                /\ \A g \in Hosts \ {h} : wpc'[g] = wpc[g]
  BY <1>0, <1>1, <1>4 DEF Reconcile
<1>5. ASSUME NEW h \in Hosts, Crash(h)
      PROVE  acks' = acks /\ \A g \in Hosts : At(g, "reply")' => At(g, "reply")
  BY <1>1, <1>5 DEF Crash
<1>6. ASSUME UNCHANGED <<wpc, acks>>
      PROVE  acks' = acks /\ \A g \in Hosts : At(g, "reply")' => At(g, "reply")
  BY <1>6
<1>7. ASSUME NEW h \in Hosts, PollStep(h) \/ LateIntake(h) PROVE UNCHANGED <<wpc, acks>>
  BY <1>7 DEF PollStep, Watch, PollIntake, PollDesk, LateIntake
<1>8. CASE \E h \in Hosts : WorkerStep(h) \/ Crash(h) \/ PollStep(h) \/ LateIntake(h)
  BY <1>2, <1>3, <1>4, <1>5, <1>6, <1>7, <1>8
<1>9. ASSUME ~\E h \in Hosts : WorkerStep(h) \/ Crash(h) \/ PollStep(h) \/ LateIntake(h)
      PROVE  UNCHANGED <<wpc, acks>>
  BY <1>9 DEF MonitorNext, TransitionReads, TransitionWrites, RequestReturns, OperatorUpdates,
     ForegroundReplies, Tick, workVars, monitorVars
<1>10. QED
  BY <1>6, <1>8, <1>9

\* Operators that ask for nothing have no request at Control.
LEMMA IdleOperators ==
  ASSUME TicketInv, MonitorInv, [MonitorNext]_monitorVars, updates' = 0,
         updates = 0 => \A o \in Operators : call[o] = NoCall
  PROVE  updates = 0 /\ \A o \in Operators : call'[o] = NoCall
<1>1. /\ updates \in Nat /\ call \in [Callers -> Call] /\ Hosts \cap Operators = {}
  BY TicketAssumption DEF MonitorInv, MonitorTypeOK, TicketInv, TicketTypeOK
<1>2. ASSUME NEW h \in Hosts, WorkerStep(h) PROVE updates = 0
  BY <1>2 DEF WorkerStep, StartPass, WorkerIntake, Route, WorkerDesk, Unlink, Quarantine, AckDone,
     PendingApplied, PendingWaits, AfterAck, StartWorker, Refresh, CodexExit, Boot, Patch, Reconcile, Reply,
     Applied, ControlAnswers, DeskFails, IntakeUnanswered, Fault, boundVars
<1>3. ASSUME NEW h \in Hosts, PollStep(h) \/ Crash(h) \/ LateIntake(h) PROVE updates = 0
  BY <1>3 DEF PollStep, Watch, PollIntake, PollDesk, IntakeUnanswered, Fault, boundVars, Crash, LateIntake
<1>4. ASSUME NEW o \in Operators, NEW u \in Updates, OperatorUpdates(o, u) PROVE FALSE
  BY <1>1, <1>4 DEF OperatorUpdates
<1>5. updates = 0
  BY <1>2, <1>3, <1>4 DEF MonitorNext, TransitionReads, TransitionWrites, RequestReturns,
     ForegroundReplies, Tick, boundVars, monitorVars
<1>6. \A o \in Operators : call[o] = NoCall /\ call[o].step = "idle"
  BY <1>5 DEF NoCall
<1>7. ASSUME \/ call' = call
             \/ \E c \in Hosts \cup Late : \E k : call' = [call EXCEPT ![c] = k]
             \/ \E h \in Hosts : Returns(h) \/ Abandon(h)
      PROVE  \A o \in Operators : call'[o] = NoCall
  <2>1. \A o \in Operators : o \in Callers \ (Hosts \cup Late)
    BY <1>1, TicketAssumption DEF Callers, Late
  <2>2. QED
    BY <1>1, <1>6, <1>7, <2>1, AnsweredRequests
<1>8. ASSUME NEW h \in Hosts, WorkerStep(h)
      PROVE  call' = call \/ (\E k : call' = [call EXCEPT ![h] = k]) \/ Returns(h) \/ Abandon(h)
  <2>1. CASE Patch(h)
    BY <2>1 DEF Patch, BeginClaimed, Begin, RefuseClaimed
  <2>2. CASE WorkerIntake(h) \/ Refresh(h)
    BY <2>2 DEF WorkerIntake, Refresh, WorkerTakes, IntakeUnanswered, Intake, ticketVars
  <2>3. CASE AckDone(h) \/ PendingApplied(h) \/ PendingWaits(h) \/ Quarantine(h)
    BY <2>3, AnswerIsTicketStep DEF AckDone, PendingApplied, Applied, PendingWaits, Quarantine
  <2>4. CASE UNCHANGED ticketVars
    BY <2>4 DEF ticketVars
  <2>5. QED
    BY <1>8, <2>1, <2>2, <2>3, <2>4 DEF WorkerStep, StartPass, Route, WorkerDesk, Unlink, AfterAck,
       StartWorker, CodexExit, Boot, Reconcile, Reply
<1>9. ASSUME NEW h \in Hosts, PollStep(h) \/ LateIntake(h) PROVE call' = call
  BY <1>9 DEF PollStep, Watch, PollIntake, PollDesk, IntakeUnanswered, Intake, LateIntake, ticketVars
<1>10. ASSUME NEW c \in Callers, TransitionWrites(c) \/ TransitionReads(c, TRUE) \/ RequestReturns(c)
       PROVE  c \in Hosts \cup Late /\ \E k : call' = [call EXCEPT ![c] = k]
  BY <1>6, <1>10 DEF TransitionWrites, TxWrite, TransitionReads, TxRead, RequestReturns, Returns, Callers
<1>11. ASSUME NEW o \in Operators, RequestReturns(o) \/ \E note \in BOOLEAN : TransitionReads(o, note)
       PROVE  FALSE
  BY <1>6, <1>11 DEF RequestReturns, Returns, TransitionReads, TxRead
<1>12. CASE ForegroundReplies \/ Tick \/ UNCHANGED monitorVars
  <2>1. call' = call
    BY <1>12, Zenon DEF ForegroundReplies, Tick, LeaseTick, monitorVars, ticketVars
  <2>2. QED
    BY <1>5, <1>6, <2>1
<1>13. \A o \in Operators : call'[o] = NoCall
  <2>1. ASSUME NEW h \in Hosts, WorkerStep(h) \/ PollStep(h) \/ LateIntake(h) \/ Crash(h)
        PROVE  \A o \in Operators : call'[o] = NoCall
    BY <1>7, <1>8, <1>9, <2>1 DEF Crash
  <2>2. ASSUME NEW c \in Callers, \/ TransitionWrites(c) \/ RequestReturns(c)
                                  \/ c \in Hosts \cup Late /\ TransitionReads(c, TRUE)
        PROVE  \A o \in Operators : call'[o] = NoCall
    BY <1>7, <1>10, <2>2
  <2>3. QED
    BY <1>4, <1>11, <1>12, <2>1, <2>2 DEF MonitorNext, Callers
<1>14. QED
  BY <1>5, <1>13

\* A foreground session's reply stays in the thread.
LEMMA ForegroundStays == [MonitorNext]_monitorVars /\ foreground => foreground'
<1> SUFFICES ASSUME [MonitorNext]_monitorVars, foreground, ~ForegroundReplies PROVE foreground' = foreground
  BY Zenon DEF ForegroundReplies
<1> USE DEF worldVars, threadVars
<1>1. ASSUME NEW h \in Hosts, WorkerStep(h) PROVE foreground' = foreground
  BY <1>1 DEF WorkerStep, StartPass, WorkerIntake, Route, WorkerDesk, Unlink, Quarantine, AckDone,
     PendingApplied, PendingWaits, AfterAck, StartWorker, Refresh, CodexExit, Boot, Patch, Reconcile, Reply,
     Queue, Run
<1>2. ASSUME NEW h \in Hosts, PollStep(h) \/ Crash(h) \/ LateIntake(h) PROVE foreground' = foreground
  BY <1>2 DEF PollStep, Watch, PollIntake, PollDesk, Crash, LateIntake
<1>3. QED
  BY <1>1, <1>2 DEF MonitorNext, TransitionReads, TransitionWrites, RequestReturns,
     OperatorUpdates, Tick, monitorVars

\* Before the first reply, and while operators ask for nothing, every step keeps Unreplied.
LEMMA UnrepliedStep ==
  ASSUME TicketInv, MonitorInv, Unreplied, [MonitorNext]_monitorVars, acks = 0, ~foreground,
         acks' = 0, ~foreground', updates' = 0, updates = 0, \A o \in Operators : call[o] = NoCall
  PROVE  Unreplied'
<1>1. ASSUME NEW h \in Hosts, WorkerStep(h) PROVE Unreplied'
  <2>1. \/ StartPass(h) \/ Route(h) \/ WorkerDesk(h) \/ Reconcile(h) \/ Reply(h)
        \/ (\E stale \in BOOLEAN : Boot(h, stale))
        \/ WorkerIntake(h) \/ Patch(h) \/ Quarantine(h) \/ Unlink(h)
    <3>1. wpc[h] \in {"idle", "down", "boot", "bootWait", "intake", "route", "desk", "reconcile", "reply",
                      "unlink"}
      BY DEF Unreplied
    <3>2. QED
      BY <1>1, <3>1 DEF WorkerStep, AckDone, PendingApplied, PendingWaits, AfterAck, StartWorker, Refresh,
         CodexExit, At
  <2>2. QED
    BY <2>1, UnrepliedPass, UnrepliedIntake, UnrepliedRequests
<1>2. ASSUME NEW h \in Hosts, PollStep(h) PROVE Unreplied'
  BY <1>2, UnrepliedPoll DEF PollStep
<1>3. CASE \/ \E h \in Hosts : Crash(h) \/ LateIntake(h)
           \/ \E c \in Hosts \cup Late : RequestReturns(c) \/ TransitionReads(c, TRUE)
           \/ \E c \in Callers : TransitionWrites(c)
           \/ Tick
  BY <1>3, UnrepliedWorld
<1>4. ASSUME NEW o \in Operators, \/ RequestReturns(o) \/ \E note \in BOOLEAN : TransitionReads(o, note)
                                  \/ \E u \in Updates : OperatorUpdates(o, u)
      PROVE  FALSE
  BY <1>4 DEF RequestReturns, Returns, TransitionReads, TxRead, OperatorUpdates, NoCall
<1>5. ~ForegroundReplies
  BY Zenon DEF ForegroundReplies
<1>6. CASE UNCHANGED monitorVars
  BY <1>6 DEF monitorVars, ticketVars, claimVars, workVars, Unreplied, TokensOK, CopiesOK, Copies,
     Entitled, OnlyRejections, Active
<1>7. QED
  BY <1>1, <1>2, <1>3, <1>4, <1>5, <1>6 DEF MonitorNext

\* Nothing has been asked of anyone.
LEMMA AckInitially == MonitorInit => AckInv
<1> SUFFICES ASSUME MonitorInit PROVE AckInv
  OBVIOUS
<1>1. \A c \in Callers : call[c] = NoCall
  BY DEF MonitorInit, TicketInit
<1>2. \A h \in Hosts : \A r \in Copies(h) : r = NewRecord
  BY CopiesOf DEF MonitorInit
<1>3. Unreplied
  BY <1>1, <1>2 DEF MonitorInit, TicketInit, Unreplied, TokensOK, CopiesOK, Entitled, NewRecord, NoCall,
     OnlyRejections, Active, Callers
<1>4. QED
  BY <1>1, <1>3 DEF MonitorInit, AckInv, At, Callers

\* Every step keeps AckInv.
LEMMA AckStep == TicketInv /\ MonitorInv /\ AckInv /\ [MonitorNext]_monitorVars => AckInv'
<1> SUFFICES ASSUME TicketInv, MonitorInv, AckInv, [MonitorNext]_monitorVars, updates' = 0
             PROVE  /\ \A o \in Operators : call'[o] = NoCall
                    /\ acks' <= 1
                    /\ \A h \in Hosts : At(h, "reply")' => acks' = 0
                    /\ \A g, h \in Hosts : At(g, "reply")' /\ At(h, "reply")' => g = h
                    /\ acks' = 0 /\ ~foreground' => Unreplied'
  BY DEF AckInv
<1>1. updates = 0 /\ \A o \in Operators : call[o] = NoCall /\ call'[o] = NoCall
  BY IdleOperators DEF AckInv
<1>2. /\ acks \in Nat /\ acks <= 1
      /\ \A h \in Hosts : At(h, "reply") => acks = 0
      /\ \A g, h \in Hosts : At(g, "reply") /\ At(h, "reply") => g = h
      /\ acks = 0 /\ ~foreground => Unreplied
  BY <1>1 DEF AckInv, MonitorInv, MonitorTypeOK
<1> HIDE DEF AckInv
<1>3. ASSUME NEW h \in Hosts, At(h, "reconcile"), ~ReplyExists(h)
      PROVE  acks = 0 /\ \A g \in Hosts : ~At(g, "reply")
  <2>1. acks = 0 /\ ~foreground
    BY <1>2, <1>3 DEF ReplyExists
  <2>2. \A g \in Hosts : At(g, "reply") \/ At(g, "reconcile") => Entitled(g)
    BY <1>2, <2>1, CopiesOf DEF Unreplied, CopiesOK, Entitled, At
  <2>3. \A g \in Hosts : At(g, "reply") => g = h
    BY <1>2, <1>3, <2>1, <2>2 DEF Unreplied
  <2>4. QED
    BY <1>3, <2>1, <2>3 DEF At
<1>4. /\ acks' <= 1 /\ acks' >= acks
      /\ \A h \in Hosts : At(h, "reply")' => acks' = 0
      /\ \A g, h \in Hosts : At(g, "reply")' /\ At(h, "reply")' => g = h
  BY <1>2, <1>3, ReplyPositions DEF At
<1>5. foreground => foreground'
  BY ForegroundStays
<1>6. ASSUME acks' = 0, ~foreground' PROVE Unreplied'
  BY <1>1, <1>2, <1>4, <1>5, <1>6, UnrepliedStep
<1>7. QED
  BY <1>1, <1>4, <1>6

\* ensure_acknowledged and the claim: however hosts, restarts, foreground sessions and lost answers
\* interleave, the monitors acknowledge a message once, as long as no operator moves its ticket.
THEOREM OneAcknowledgment == MonitorSpec => []AckOnce
<1>1. AckInv => AckOnce
  BY DEF AckInv, AckOnce
<1>2. QED
  BY <1>1, AckInitially, AckStep, MonitorInvariant, PTL DEF MonitorSpec

-----------------------------------------------------------------------------
(***************************************************************************)
(* A finished ticket stays finished.                                       *)
(***************************************************************************)

\* Two copies with the same token, pending transition and status.
Alike(r, o) == r.latest = o.latest /\ r.pending = o.pending /\ r.cst = o.cst

\* Copies that are alike are kept alike.
LEMMA AlikeKept == ASSUME NEW h, NEW r, NEW o, CopyKept(h, o), Alike(r, o) PROVE CopyKept(h, r)
BY DEF CopyKept, Alike

\* The record enqueue builds carries no token and no transition.
LEMMA NewIsKept == ASSUME NEW h PROVE CopyKept(h, NewRecord) /\ ~NewRecord.latest
BY DEF CopyKept, NewRecord

\* What a pass writes into its copy beside the pending transition leaves it alike.
LEMMA AlikeEdits ==
  ASSUME NEW r \in Record
  PROVE  /\ \A d \in {"task", "fingerprint"} : Alike([r EXCEPT !.desk = d], r)
         /\ \A e \in BOOLEAN : Alike([r EXCEPT !.acked = TRUE, !.inFlight = FALSE, !.existing = e], r)
         /\ Alike([r EXCEPT !.acked = TRUE, !.inFlight = FALSE], r)
         /\ \A e \in BOOLEAN : Alike([r EXCEPT !.inFlight = e], r)
         /\ Alike([r EXCEPT !.ready = FALSE, !.attempts = @ + 1], r)
BY DEF Alike, Record

\* The requests of a host, and whose requests there are.
LEMMA RequestsOf ==
  /\ \A h \in Hosts : h \in Requests(h) /\ Requests(h) \subseteq Hosts \cup Late
  /\ \A g, h \in Hosts : g # h => Requests(g) \cap Requests(h) = {}
  /\ \A c \in Hosts \cup Late : \E h \in Hosts : c \in Requests(h)
BY TicketAssumption, SMTT(30) DEF Requests, Late

\* Every request of h at Control was one of h before.
Carried(h) ==
  \A c \in Requests(h) : Active(c)' => \E d \in Requests(h) : Active(d) /\ call'[c].to = call[d].to

\* Then no request begins to finish the ticket.
LEMMA CarriedFinishes == ASSUME \A g \in Hosts : Carried(g), FinishUnderway' PROVE FinishUnderway
<1>1. PICK c \in Hosts \cup Late : Active(c)' /\ call'[c].to \in Finished
  BY DEF FinishUnderway
<1>2. PICK g \in Hosts : c \in Requests(g)
  BY RequestsOf
<1>3. PICK d \in Requests(g) : Active(d) /\ call'[c].to = call[d].to
  BY <1>1, <1>2 DEF Carried
<1>4. QED
  BY <1>1, <1>2, <1>3, RequestsOf DEF FinishUnderway

\* Whatever is at Control for h stays in order, as long as its record waits for what it waited for.
LEMMA RequestsStay ==
  ASSUME NEW h \in Hosts, RequestKept(h), Carried(h),
         status' = status \/ (status = None /\ status' = "RECEIVED"),
         crashes > 0 => crashes' > 0, h \in expired => h \in expired',
         \A c \in Requests(h) : Active(c) =>
           /\ Due(h)'
           /\ call[c].to \in Settled /\ Closing(h, call[c].to) =>
                /\ queue'[h] # None => queue'[h].pending = call[c].to
                /\ wpc'[h] \in {"idle", "down", "unlink"} \/ wrec'[h].pending = call[c].to
           /\ call[c].to = "REJECTED" /\ FinishUnderway' => FinishUnderway \/ crashes > 0,
         Active(h)' => /\ Active(h) /\ call'[h].to = call[h].to
                       /\ wpc'[h] = wpc[h] /\ wrec'[h].pending = wrec[h].pending,
         call'[h].step = "done" /\ wpc'[h] \in {"resumeWait", "pendWait"} /\ wrec'[h].pending \in Finished
           => FinalStatus'
  PROVE  RequestKept(h)'
<1>1. "RECEIVED" \notin Settled /\ Finished \subseteq Settled
  BY DEF Settled, Finished
<1>2. ASSUME NEW c \in Requests(h), Active(c)' PROVE Allowed(h, c)'
  <2>1. PICK d \in Requests(h) : Active(d) /\ call'[c].to = call[d].to
    BY <1>2 DEF Carried
  <2>2. Allowed(h, d)
    BY <2>1 DEF RequestKept
  <2>3. call'[c].to \in Targets /\ Due(h)'
    BY <2>1, <2>2 DEF Allowed
  <2>4. (call[c].to \in Settled => Closing(h, call[c].to) \/ (call[c].to = "REJECTED" /\ h \in expired))'
    BY <2>1, <2>2 DEF Allowed, Closing
  <2>5. (call[c].to = "REJECTED" => crashes > 0 \/ (status \notin Finished /\ ~FinishUnderway))'
    BY <1>1, <2>1, <2>2 DEF Allowed
  <2>6. QED
    BY <2>3, <2>4, <2>5 DEF Allowed
<1>3. Active(h)' => Awaited(h)'
  BY <1>1 DEF RequestKept, Awaited, At
<1>4. QED
  BY <1>2, <1>3 DEF RequestKept

\* A host whose threads and requests rest keeps what it has, though a grant may outdate its copies.
LEMMA KeptBeside ==
  ASSUME MonitorInv, NEW g \in Hosts, HostKept(g),
         status' = status \/ (status = None /\ status' = "RECEIVED"),
         crashes > 0 => crashes' > 0, (g \in expired') <=> (g \in expired),
         wpc'[g] = wpc[g], ppc'[g] = ppc[g], ended'[g] = ended[g],
         wrec'[g].pending = wrec[g].pending, wrec'[g].cst = wrec[g].cst,
         wrec'[g].latest => wrec[g].latest,
         prec'[g].pending = prec[g].pending, prec'[g].cst = prec[g].cst,
         prec'[g].latest => prec[g].latest,
         (queue'[g] = None) <=> (queue[g] = None),
         queue[g] # None => /\ queue'[g].pending = queue[g].pending /\ queue'[g].cst = queue[g].cst
                            /\ queue'[g].latest => queue[g].latest,
         \/ claimOwner' = claimOwner
         \/ ~wrec'[g].latest /\ ~prec'[g].latest /\ (queue'[g] # None => ~queue'[g].latest),
         \A c \in Requests(g) :
           /\ call'[c] = call[c]
           /\ Active(c) => Due(g)' /\ (call[c].to = "REJECTED" /\ FinishUnderway' => FinishUnderway \/ crashes > 0)
  PROVE  HostKept(g)'
<1>1. None # "REJECTED" /\ None \notin Finished /\ "RECEIVED" \notin Finished
  BY TicketAssumption, StatusNames DEF Finished
<1>2. FinalStatus => FinalStatus'
  BY <1>1 DEF FinalStatus
<1>3. /\ CopyKept(g, wrec[g]) /\ CopyKept(g, prec[g])
      /\ queue[g] # None => CopyKept(g, queue[g])
      /\ ThreadsKept(g) /\ RequestKept(g)
      /\ ended[g] \cap {"completed", "exhausted"} # {} => FinalStatus
  BY CopiesOf DEF HostKept
<1>4. \A r \in Copies(g)' : CopyKept(g, r)'
  <2>1. CopyKept(g, wrec[g])'
    BY <1>1, <1>3 DEF CopyKept
  <2>2. CopyKept(g, prec[g])'
    BY <1>1, <1>3 DEF CopyKept
  <2>3. queue'[g] # None => CopyKept(g, queue[g])'
    BY <1>1, <1>3 DEF CopyKept
  <2>4. QED
    BY <2>1, <2>2, <2>3, CopiesOf
<1>5. ThreadsKept(g)'
  BY <1>3 DEF ThreadsKept, MonitorInv, PassOK, At
<1>6. RequestKept(g)'
  <2>1. g \in Requests(g)
    BY RequestsOf
  <2>2. Carried(g) /\ (Active(g)' => Active(g))
    BY <2>1 DEF Carried, Active
  <2>3. \A c \in Requests(g) : Active(c) /\ Closing(g, call[c].to) =>
          /\ queue'[g] # None => queue'[g].pending = call[c].to
          /\ wpc'[g] \in {"idle", "down", "unlink"} \/ wrec'[g].pending = call[c].to
    BY DEF Closing
  <2>4. /\ call'[g] = call[g]
        /\ call[g].step = "done" /\ wpc[g] \in {"resumeWait", "pendWait"} /\ wrec[g].pending \in Finished
             => FinalStatus'
    BY <1>2, <1>3, <2>1 DEF RequestKept
  <2>5. \A c \in Requests(g) : Active(c) =>
          /\ Due(g)'
          /\ call[c].to \in Settled /\ Closing(g, call[c].to) =>
               /\ queue'[g] # None => queue'[g].pending = call[c].to
               /\ wpc'[g] \in {"idle", "down", "unlink"} \/ wrec'[g].pending = call[c].to
          /\ call[c].to = "REJECTED" /\ FinishUnderway' => FinishUnderway \/ crashes > 0
    BY <2>3
  <2>6. QED
    BY <1>3, <2>2, <2>4, <2>5, RequestsStay
<1>7. QED
  BY <1>2, <1>3, <1>4, <1>5, <1>6 DEF HostKept

\* What a position of the worker asks of its copy and of its file.
Position(pc, w, q) ==
  /\ pc \in {"idle", "down", "unlink"} => ~w.latest
  /\ pc \in {"down", "boot", "bootWait"} => crashes > 0
  /\ pc \in {"intake", "route", "desk", "reconcile", "reply", "ackSync", "ackWait", "next", "start",
             "running", "lost"} => w.pending = "none"
  /\ pc \in {"desk", "reconcile", "reply", "ackSync", "ackWait", "next"} => w.cst \notin Finished
  /\ pc = "start" => q.pending = "none"
  /\ pc \in {"resume", "pend"} => q.pending = w.pending

\* What the requests still at Control ask of them.
Behind(h, pc, w, q) ==
  \A c \in Requests(h) : Active(c) /\ call[c].to \in Settled /\ Closing(h, call[c].to) =>
    q.pending = call[c].to /\ (pc \in {"idle", "down", "unlink"} \/ w.pending = call[c].to)

\* What the quarantine asks of the position, once it has found the record too old.
Ages(h, pc) ==
  /\ h \in expired => h \in expired'
  /\ h \in expired' => pc \in {"down", "boot", "bootWait", "unlink"} /\ crashes > 0
  /\ pc \in {"boot", "bootWait"} => h \in expired'

\* Only h moves, and the ticket does not.
Moves(h, pc, w, q) ==
  /\ status' = status /\ claimOwner' = claimOwner /\ lease' = lease /\ crashes' = crashes
  /\ wpc' = [wpc EXCEPT ![h] = pc] /\ wrec' = [wrec EXCEPT ![h] = w] /\ queue' = [queue EXCEPT ![h] = q]
  /\ UNCHANGED <<ppc, prec>>
  /\ \A g \in Hosts \ {h} : /\ \A c \in Requests(g) : call'[c] = call[c]
                            /\ ended'[g] = ended[g] /\ ((g \in expired') <=> (g \in expired))

\* Where h does not move, its fellows rest.
LEMMA OthersKept ==
  ASSUME TicketInv, MonitorInv, \A g \in Hosts : HostKept(g), NEW h \in Hosts, NEW pc, NEW w, NEW q,
         Moves(h, pc, w, q), NEW g \in Hosts \ {h},
         \A c \in Requests(g) :
           Active(c) /\ call[c].to = "REJECTED" /\ FinishUnderway' => FinishUnderway \/ crashes > 0
  PROVE  HostKept(g)'
<1>1. /\ wpc'[g] = wpc[g] /\ wrec'[g] = wrec[g] /\ queue'[g] = queue[g]
  BY DEF Moves, MonitorInv, MonitorTypeOK
<1>2. \A c \in Requests(g) : call'[c] = call[c] /\ (Active(c) => Due(g)')
  BY DEF HostKept, RequestKept, Allowed, Due, Moves
<1>3. /\ status' = status /\ claimOwner' = claimOwner /\ crashes' = crashes
      /\ ppc'[g] = ppc[g] /\ prec'[g] = prec[g] /\ ended'[g] = ended[g] /\ ((g \in expired') <=> (g \in expired))
  BY DEF Moves
<1>4. QED
  BY <1>1, <1>2, <1>3, KeptBeside

\* A step of a pass that leaves its requests in order.
LEMMA KeptStep ==
  ASSUME TicketInv, MonitorInv, \A g \in Hosts : HostKept(g), NEW h \in Hosts, NEW pc, NEW w, NEW q \in Record,
         Moves(h, pc, w, q), ppc[h] = "idle",
         CopyKept(h, w), CopyKept(h, q), Position(pc, w, q), Ages(h, pc), RequestKept(h)',
         \A g \in Hosts \ {h} : \A c \in Requests(g) :
           Active(c) /\ call[c].to = "REJECTED" /\ FinishUnderway' => FinishUnderway \/ crashes > 0,
         \/ ended'[h] \cap {"completed", "exhausted"} = ended[h] \cap {"completed", "exhausted"}
         \/ FinalStatus
  PROVE  \A g \in Hosts : HostKept(g)'
<1>1. /\ wpc'[h] = pc /\ wrec'[h] = w /\ queue'[h] = q /\ prec'[h] = prec[h] /\ ppc'[h] = "idle"
  BY DEF Moves, MonitorInv, MonitorTypeOK
<1>2. HostKept(h)
  OBVIOUS
<1>3. q # None /\ CopyKept(h, prec[h]) /\ ~prec[h].latest
  BY <1>2, MonitorAssumption, CopiesOf DEF HostKept, ThreadsKept
<1>4. \A r \in Copies(h)' : CopyKept(h, r)'
  <2>1. \A r \in Copies(h)' : CopyKept(h, r)
    BY <1>1, <1>3, CopiesOf
  <2>2. QED
    BY <2>1 DEF CopyKept, Moves
<1>5. ThreadsKept(h)'
  BY <1>1, <1>3 DEF ThreadsKept, Position, Moves, Ages, At
<1>6. FinalStatus' <=> FinalStatus
  BY DEF FinalStatus, Moves
<1>7. HostKept(h)'
  BY <1>2, <1>4, <1>5, <1>6 DEF HostKept
<1>8. QED
  BY <1>7, OthersKept

\* A step of a pass that sends no request.
LEMMA KeptPass ==
  ASSUME TicketInv, MonitorInv, \A g \in Hosts : HostKept(g), NEW h \in Hosts, NEW pc, NEW w, NEW q \in Record,
         Moves(h, pc, w, q), ppc[h] = "idle",
         CopyKept(h, w), CopyKept(h, q), Position(pc, w, q), Ages(h, pc), pc \notin {"resumeWait", "pendWait"},
         Carried(h), ~Active(h)', Behind(h, pc, w, q),
         \/ ended'[h] \cap {"completed", "exhausted"} = ended[h] \cap {"completed", "exhausted"}
         \/ FinalStatus
  PROVE  \A g \in Hosts : HostKept(g)'
<1>1. /\ wpc'[h] = pc /\ wrec'[h] = w /\ queue'[h] = q
  BY DEF Moves, MonitorInv, MonitorTypeOK
<1>2. HostKept(h) /\ RequestKept(h)
  BY DEF HostKept
<1>3. FinishUnderway' => FinishUnderway
  <2>1. \A g \in Hosts : Carried(g)
    BY DEF Moves, Carried, Active
  <2>2. QED
    BY <2>1, CarriedFinishes
<1>4. RequestKept(h)'
  <2>1. \A c \in Requests(h) : Active(c) =>
          /\ Due(h)'
          /\ call[c].to \in Settled /\ Closing(h, call[c].to) =>
               /\ queue'[h] # None => queue'[h].pending = call[c].to
               /\ wpc'[h] \in {"idle", "down", "unlink"} \/ wrec'[h].pending = call[c].to
          /\ call[c].to = "REJECTED" /\ FinishUnderway' => FinishUnderway \/ crashes > 0
    BY <1>1, <1>2, <1>3 DEF Behind, RequestKept, Allowed, Due, Moves
  <2>2. QED
    BY <1>1, <1>2, <2>1, RequestsStay DEF Moves, Ages
<1>5. QED
  BY <1>3, <1>4, KeptStep

\* What a pass finds: its file, its copy, and enqueue done.
LEMMA PassFinds ==
  ASSUME MonitorInv, NEW h \in Hosts, HostKept(h)
  PROVE  /\ wrec[h] \in Record /\ CopyKept(h, wrec[h])
         /\ queue[h] # None => queue[h] \in Record /\ CopyKept(h, queue[h])
         /\ wpc[h] \notin {"idle", "down"} => ppc[h] = "idle" /\ queue[h] # None
         /\ wrec = [wrec EXCEPT ![h] = wrec[h]] /\ queue = [queue EXCEPT ![h] = queue[h]]
         /\ ended \in [Hosts -> SUBSET Outcomes]
         /\ Position(wpc[h], wrec[h], queue[h])
         /\ queue[h] # None => Behind(h, wpc[h], wrec[h], queue[h])
         /\ wpc[h] \notin {"ackWait", "bootWait", "resumeWait", "pendWait"} => ~Active(h)
         /\ h \in expired => /\ wpc[h] \in {"idle", "down", "boot", "bootWait", "unlink"} /\ crashes > 0
                             /\ wpc[h] = "idle" => queue[h] = None
         /\ wpc[h] \in {"boot", "bootWait"} => h \in expired
<1>1. /\ wrec \in [Hosts -> Record] /\ queue \in [Hosts -> Record \cup {None}]
      /\ ppc \in [Hosts -> {"watch", "intake", "desk", "idle"}] /\ ended \in [Hosts -> SUBSET Outcomes]
      /\ wpc[h] \notin {"idle", "down"} => queue[h] # None
  BY DEF MonitorInv, MonitorTypeOK, PassOK
<1>2. CopyKept(h, wrec[h]) /\ (queue[h] # None => CopyKept(h, queue[h]))
  BY CopiesOf DEF HostKept
<1>3. Position(wpc[h], wrec[h], queue[h])
  BY DEF HostKept, ThreadsKept, Position
<1>4. queue[h] # None => Behind(h, wpc[h], wrec[h], queue[h])
  BY DEF Behind, Closing
<1>5. wpc[h] \notin {"idle", "down"} => ppc[h] = "idle"
  BY <1>1 DEF HostKept, ThreadsKept
<1>6. /\ wpc[h] \notin {"ackWait", "bootWait", "resumeWait", "pendWait"} => ~Active(h)
      /\ h \in expired => /\ wpc[h] \in {"idle", "down", "boot", "bootWait", "unlink"} /\ crashes > 0
                          /\ wpc[h] = "idle" => queue[h] = None
      /\ wpc[h] \in {"boot", "bootWait"} => h \in expired
  BY DEF HostKept, ThreadsKept, RequestKept, Awaited, At
<1>7. QED
  BY <1>1, <1>2, <1>3, <1>4, <1>5, <1>6

\* A step of a pass that sends no request and ends in no outcome Control must have.
Goes(h, pc, w, q) ==
  /\ q \in Record /\ ppc[h] = "idle"
  /\ wpc' = [wpc EXCEPT ![h] = pc] /\ wrec' = [wrec EXCEPT ![h] = w] /\ queue' = [queue EXCEPT ![h] = q]
  /\ CopyKept(h, w) /\ CopyKept(h, q) /\ Position(pc, w, q) /\ pc \notin {"resumeWait", "pendWait"}
  /\ Behind(h, pc, w, q) /\ Ages(h, pc)

\* The steps of a pass that leave Control alone keep a finished ticket finished.
LEMMA KeptWork ==
  ASSUME TicketInv, MonitorInv, \A g \in Hosts : HostKept(g), NEW h \in Hosts, overlaps' = 0,
         \/ StartPass(h) \/ Route(h) \/ WorkerDesk(h) \/ Reconcile(h) \/ Reply(h) \/ AfterAck(h)
         \/ StartWorker(h) \/ (\E ok \in BOOLEAN : CodexExit(h, ok)) \/ \E stale \in BOOLEAN : Boot(h, stale)
  PROVE  \A g \in Hosts : HostKept(g)'
<1> USE DEF At, Goto, Save, Forget, Pause, Archive, Queue, Run, ticketVars, claimVars, boundVars, Fault
<1>1. /\ wrec[h] \in Record /\ CopyKept(h, wrec[h])
      /\ queue[h] # None => queue[h] \in Record /\ CopyKept(h, queue[h])
      /\ wpc[h] \notin {"idle", "down"} => ppc[h] = "idle" /\ queue[h] # None
      /\ wrec = [wrec EXCEPT ![h] = wrec[h]] /\ queue = [queue EXCEPT ![h] = queue[h]]
      /\ Position(wpc[h], wrec[h], queue[h])
      /\ queue[h] # None => Behind(h, wpc[h], wrec[h], queue[h])
      /\ h \in expired => /\ wpc[h] \in {"idle", "down", "boot", "bootWait", "unlink"} /\ crashes > 0
                          /\ wpc[h] = "idle" => queue[h] = None
  BY PassFinds
<1>2. /\ NewRecord \in Record /\ CopyKept(h, NewRecord) /\ ~NewRecord.latest
  BY NewRecordType, NewIsKept
<1>3. /\ status' = status /\ claimOwner' = claimOwner /\ lease' = lease /\ call' = call /\ crashes' = crashes
      /\ UNCHANGED <<ppc, prec>>
      /\ expired' \in {expired, expired \cup {h}} /\ (wpc[h] # "down" => expired' = expired)
      /\ ~Active(h)
  <2> USE DEF worldVars
  <2>0. wpc[h] \notin {"ackWait", "bootWait", "resumeWait", "pendWait"}
    BY DEF StartPass, Route, WorkerDesk, Reconcile, Reply, AfterAck, StartWorker, CodexExit, Boot
  <2>1. CASE StartPass(h) \/ Route(h) \/ WorkerDesk(h) \/ Reconcile(h) \/ Reply(h)
    BY <2>0, <2>1, PassFinds DEF StartPass, Route, WorkerDesk, Reconcile, Reply
  <2>2. CASE \/ AfterAck(h) \/ StartWorker(h) \/ (\E ok \in BOOLEAN : CodexExit(h, ok))
             \/ \E stale \in BOOLEAN : Boot(h, stale)
    BY <2>0, <2>2, PassFinds DEF AfterAck, StartWorker, CodexExit, Boot
  <2>3. QED
    BY <2>1, <2>2
<1>4. /\ \A g \in Hosts \ {h} : ended'[g] = ended[g]
      /\ ended'[h] \cap {"completed", "exhausted"} = ended[h] \cap {"completed", "exhausted"}
  <2>1. \/ ended' = ended
        \/ \E o \in {"settled", "claimed", "existing", "invalid", "skipped"} :
             ended' = [ended EXCEPT ![h] = @ \cup {o}]
    <3>1. CASE StartPass(h) \/ Route(h) \/ WorkerDesk(h) \/ Reconcile(h) \/ Reply(h)
      BY <3>1 DEF StartPass, Route, WorkerDesk, Reconcile, Reply
    <3>2. CASE \/ AfterAck(h) \/ StartWorker(h) \/ (\E ok \in BOOLEAN : CodexExit(h, ok))
               \/ \E stale \in BOOLEAN : Boot(h, stale)
      BY <3>2 DEF AfterAck, StartWorker, CodexExit, Boot
    <3>3. QED
      BY <3>1, <3>2
  <2>2. ended \in [Hosts -> SUBSET Outcomes]
    BY DEF MonitorInv, MonitorTypeOK
  <2>3. QED
    BY <2>1, <2>2
<1>5. ASSUME NEW pc, NEW w, NEW q, Goes(h, pc, w, q) PROVE \A g \in Hosts : HostKept(g)'
  <2>1. Moves(h, pc, w, q)
    BY <1>3, <1>4, <1>5 DEF Moves, Goes
  <2>2. Carried(h) /\ ~Active(h)'
    BY <1>3 DEF Carried, Active
  <2>3. QED
    BY <1>3, <1>4, <1>5, <2>1, <2>2, KeptPass DEF Goes
<1>6. ASSUME wpc[h] \notin {"idle", "down", "unlink"}, wrec[h].pending = "none", NEW pc, NEW w, NEW q
      PROVE  Behind(h, pc, w, q) /\ (pc \notin {"boot", "bootWait"} => Ages(h, pc))
  <2>1. Behind(h, pc, w, q)
    BY <1>6 DEF Behind, Closing, Settled, Finished
  <2>2. expired' = expired /\ (wpc[h] \notin {"boot", "bootWait"} => h \notin expired)
    BY <1>1, <1>3, <1>6
  <2>3. wpc[h] \notin {"boot", "bootWait"}
    BY DEF StartPass, Route, WorkerDesk, Reconcile, Reply, AfterAck, StartWorker, CodexExit, Boot
  <2>4. QED
    BY <2>1, <2>2, <2>3 DEF Ages
<1>7. CASE StartPass(h)
  <2>1. PICK pc \in {"resume", "intake", "route"} :
          /\ wpc' = [wpc EXCEPT ![h] = pc] /\ (pc = "resume" <=> queue[h].pending # "none")
          /\ wrec' = [wrec EXCEPT ![h] = queue[h]] /\ queue' = queue /\ ended' = ended /\ queue[h] # None
    BY <1>7 DEF StartPass
  <2>2. ppc[h] = "idle" /\ wpc[h] = "idle"
    BY <1>7 DEF StartPass, MonitorInv, MonitorTypeOK
  <2>3. Position(pc, queue[h], queue[h])
    BY <2>1 DEF Position
  <2>4. Behind(h, pc, queue[h], queue[h]) /\ Ages(h, pc)
    BY <1>1, <1>3, <2>1, <2>2 DEF Behind, Ages
  <2>5. /\ queue[h] \in Record /\ CopyKept(h, queue[h]) /\ queue' = [queue EXCEPT ![h] = queue[h]]
        /\ pc \notin {"resumeWait", "pendWait"}
    BY <1>1, <2>1
  <2>6. Goes(h, pc, queue[h], queue[h])
    BY <2>1, <2>2, <2>3, <2>4, <2>5 DEF Goes
  <2>7. QED
    BY <1>5, <2>6
<1>8. ASSUME wpc[h] \in {"route", "next", "start"}, queue' = queue,
             wpc' = [wpc EXCEPT ![h] = "unlink"], wrec' = [wrec EXCEPT ![h] = NewRecord]
      PROVE  Goes(h, "unlink", NewRecord, queue[h])
  <2>1. Position("unlink", NewRecord, queue[h]) /\ wrec[h].pending = "none"
    BY <1>1, <1>2, <1>8 DEF Position
  <2>2. QED
    BY <1>1, <1>2, <1>6, <1>8, <2>1 DEF Goes
<1>9. CASE Route(h)
  <2>1. wpc[h] = "route" /\ queue' = queue /\ wrec[h].pending = "none"
    BY <1>1, <1>9 DEF Route, Position
  <2>2. CASE wpc' = [wpc EXCEPT ![h] = "unlink"]
    <3>1. wrec' = [wrec EXCEPT ![h] = NewRecord]
      BY <1>9, <2>2 DEF Route, MonitorInv, MonitorTypeOK
    <3>2. QED
      BY <1>5, <1>8, <2>1, <2>2, <3>1
  <2>3. CASE \E pc \in {"desk", "next", "reconcile"} : wpc' = [wpc EXCEPT ![h] = pc]
    <3>1. PICK pc \in {"desk", "next", "reconcile"} : wpc' = [wpc EXCEPT ![h] = pc]
      BY <2>3
    <3>2. wrec' = wrec /\ wrec[h].cst \notin Finished
      BY <1>9, <3>1 DEF Route, MonitorInv, MonitorTypeOK, Finished, SettledRemotely
    <3>3. Position(pc, wrec[h], queue[h])
      BY <2>1, <3>1, <3>2 DEF Position
    <3>4. Goes(h, pc, wrec[h], queue[h])
      BY <1>1, <1>6, <2>1, <3>1, <3>2, <3>3 DEF Goes
    <3>5. QED
      BY <1>5, <3>4
  <2>4. QED
    BY <1>9, <2>2, <2>3 DEF Route
<1>10. ASSUME NEW pc \in {"route", "reply", "ackSync", "running"}, NEW r \in Record, Alike(r, wrec[h]),
              wpc[h] \in {"desk", "reconcile", "reply", "next"}, wpc' = [wpc EXCEPT ![h] = pc],
              wrec' = [wrec EXCEPT ![h] = r], queue' = queue \/ queue' = [queue EXCEPT ![h] = r]
       PROVE  \A g \in Hosts : HostKept(g)'
  <2>1. /\ CopyKept(h, r) /\ Position(pc, r, queue[h]) /\ Position(pc, r, r)
        /\ wrec[h].pending = "none"
    BY <1>1, <1>10, AlikeKept DEF Position, Alike
  <2>2. Goes(h, pc, r, queue[h]) \/ Goes(h, pc, r, r)
    BY <1>1, <1>6, <1>10, <2>1 DEF Goes
  <2>3. QED
    BY <1>5, <2>2
<1>11. ASSUME NEW r \in Record, Alike(r, wrec[h]) \/ r = queue[h],
              wpc[h] \in {"desk", "reconcile", "reply", "next", "running", "lost"}, wpc' = [wpc EXCEPT ![h] = "idle"],
              wrec' = [wrec EXCEPT ![h] = NewRecord], queue' = [queue EXCEPT ![h] = r]
       PROVE  \A g \in Hosts : HostKept(g)'
  <2>1. CopyKept(h, r) /\ Position("idle", NewRecord, r) /\ wrec[h].pending = "none"
    BY <1>1, <1>2, <1>11, AlikeKept DEF Position
  <2>2. Goes(h, "idle", NewRecord, r)
    BY <1>1, <1>2, <1>6, <1>11, <2>1 DEF Goes
  <2>3. QED
    BY <1>5, <2>2
<1>12. Alike(wrec[h], wrec[h]) /\ MonitorInv
  BY DEF Alike
<1>13. CASE WorkerDesk(h)
  <2>1. CASE wpc' = [wpc EXCEPT ![h] = "route"]
    <3>1. PICK d \in {"task", "fingerprint"} :
            /\ wrec' = [wrec EXCEPT ![h] = [wrec[h] EXCEPT !.desk = d]]
            /\ queue' = [queue EXCEPT ![h] = [wrec[h] EXCEPT !.desk = d]]
      BY <1>13, <2>1 DEF WorkerDesk, MonitorInv, MonitorTypeOK
    <3>2. [wrec[h] EXCEPT !.desk = d] \in Record /\ Alike([wrec[h] EXCEPT !.desk = d], wrec[h])
      BY <1>1, <3>1, RecordEdits, AlikeEdits
    <3>3. QED
      BY <1>10, <1>13, <2>1, <3>1, <3>2 DEF WorkerDesk
  <2>2. CASE Pause(h, wrec[h])
    BY <1>1, <1>11, <1>12, <1>13, <2>2 DEF WorkerDesk
  <2>3. QED
    BY <1>13, <2>1, <2>2 DEF WorkerDesk
<1>14. CASE Reconcile(h)
  <2>1. wpc[h] = "reconcile"
    BY <1>14 DEF Reconcile
  <2>2. CASE Pause(h, wrec[h])
    BY <1>1, <1>11, <1>12, <2>1, <2>2
  <2>3. CASE wpc' = [wpc EXCEPT ![h] = "ackSync"]
    <3> DEFINE r == [wrec[h] EXCEPT !.acked = TRUE, !.inFlight = FALSE, !.existing = OwnedElsewhere(h)]
    <3>1. wrec' = [wrec EXCEPT ![h] = r] /\ queue' = queue
      BY <1>14, <2>3 DEF Reconcile, MonitorInv, MonitorTypeOK
    <3>2. r \in Record /\ Alike(r, wrec[h])
      BY <1>1, RecordEdits, AlikeEdits DEF OwnedElsewhere
    <3>3. QED
      BY <1>10, <2>1, <2>3, <3>1, <3>2
  <2>4. CASE Goto(h, "reply") /\ Save(h, [wrec[h] EXCEPT !.inFlight = TRUE])
    <3>1. /\ [wrec[h] EXCEPT !.inFlight = TRUE] \in Record
          /\ Alike([wrec[h] EXCEPT !.inFlight = TRUE], wrec[h])
      BY <1>1, RecordEdits, AlikeEdits
    <3>2. QED
      BY <1>10, <2>1, <2>4, <3>1
  <2>5. QED
    BY <1>14, <2>2, <2>3, <2>4 DEF Reconcile
<1>15. CASE Reply(h)
  <2>1. wpc[h] = "reply"
    BY <1>15 DEF Reply
  <2>2. /\ [wrec[h] EXCEPT !.inFlight = FALSE] \in Record
        /\ Alike([wrec[h] EXCEPT !.inFlight = FALSE], wrec[h])
        /\ [wrec[h] EXCEPT !.acked = TRUE, !.inFlight = FALSE] \in Record
        /\ Alike([wrec[h] EXCEPT !.acked = TRUE, !.inFlight = FALSE], wrec[h])
    BY <1>1, RecordEdits, AlikeEdits
  <2>3. CASE Pause(h, [wrec[h] EXCEPT !.inFlight = FALSE])
    BY <1>11, <2>1, <2>2, <2>3
  <2>4. CASE Goto(h, "idle") /\ Forget(h) /\ UNCHANGED queue
    BY <1>1, <1>11, <2>1, <2>4
  <2>5. CASE /\ Goto(h, "ackSync") /\ UNCHANGED queue
             /\ wrec' = [wrec EXCEPT ![h] = [wrec[h] EXCEPT !.acked = TRUE, !.inFlight = FALSE]]
    BY <1>10, <2>1, <2>2, <2>5
  <2>6. QED
    BY <1>15, <2>3, <2>4, <2>5 DEF Reply
<1>16. ASSUME NEW o \in Record, CopyKept(h, o), NEW t \in {"IN_PROGRESS", "REJECTED", "WAITING_RELEASE", "BLOCKED"},
              wpc[h] \in {"next", "running", "lost"}, t \in Finished \/ (o.pending = "none" /\ o.cst \notin Finished),
              Goto(h, "pend"), Save(h, [o EXCEPT !.pending = t])
       PROVE  \A g \in Hosts : HostKept(g)'
  <2> DEFINE r == [o EXCEPT !.pending = t]
  <2>1. r \in Record /\ r.pending = t /\ r.cst = o.cst /\ r.latest = o.latest
    <3>1. t \in PendingTransition
      BY DEF PendingTransition
    <3>2. r \in Record /\ r.pending = t
      BY <3>1, RecordEdits
    <3>3. r.cst = o.cst /\ r.latest = o.latest
      BY DEF Record
    <3>4. QED
      BY <3>2, <3>3
  <2>2. CopyKept(h, r)
    BY <1>16, <2>1 DEF CopyKept, Finished
  <2>3. Position("pend", r, r) /\ wrec[h].pending = "none"
    BY <1>1, <1>16 DEF Position
  <2>4. /\ wpc' = [wpc EXCEPT ![h] = "pend"]
        /\ wrec' = [wrec EXCEPT ![h] = r] /\ queue' = [queue EXCEPT ![h] = r]
    BY <1>16
  <2> HIDE DEF r
  <2>5. ppc[h] = "idle" /\ Behind(h, "pend", r, r) /\ Ages(h, "pend")
    BY <1>1, <1>6, <1>16, <2>3
  <2>6. Goes(h, "pend", r, r)
    BY <2>1, <2>2, <2>3, <2>4, <2>5 DEF Goes
  <2>7. QED
    BY <1>5, <2>6
<1>17. CASE AfterAck(h)
  <2>1. wpc[h] = "next" /\ wrec[h].pending = "none" /\ wrec[h].cst \notin Finished
    BY <1>1, <1>17 DEF AfterAck, Position
  <2>2. CASE Queue(h, wrec[h], "REJECTED")
    BY <1>1, <1>16, <2>1, <2>2
  <2>3. CASE Queue(h, wrec[h], "IN_PROGRESS")
    BY <1>1, <1>16, <2>1, <2>3
  <2>4. CASE Archive(h, "existing")
    BY <1>5, <1>8, <2>1, <2>4
  <2>5. CASE Run(h, wrec[h])
    <3>1. /\ [wrec[h] EXCEPT !.ready = FALSE, !.attempts = @ + 1] \in Record
          /\ Alike([wrec[h] EXCEPT !.ready = FALSE, !.attempts = @ + 1], wrec[h])
      BY <1>1, RecordEdits, AlikeEdits
    <3>2. QED
      BY <1>10, <2>1, <2>5, <3>1
  <2>6. QED
    BY <1>17, <2>2, <2>3, <2>4, <2>5 DEF AfterAck
<1>18. CASE StartWorker(h)
  <2>1. /\ wpc[h] = "start" /\ queue[h] \in Record /\ CopyKept(h, queue[h]) /\ ppc[h] = "idle"
        /\ queue[h].pending = "none" /\ wrec[h].pending = "none"
    BY <1>1, <1>18 DEF StartWorker, Position
  <2>2. CASE Run(h, queue[h])
    <3> DEFINE r == [queue[h] EXCEPT !.ready = FALSE, !.attempts = @ + 1]
    <3>1. r \in Record /\ Alike(r, queue[h])
      BY <2>1, RecordEdits, AlikeEdits
    <3>2. /\ wpc' = [wpc EXCEPT ![h] = "running"]
          /\ wrec' = [wrec EXCEPT ![h] = r] /\ queue' = [queue EXCEPT ![h] = r]
      BY <2>2
    <3> HIDE DEF r
    <3>3. CopyKept(h, r) /\ Position("running", r, r)
      BY <2>1, <3>1, AlikeKept DEF Position, Alike
    <3>4. Goes(h, "running", r, r)
      BY <1>6, <2>1, <3>1, <3>2, <3>3 DEF Goes
    <3>5. QED
      BY <1>5, <3>4
  <2>3. CASE Archive(h, "invalid")
    BY <1>5, <1>8, <2>1, <2>3
  <2>4. QED
    BY <1>18, <2>2, <2>3 DEF StartWorker
<1>19. ASSUME NEW ok \in BOOLEAN, CodexExit(h, ok) PROVE \A g \in Hosts : HostKept(g)'
  <2>1. wpc[h] \in {"running", "lost"} /\ queue[h] \in Record /\ CopyKept(h, queue[h])
    BY <1>1, <1>19 DEF CodexExit
  <2>2. CASE Pause(h, queue[h])
    BY <1>11, <2>1, <2>2
  <2>3. CASE Queue(h, queue[h], "WAITING_RELEASE")
    BY <1>16, <2>1, <2>3 DEF Finished
  <2>4. CASE Queue(h, queue[h], "BLOCKED")
    BY <1>16, <2>1, <2>4 DEF Finished
  <2>5. QED
    BY <1>19, <2>2, <2>3, <2>4 DEF CodexExit
<1>20. ASSUME NEW stale \in BOOLEAN, Boot(h, stale) PROVE \A g \in Hosts : HostKept(g)'
  <2>1. /\ wpc[h] = "down" /\ ~wrec[h].latest /\ crashes > 0 /\ call' = call
        /\ expired' = IF queue[h] # None /\ stale THEN expired \cup {h} ELSE expired
        /\ h \in expired => stale
    BY <1>1, <1>20 DEF Boot, Position
  <2>2. CASE queue[h] = None
    <3>1. wpc' = [wpc EXCEPT ![h] = "idle"] /\ wrec' = wrec /\ queue' = queue /\ ended' = ended
      BY <1>20, <2>2 DEF Boot
    <3>2. ASSUME NEW g \in Hosts \ {h} PROVE HostKept(g)'
      <4>1. /\ wpc'[g] = wpc[g] /\ wrec' = wrec /\ queue' = queue /\ ended' = ended /\ expired' = expired
            /\ ppc' = ppc /\ prec' = prec
        BY <1>3, <2>1, <2>2, <3>1 DEF MonitorInv, MonitorTypeOK
      <4>2. \A c \in Requests(g) : call'[c] = call[c] /\ (Active(c) => Due(g)')
        BY <1>3 DEF HostKept, RequestKept, Allowed, Due
      <4>3. FinishUnderway' => FinishUnderway
        BY <1>3 DEF FinishUnderway, Active
      <4>4. QED
        BY <1>3, <4>1, <4>2, <4>3, KeptBeside
    <3>3. HostKept(h)'
      <4>1. wpc'[h] = "idle"
        BY <3>1 DEF MonitorInv, MonitorTypeOK
      <4>2. \A r \in Copies(h)' : CopyKept(h, r)'
        BY <1>3, <3>1, CopiesOf DEF HostKept, CopyKept
      <4>3. ThreadsKept(h)'
        BY <1>3, <2>1, <2>2, <3>1, <4>1 DEF HostKept, ThreadsKept, At
      <4>4. RequestKept(h)'
        <5>1. RequestKept(h) /\ Carried(h) /\ ~Active(h)' /\ expired' = expired
          BY <1>3, <2>1, <2>2 DEF HostKept, Carried, Active
        <5>2. \A c \in Requests(h) : Active(c) =>
                /\ Due(h)'
                /\ call[c].to \in Settled /\ Closing(h, call[c].to) =>
                     /\ queue'[h] # None => queue'[h].pending = call[c].to
                     /\ wpc'[h] \in {"idle", "down", "unlink"} \/ wrec'[h].pending = call[c].to
                /\ call[c].to = "REJECTED" /\ FinishUnderway' => FinishUnderway \/ crashes > 0
          BY <1>3, <2>1, <2>2, <3>1, <4>1, <5>1 DEF RequestKept, Allowed, Due
        <5>3. QED
          BY <1>3, <4>1, <5>1, <5>2, RequestsStay
      <4>5. QED
        BY <1>3, <3>1, <4>2, <4>3, <4>4 DEF HostKept, FinalStatus
    <3>4. QED
      BY <3>2, <3>3
  <2>3. CASE queue[h] # None
    <3>1. ppc[h] = "idle" /\ queue[h] \in Record /\ CopyKept(h, queue[h])
      BY <1>1, <2>1, <2>3 DEF HostKept, ThreadsKept, MonitorInv, MonitorTypeOK
    <3>2. /\ Behind(h, "idle", wrec[h], queue[h]) /\ Behind(h, "boot", queue[h], queue[h])
          /\ Behind(h, "unlink", NewRecord, queue[h])
      BY <1>1, <2>3 DEF Behind
    <3>3. /\ Position("idle", wrec[h], queue[h]) /\ Position("boot", queue[h], queue[h])
          /\ Position("unlink", NewRecord, queue[h])
      BY <1>2, <2>1 DEF Position
    <3>4. CASE ~stale
      <4>0. Goto(h, "idle") /\ UNCHANGED <<wrec, queue, ended>> /\ Ages(h, "idle")
        BY <1>20, <2>1, <2>3, <3>4 DEF Boot, Ages
      <4>1. Goes(h, "idle", wrec[h], queue[h])
        BY <1>1, <3>1, <3>2, <3>3, <4>0 DEF Goes
      <4>2. QED
        BY <1>5, <4>1
    <3>5. CASE stale /\ wrec' = [wrec EXCEPT ![h] = queue[h]] /\ Goto(h, "boot") /\ UNCHANGED <<queue, ended>>
      <4>0. Ages(h, "boot")
        BY <2>1, <2>3, <3>5 DEF Ages
      <4>1. Goes(h, "boot", queue[h], queue[h])
        BY <1>1, <3>1, <3>2, <3>3, <3>5, <4>0 DEF Goes
      <4>2. QED
        BY <1>5, <4>1
    <3>6. CASE stale /\ Archive(h, "skipped")
      <4>0. Ages(h, "unlink")
        BY <2>1, <2>3, <3>6 DEF Ages
      <4>1. Goes(h, "unlink", NewRecord, queue[h])
        BY <1>1, <1>2, <3>1, <3>2, <3>3, <3>6, <4>0 DEF Goes
      <4>2. QED
        BY <1>5, <4>1
    <3>7. QED
      BY <1>20, <2>3, <3>4, <3>5, <3>6 DEF Boot
  <2>4. QED
    BY <2>2, <2>3
<1>21. QED
  BY <1>7, <1>9, <1>13, <1>14, <1>15, <1>17, <1>18, <1>19, <1>20

\* A request that reaches Control is one a finished ticket allows.
LEMMA KeptPatch ==
  ASSUME TicketInv, MonitorInv, \A g \in Hosts : HostKept(g), NEW h \in Hosts, Patch(h)
  PROVE  \A g \in Hosts : HostKept(g)'
<1> DEFINE pc == WaitOf[wpc[h]]
           to == Target(h)
<1>1. /\ wpc[h] \in {"ackSync", "resume", "pend", "boot"} /\ wpc' = [wpc EXCEPT ![h] = pc]
      /\ wpc[h] = "ackSync" => pc = "ackWait" /\ to = "ACKNOWLEDGED"
      /\ wpc[h] = "boot" => pc = "bootWait" /\ to = "REJECTED"
      /\ wpc[h] = "resume" => pc = "resumeWait" /\ to = wrec[h].pending
      /\ wpc[h] = "pend" => pc = "pendWait" /\ to = wrec[h].pending
  BY DEF Patch, WaitOf, Target, At, Goto
<1> HIDE DEF pc
<1>2. /\ wrec[h] \in Record /\ CopyKept(h, wrec[h])
      /\ queue[h] \in Record /\ CopyKept(h, queue[h]) /\ ppc[h] = "idle"
      /\ wrec = [wrec EXCEPT ![h] = wrec[h]] /\ queue = [queue EXCEPT ![h] = queue[h]]
      /\ Position(wpc[h], wrec[h], queue[h])
      /\ h \in expired => wpc[h] = "boot" /\ crashes > 0
      /\ wpc[h] = "boot" => h \in expired
  BY <1>1, PassFinds
<1>3. /\ status' = status /\ claimOwner' = claimOwner /\ lease' = lease /\ crashes' = crashes
      /\ UNCHANGED <<queue, ended, wrec, ppc, prec, expired>>
      /\ call[h] = NoCall
      /\ \/ /\ call' = [call EXCEPT ![h] = [NoCall EXCEPT !.step = "begin", !.to = to, !.input = "keep"]]
            /\ Claimed(wrec[h].latest)
         \/ call' = [call EXCEPT ![h] = [NoCall EXCEPT !.step = "refused"]]
  BY DEF Patch, BeginClaimed, Begin, RefuseClaimed, claimVars, boundVars, worldVars, Fault
<1> HIDE DEF to
<1>4. /\ \A c \in (Hosts \cup Late) \ {h} : call'[c] = call[c]
      /\ \/ call'[h].step = "refused"
         \/ call'[h].step = "begin" /\ call'[h].to = to /\ Claimed(wrec[h].latest)
      /\ call[h].step = "idle"
  <2>1. call \in [Callers -> Call] /\ h \in Callers /\ \A c \in (Hosts \cup Late) \ {h} : c \in Callers
    BY DEF TicketInv, TicketTypeOK, Callers
  <2>2. PICK k : /\ call' = [call EXCEPT ![h] = k]
                 /\ \/ k = [NoCall EXCEPT !.step = "refused"]
                    \/ /\ k = [NoCall EXCEPT !.step = "begin", !.to = to, !.input = "keep"]
                       /\ Claimed(wrec[h].latest)
    BY <1>3
  <2>3. call'[h] = k /\ \A c \in (Hosts \cup Late) \ {h} : call'[c] = call[c]
    BY <2>1, <2>2
  <2>4. k.step = "refused" \/ (k.step = "begin" /\ k.to = to /\ Claimed(wrec[h].latest))
    BY <2>2 DEF NoCall
  <2>5. QED
    BY <1>3, <2>3, <2>4 DEF NoCall
<1>5. h \in Requests(h) /\ \A g \in Hosts : Requests(g) \subseteq Hosts \cup Late /\ (g # h => h \notin Requests(g))
  BY RequestsOf
<1>6. Moves(h, pc, wrec[h], queue[h])
  <2>1. \A g \in Hosts \ {h} : /\ \A c \in Requests(g) : call'[c] = call[c]
                                /\ ended'[g] = ended[g] /\ ((g \in expired') <=> (g \in expired))
    BY <1>3, <1>4, <1>5
  <2>2. QED
    BY <1>1, <1>2, <1>3, <2>1 DEF Moves
<1>7. Position(pc, wrec[h], queue[h]) /\ Ages(h, pc)
  BY <1>1, <1>2, <1>3 DEF Position, Ages
<1>8. wpc'[h] = pc /\ pc \in {"ackWait", "bootWait", "resumeWait", "pendWait"}
  BY <1>1 DEF MonitorInv, MonitorTypeOK
<1>9. wrec[h].pending \in PendingTransition /\ (wpc[h] \in {"resume", "pend"} => wrec[h].pending # "none")
  BY <1>2 DEF Record, MonitorInv, PassOK
<1>10. ASSUME Active(h)'
       PROVE  /\ claimOwner = h /\ lease > 0 /\ status # "REJECTED" /\ wrec[h].latest /\ claimOwner # None
              /\ call'[h].to = to /\ to \in Targets
              /\ to \in Settled => \/ queue[h].pending = to /\ wrec[h].pending = to
                                   \/ to = "REJECTED" /\ h \in expired
              /\ to = "REJECTED" /\ status \in Finished => crashes > 0
              /\ to \notin Settled => status \notin Settled
              /\ pc \in {"resumeWait", "pendWait"} => to = wrec[h].pending
  <2>1. wrec[h].latest /\ claimOwner # None /\ lease > 0 /\ call'[h].to = to
    BY <1>4, <1>10 DEF Active, Claimed
  <2>2. /\ claimOwner = h /\ status # "REJECTED"
        /\ status \in Finished => wrec[h].cst \in Finished \/ wrec[h].pending \in Finished
    BY <1>2, <2>1 DEF CopyKept, TicketInv, SettledTicket, TERMINAL_STATUSES
  <2>3. wrec[h].pending \in {"IN_PROGRESS", "REJECTED"} => wrec[h].cst \notin Finished
    BY <1>2 DEF CopyKept
  <2>4. CASE wpc[h] = "ackSync"
    BY <1>1, <1>2, <2>1, <2>2, <2>4 DEF Position, Finished, Settled, Targets
  <2>5. CASE wpc[h] = "boot"
    BY <1>1, <1>2, <2>1, <2>2, <2>5 DEF Position, Finished, Settled, Targets
  <2>6. CASE wpc[h] \in {"resume", "pend"}
    BY <1>1, <1>2, <1>9, <2>1, <2>2, <2>3, <2>6 DEF Position, Finished, Settled, Targets, PendingTransition
  <2>7. QED
    BY <1>1, <2>4, <2>5, <2>6
<1>11. ASSUME Active(h)', ~(crashes > 0), NEW g \in Hosts, NEW c \in Requests(g), Active(c), call[c].to \in Settled
       PROVE  (g # h => status \in Finished) /\ (g = h => wrec[h].pending = call[c].to)
  <2>1. Allowed(g, c)
    BY <1>11 DEF HostKept, RequestKept
  <2>2. g # h => status \in Settled
    BY <1>10, <1>11, <2>1 DEF Allowed, Due
  <2>3. g = h => Closing(h, call[c].to)
    BY <1>2, <1>11, <2>1 DEF Allowed
  <2>4. QED
    BY <1>1, <1>10, <1>11, <2>2, <2>3 DEF Closing, Settled
<1>12. ASSUME NEW g \in Hosts, NEW c \in Requests(g), Active(c), call[c].to = "REJECTED", FinishUnderway'
       PROVE  FinishUnderway \/ crashes > 0
  <2> SUFFICES ASSUME ~FinishUnderway, ~(crashes > 0) PROVE FALSE
    OBVIOUS
  <2>1. PICK d \in Hosts \cup Late : Active(d)' /\ call'[d].to \in Finished
    BY <1>12 DEF FinishUnderway
  <2>2. d = h /\ to \in Finished
    BY <1>4, <1>10, <2>1 DEF FinishUnderway, Active
  <2>3. call[c].to \in Settled /\ to # "REJECTED" /\ to \in Settled
    BY <1>12, <2>2 DEF Settled, Finished
  <2>4. Allowed(g, c)
    BY <1>12 DEF HostKept, RequestKept
  <2>5. status \notin Finished
    BY <1>12, <2>4 DEF Allowed
  <2>6. QED
    BY <1>10, <1>11, <1>12, <2>1, <2>2, <2>3, <2>5
<1>13. RequestKept(h)'
  <2>1. ASSUME NEW c \in Requests(h), Active(c)', c # h PROVE Allowed(h, c)'
    <3>1. Active(c) /\ call'[c] = call[c] /\ Allowed(h, c)
      BY <1>4, <1>5, <2>1 DEF Active, HostKept, RequestKept
    <3>2. (call[c].to \in Settled => Closing(h, call[c].to) \/ (call[c].to = "REJECTED" /\ h \in expired))'
      BY <1>1, <1>3, <1>8, <3>1 DEF Allowed, Closing
    <3>3. QED
      BY <1>3, <1>12, <3>1, <3>2 DEF Allowed, Due
  <2>2. ASSUME Active(h)' PROVE Allowed(h, h)'
    <3>1. Due(h)' /\ call'[h].to \in Targets
      BY <1>3, <1>10, <2>2 DEF Due
    <3>2. (call[h].to \in Settled => Closing(h, call[h].to) \/ (call[h].to = "REJECTED" /\ h \in expired))'
      BY <1>3, <1>10, <2>2 DEF Closing
    <3>3. ASSUME to = "REJECTED", ~(crashes > 0), FinishUnderway' PROVE FALSE
      <4>1. PICK d \in Hosts \cup Late : Active(d)' /\ call'[d].to \in Finished
        BY <3>3 DEF FinishUnderway
      <4>2. d # h /\ Active(d) /\ call[d].to \in Finished
        BY <1>4, <1>10, <2>2, <3>3, <4>1 DEF Active, Finished
      <4>3. PICK g \in Hosts : d \in Requests(g)
        BY RequestsOf
      <4>4. call[d].to \in Settled /\ "REJECTED" \notin Finished
        BY <4>2 DEF Settled, Finished
      <4>5. g = h /\ wrec[h].pending \in Finished
        BY <1>10, <1>11, <2>2, <3>3, <4>2, <4>3, <4>4
      <4>6. h \notin expired /\ wrec[h].pending = "REJECTED"
        BY <1>2, <1>10, <2>2, <3>3, <4>4 DEF Settled
      <4>7. QED
        BY <4>4, <4>5, <4>6
    <3>4. QED
      BY <1>3, <1>10, <2>2, <3>1, <3>2, <3>3 DEF Allowed
  <2>3. Active(h)' => Awaited(h)'
    BY <1>1, <1>3, <1>8, <1>10 DEF Awaited, At
  <2>4. QED
    BY <1>4, <2>1, <2>2, <2>3 DEF RequestKept
<1>14. QED
  BY <1>2, <1>3, <1>6, <1>7, <1>12, <1>13, KeptStep

\* What an answered or abandoned wait leaves at Control.
LEMMA AnsweredCarries ==
  ASSUME TicketInv, NEW h \in Hosts, Returns(h) \/ Abandon(h)
  PROVE  /\ call'[h] = NoCall /\ Carried(h) /\ ~Active(h)'
         /\ \A g \in Hosts \ {h} : \A c \in Requests(g) : call'[c] = call[c]
<1>1. /\ call'[h] = NoCall
      /\ \A c \in Callers \ ({h} \cup Late) : call'[c] = call[c]
      /\ \A c \in Late : \/ call'[c] = call[c]
                         \/ c \in {h} \X Places /\ call[c] = NoCall /\ Active(h) /\ call'[c] = call[h]
  BY AnsweredRequests DEF TicketInv, TicketTypeOK
<1>2. ~Active(h)'
  BY <1>1 DEF Active, NoCall
<1>3. Carried(h)
  <2>1. ASSUME NEW c \in Requests(h), Active(c)' PROVE \E d \in Requests(h) : Active(d) /\ call'[c].to = call[d].to
    <3>1. c # h /\ c \in Late
      BY <1>2, <2>1 DEF Requests, Late
    <3>2. CASE call'[c] = call[c]
      BY <2>1, <3>2 DEF Active
    <3>3. CASE Active(h) /\ call'[c] = call[h]
      BY <3>3, RequestsOf
    <3>4. QED
      BY <1>1, <3>1, <3>2, <3>3
  <2>2. QED
    BY <2>1 DEF Carried
<1>4. ASSUME NEW g \in Hosts \ {h}, NEW c \in Requests(g) PROVE call'[c] = call[c]
  <2>1. c \notin Requests(h) /\ c \in Hosts \cup Late
    BY RequestsOf
  <2>2. c # h /\ c \notin {h} \X Places
    BY <2>1 DEF Requests
  <2>3. CASE c \in Late
    BY <1>1, <2>2, <2>3
  <2>4. CASE c \notin Late
    BY <1>1, <2>1, <2>2, <2>4 DEF Callers
  <2>5. QED
    BY <2>3, <2>4
<1>5. QED
  BY <1>1, <1>2, <1>3, <1>4

\* Control's answer, or the time-out, ends the wait.
LEMMA KeptAnswer ==
  ASSUME TicketInv, MonitorInv, \A g \in Hosts : HostKept(g), NEW h \in Hosts,
         AckDone(h) \/ PendingApplied(h) \/ PendingWaits(h) \/ Quarantine(h)
  PROVE  \A g \in Hosts : HostKept(g)'
<1> USE DEF At, Goto, Save, Forget, Pause, Archive
<1>1. wpc[h] \in {"ackWait", "resumeWait", "pendWait", "bootWait"}
  BY DEF AckDone, PendingApplied, PendingWaits, Quarantine
<1>2. /\ wrec[h] \in Record /\ CopyKept(h, wrec[h])
      /\ queue[h] \in Record /\ CopyKept(h, queue[h]) /\ ppc[h] = "idle"
      /\ wrec = [wrec EXCEPT ![h] = wrec[h]] /\ queue = [queue EXCEPT ![h] = queue[h]]
      /\ Position(wpc[h], wrec[h], queue[h])
      /\ Behind(h, wpc[h], wrec[h], queue[h])
      /\ ended \in [Hosts -> SUBSET Outcomes]
      /\ h \in expired => wpc[h] = "bootWait" /\ crashes > 0
  BY <1>1, PassFinds
<1>3. /\ NewRecord \in Record /\ CopyKept(h, NewRecord) /\ ~NewRecord.latest
  BY NewRecordType, NewIsKept
<1>4. /\ status' = status /\ claimOwner' = claimOwner /\ lease' = lease /\ crashes' = crashes
      /\ UNCHANGED <<ppc, prec, expired>> /\ (Returns(h) \/ Abandon(h))
  <2> USE DEF worldVars, claimVars
  <2>1. ASSUME NEW ok \in BOOLEAN, ControlAnswers(h, ok)
        PROVE  crashes' = crashes /\ (Returns(h) \/ Abandon(h))
    BY <2>1 DEF ControlAnswers, boundVars, Fault
  <2>2. Returns(h) \/ Abandon(h) => status' = status /\ claimOwner' = claimOwner /\ lease' = lease
    BY DEF Returns, Abandon
  <2>3. CASE AckDone(h)
    BY <2>1, <2>2, <2>3 DEF AckDone
  <2>4. CASE PendingApplied(h)
    BY <2>1, <2>2, <2>4 DEF PendingApplied, Applied
  <2>5. CASE PendingWaits(h)
    BY <2>1, <2>2, <2>5 DEF PendingWaits, DeskFails, Fault
  <2>6. CASE Quarantine(h)
    BY <2>1, <2>2, <2>6 DEF Quarantine
  <2>7. QED
    BY <2>3, <2>4, <2>5, <2>6
<1>5. /\ call'[h] = NoCall /\ Carried(h) /\ ~Active(h)'
      /\ \A g \in Hosts \ {h} : \A c \in Requests(g) : call'[c] = call[c]
  BY <1>4, AnsweredCarries
<1>6. ASSUME NEW pc, NEW w, NEW q, Goes(h, pc, w, q),
             \A g \in Hosts \ {h} : ended'[g] = ended[g],
             \/ ended'[h] \cap {"completed", "exhausted"} = ended[h] \cap {"completed", "exhausted"}
             \/ FinalStatus
      PROVE  \A g \in Hosts : HostKept(g)'
  <2>1. Moves(h, pc, w, q)
    BY <1>4, <1>5, <1>6 DEF Moves, Goes
  <2>2. QED
    BY <1>4, <1>5, <1>6, <2>1, KeptPass DEF Goes
<1>7. CASE AckDone(h)
  <2>1. PICK r \in {[wrec[h] EXCEPT !.cst = "ACKNOWLEDGED"], wrec[h]} :
          /\ wrec' = [wrec EXCEPT ![h] = r] /\ queue' = [queue EXCEPT ![h] = r]
    BY <1>7 DEF AckDone
  <2>2. wpc[h] = "ackWait" /\ wpc' = [wpc EXCEPT ![h] = "next"] /\ ended' = ended
    BY <1>7 DEF AckDone
  <2>3. /\ r \in Record /\ r.pending = wrec[h].pending /\ r.latest = wrec[h].latest
        /\ r.cst \in {"ACKNOWLEDGED", wrec[h].cst}
    <3>1. r \in Record
      BY <1>2, <2>1, RecordEdits
    <3>2. QED
      BY <1>2, <2>1, <3>1 DEF Record
  <2>4. wrec[h].pending = "none" /\ wrec[h].cst \notin Finished
    BY <1>2, <2>2 DEF Position
  <2>5. CopyKept(h, r) /\ Position("next", r, r)
    BY <1>2, <2>3, <2>4 DEF CopyKept, Position, Finished
  <2>6. Behind(h, "next", r, r) /\ Ages(h, "next")
    BY <1>2, <1>4, <2>2, <2>4 DEF Behind, Closing, Settled, Finished, Ages
  <2>7. Goes(h, "next", r, r)
    BY <1>2, <2>1, <2>2, <2>3, <2>5, <2>6 DEF Goes
  <2>8. QED
    BY <1>6, <2>2, <2>7
<1>8. ASSUME Goto(h, "unlink"), Forget(h), queue' = queue
      PROVE  Goes(h, "unlink", NewRecord, queue[h])
  <2>1. Position("unlink", NewRecord, queue[h])
    BY <1>3 DEF Position
  <2>2. Behind(h, "unlink", NewRecord, queue[h]) /\ Ages(h, "unlink")
    BY <1>2, <1>4 DEF Behind, Ages
  <2>3. QED
    BY <1>2, <1>3, <1>8, <2>1, <2>2 DEF Goes
<1>9. CASE Quarantine(h)
  <2>1. wpc[h] = "bootWait" /\ Goto(h, "unlink") /\ Forget(h) /\ queue' = queue
    BY <1>9 DEF Quarantine
  <2>2. ended' = [ended EXCEPT ![h] = @ \cup {"skipped"}]
    BY <1>9 DEF Quarantine
  <2>3. /\ \A g \in Hosts \ {h} : ended'[g] = ended[g]
        /\ ended'[h] \cap {"completed", "exhausted"} = ended[h] \cap {"completed", "exhausted"}
    BY <1>2, <2>2
  <2>4. QED
    BY <1>6, <1>8, <2>1, <2>3
<1>10. wpc[h] \in {"resumeWait", "pendWait"} => wrec[h].pending \in PendingTransition \ {"none"}
  BY <1>2 DEF Record, MonitorInv, PassOK
<1>11. CASE PendingApplied(h)
  <2>1. call[h].step = "done" /\ call'[h] = NoCall /\ wpc[h] \in {"resumeWait", "pendWait"}
    BY <1>5, <1>11 DEF PendingApplied, Applied, ControlAnswers
  <2>2. wrec[h].pending \in Finished => FinalStatus
    BY <2>1 DEF HostKept, RequestKept
  <2>3. CASE wrec[h].pending = "IN_PROGRESS"
    <3> DEFINE r == [wrec[h] EXCEPT !.cst = wrec[h].pending, !.pending = "none", !.ready = TRUE]
    <3>1. r \in Record /\ r.cst = "IN_PROGRESS" /\ r.pending = "none" /\ r.latest = wrec[h].latest
      <4>1. r \in Record
        BY <1>2, <2>3, RecordEdits
      <4>2. QED
        BY <1>2, <2>3, <4>1 DEF Record
    <3>2. /\ queue' = [queue EXCEPT ![h] = r] /\ ended' = ended
          /\ \/ wpc' = [wpc EXCEPT ![h] = "start"] /\ wrec' = [wrec EXCEPT ![h] = r]
             \/ wpc' = [wpc EXCEPT ![h] = "idle"] /\ wrec' = [wrec EXCEPT ![h] = NewRecord]
      BY <1>11, <2>3 DEF PendingApplied
    <3> HIDE DEF r
    <3>3. CopyKept(h, r)
      BY <1>2, <2>3, <3>1 DEF CopyKept, Finished
    <3>4. Position("start", r, r) /\ Position("idle", NewRecord, r)
      BY <1>3, <3>1 DEF Position
    <3>5. ASSUME NEW pc \in {"start", "idle"}, NEW w PROVE Behind(h, pc, w, r) /\ Ages(h, pc)
      BY <1>2, <1>4, <2>1, <2>3 DEF Behind, Closing, Settled, Finished, Ages
    <3>6. Goes(h, "start", r, r) \/ Goes(h, "idle", NewRecord, r)
      BY <1>2, <1>3, <2>1, <3>1, <3>2, <3>3, <3>4, <3>5 DEF Goes
    <3>7. QED
      BY <1>6, <3>2, <3>6
  <2>4. CASE wrec[h].pending # "IN_PROGRESS"
    <3>1. /\ Goto(h, "unlink") /\ Forget(h) /\ queue' = queue
          /\ ended' = [ended EXCEPT ![h] = @ \cup {OutcomeOf[wrec[h].pending]}]
      BY <1>11, <2>4 DEF PendingApplied
    <3>2. /\ \A g \in Hosts \ {h} : ended'[g] = ended[g]
          /\ ended'[h] = ended[h] \cup {OutcomeOf[wrec[h].pending]}
      BY <1>2, <3>1
    <3>3. OutcomeOf[wrec[h].pending] = "duplicate" \/ wrec[h].pending \in Finished
      BY <1>10, <2>1, <2>4 DEF OutcomeOf, PendingTransition, Finished
    <3>4. \/ ended'[h] \cap {"completed", "exhausted"} = ended[h] \cap {"completed", "exhausted"}
          \/ FinalStatus
      BY <2>2, <3>2, <3>3
    <3>5. Goes(h, "unlink", NewRecord, queue[h])
      BY <1>8, <2>1, <3>1
    <3>6. QED
      BY <1>6, <3>2, <3>4, <3>5
  <2>5. QED
    BY <2>3, <2>4
<1>12. CASE PendingWaits(h)
  <2>1. PICK r \in {[wrec[h] EXCEPT !.cst = wrec[h].pending], wrec[h]} :
          /\ wrec' = [wrec EXCEPT ![h] = NewRecord] /\ queue' = [queue EXCEPT ![h] = r]
    BY <1>12 DEF PendingWaits
  <2>2. wpc[h] \in {"resumeWait", "pendWait"} /\ wpc' = [wpc EXCEPT ![h] = "idle"] /\ ended' = ended
    BY <1>12 DEF PendingWaits
  <2>3. /\ r \in Record /\ r.pending = wrec[h].pending /\ r.latest = wrec[h].latest
        /\ r.cst \in {wrec[h].pending, wrec[h].cst}
    <3>1. r \in Record
      BY <1>2, <1>10, <2>1, <2>2, RecordEdits
    <3>2. QED
      BY <1>2, <2>1, <3>1 DEF Record
  <2>4. CopyKept(h, r) /\ Position("idle", NewRecord, r)
    BY <1>2, <1>3, <1>10, <2>2, <2>3 DEF CopyKept, Position, Finished, PendingTransition
  <2>5. Behind(h, "idle", NewRecord, r) /\ Ages(h, "idle")
    BY <1>2, <1>4, <2>2, <2>3 DEF Behind, Ages
  <2>6. Goes(h, "idle", NewRecord, r)
    BY <1>2, <1>3, <2>1, <2>2, <2>3, <2>4, <2>5 DEF Goes
  <2>7. QED
    BY <1>6, <2>2, <2>6
<1>13. QED
  BY <1>7, <1>9, <1>11, <1>12

\* A file is removed, a process dies or a message arrives: no copy says more than it did.
LEMMA KeptFiles ==
  ASSUME TicketInv, MonitorInv, \A g \in Hosts : HostKept(g), NEW h \in Hosts,
         Unlink(h) \/ Crash(h) \/ PollDesk(h) \/ \E stale \in BOOLEAN : Watch(h, stale)
  PROVE  \A g \in Hosts : HostKept(g)'
<1> USE DEF At, Goto, ticketVars, claimVars, boundVars, Fault
<1>1. /\ status' = status /\ claimOwner' = claimOwner /\ lease' = lease /\ expired' = expired
      /\ call' = call \/ (Abandon(h) /\ Crash(h))
      /\ crashes \in Nat /\ crashes' \in {crashes, crashes + 1}
  <2>1. /\ status' = status /\ claimOwner' = claimOwner /\ lease' = lease
        /\ call' = call \/ (Abandon(h) /\ Crash(h))
    BY DEF Unlink, Crash, PollDesk, Watch, Abandon
  <2>2. expired' = expired /\ crashes \in Nat /\ crashes' \in {crashes, crashes + 1}
    BY DEF Unlink, Crash, PollDesk, Watch, MonitorInv, MonitorTypeOK, worldVars
  <2>3. QED
    BY <2>1, <2>2
<1>2. \A g \in Hosts \ {h} :
        /\ wpc'[g] = wpc[g] /\ wrec'[g] = wrec[g] /\ ppc'[g] = ppc[g] /\ prec'[g] = prec[g]
        /\ queue'[g] = queue[g] /\ ended'[g] = ended[g]
  <2>1. CASE Unlink(h) \/ Crash(h)
    BY <2>1 DEF Forget, Unlink, Crash, MonitorInv, MonitorTypeOK
  <2>2. CASE PollDesk(h)
    BY <2>2 DEF PollDesk, MonitorInv, MonitorTypeOK
  <2>3. ASSUME NEW stale \in BOOLEAN, Watch(h, stale)
        PROVE  \A g \in Hosts \ {h} :
                 /\ wpc'[g] = wpc[g] /\ wrec'[g] = wrec[g] /\ ppc'[g] = ppc[g] /\ prec'[g] = prec[g]
                 /\ queue'[g] = queue[g] /\ ended'[g] = ended[g]
    BY <2>3 DEF Watch, MonitorInv, MonitorTypeOK
  <2>4. QED
    BY <2>1, <2>2, <2>3
<1>3. ASSUME NEW g \in Hosts \ {h} PROVE HostKept(g)'
  <2>1. \A c \in Requests(g) : call'[c] = call[c] /\ (Active(c) => Due(g)')
    BY <1>1, AnsweredCarries DEF HostKept, RequestKept, Allowed, Due
  <2>2. \A f \in Hosts : Carried(f)
    BY <1>1, AnsweredCarries DEF Carried, Active
  <2>3. QED
    BY <1>1, <1>2, <1>3, <2>1, <2>2, CarriedFinishes, KeptBeside
<1>4. HostKept(h) /\ CopyKept(h, NewRecord) /\ ~NewRecord.latest /\ NewRecord # None
  BY NewIsKept, NewRecordType, MonitorAssumption
<1>5. /\ CopyKept(h, wrec[h]) /\ CopyKept(h, prec[h]) /\ (queue[h] # None => CopyKept(h, queue[h]))
      /\ ThreadsKept(h) /\ RequestKept(h)
  BY <1>4, CopiesOf DEF HostKept
<1>6. FinalStatus => FinalStatus'
  BY <1>1 DEF FinalStatus
<1>7. ASSUME CopyKept(h, wrec'[h]), CopyKept(h, prec'[h]), queue'[h] # None => CopyKept(h, queue'[h])
      PROVE  \A r \in Copies(h)' : CopyKept(h, r)'
  <2>1. \A r \in Copies(h)' : CopyKept(h, r)
    BY <1>7, CopiesOf
  <2>2. QED
    BY <1>1, <2>1 DEF CopyKept
<1>8. ASSUME \/ \A c \in Requests(h) : call[c] = NoCall /\ call'[c] = NoCall
             \/ /\ ~Active(h)'
                /\ queue'[h] # None => queue'[h] = queue[h]
                /\ wpc'[h] \in {"idle", "down", "unlink"}
      PROVE  RequestKept(h)'
  <2>1. /\ Carried(h) /\ (FinishUnderway' => FinishUnderway)
        /\ call'[h] \in {call[h], NoCall}
    <3>1. \A f \in Hosts : Carried(f)
      BY <1>1, AnsweredCarries DEF Carried, Active
    <3>2. QED
      BY <1>1, <3>1, AnsweredCarries, CarriedFinishes
  <2>2. \A c \in Requests(h) : Active(c) => Due(h)'
    BY <1>1, <1>5 DEF RequestKept, Allowed, Due
  <2>3. CASE \A c \in Requests(h) : call[c] = NoCall /\ call'[c] = NoCall
    BY <2>3, RequestsOf DEF RequestKept, Active, NoCall
  <2>4. CASE /\ ~Active(h)'
             /\ queue'[h] # None => queue'[h] = queue[h]
             /\ wpc'[h] \in {"idle", "down", "unlink"}
    <3>1. \A c \in Requests(h) : Active(c) /\ Closing(h, call[c].to) =>
            /\ queue'[h] # None => queue'[h].pending = call[c].to
            /\ wpc'[h] \in {"idle", "down", "unlink"} \/ wrec'[h].pending = call[c].to
      BY <2>4 DEF Closing
    <3>2. QED
      BY <1>1, <1>5, <2>1, <2>2, <2>4, <3>1, RequestsStay
  <2>5. QED
    BY <1>8, <2>3, <2>4
<1>9. HostKept(h)'
  <2>1. CASE Unlink(h)
    <3>1. /\ wpc[h] = "unlink" /\ wpc'[h] = "idle" /\ queue'[h] = None /\ wrec'[h] = wrec[h]
          /\ ppc'[h] = ppc[h] /\ prec'[h] = prec[h] /\ ended'[h] = ended[h] /\ crashes' = crashes
      BY <2>1 DEF Unlink, MonitorInv, MonitorTypeOK
    <3>2. \A r \in Copies(h)' : CopyKept(h, r)'
      BY <1>5, <1>7, <3>1
    <3>3. RequestKept(h)'
      <4>1. ~Active(h)'
        BY <1>1, <1>5, <3>1 DEF RequestKept, Awaited, Active, Crash
      <4>2. QED
        BY <1>8, <3>1, <4>1
    <3>4. ThreadsKept(h)'
      BY <1>1, <1>5, <3>1 DEF ThreadsKept, Crash
    <3>5. QED
      BY <1>4, <1>6, <3>1, <3>2, <3>3, <3>4 DEF HostKept
  <2>2. CASE Crash(h)
    <3>1. /\ wpc'[h] = "down" /\ queue'[h] = queue[h] /\ wrec'[h] = NewRecord /\ prec'[h] = NewRecord
          /\ ppc'[h] \in {"watch", "idle"} /\ (ppc'[h] = "watch" => ppc[h] = "watch")
          /\ ended'[h] = ended[h] /\ crashes' = crashes + 1
      BY <2>2 DEF Forget, Crash, MonitorInv, MonitorTypeOK
    <3>2. \A r \in Copies(h)' : CopyKept(h, r)'
      BY <1>4, <1>5, <1>7, <3>1
    <3>3. Abandon(h) /\ ~Active(h)' /\ RequestKept(h)'
      BY <1>8, <2>2, <3>1, AnsweredCarries DEF Crash
    <3>4. (\A c \in Requests(h) : call[c] = NoCall) => \A c \in Requests(h) : call'[c] = NoCall
      <4>1. Requests(h) \subseteq {h} \cup Late
        BY DEF Requests, Late
      <4>2. call \in [Callers -> Call]
        BY DEF TicketInv, TicketTypeOK
      <4>3. QED
        BY <3>3, <4>1, <4>2, AnsweredRequests, RequestsOf
    <3>5. ThreadsKept(h)'
      BY <1>1, <1>4, <1>5, <3>1, <3>4 DEF ThreadsKept
    <3>6. QED
      BY <1>4, <1>6, <3>1, <3>2, <3>3, <3>5 DEF HostKept
  <2>3. CASE PollDesk(h)
    <3>1. PICK r : /\ r = prec[h] \/ \E d \in {"task", "fingerprint"} : r = [prec[h] EXCEPT !.desk = d]
                   /\ queue' = [queue EXCEPT ![h] = r]
      BY <2>3 DEF PollDesk
    <3>2. /\ ppc[h] = "desk" /\ ppc'[h] = "idle" /\ prec'[h] = NewRecord /\ queue'[h] = r
          /\ wpc'[h] = wpc[h] /\ wrec'[h] = wrec[h] /\ ended'[h] = ended[h] /\ crashes' = crashes
          /\ prec[h] \in Record
      BY <2>3, <3>1 DEF PollDesk, MonitorInv, MonitorTypeOK
    <3>3. Alike(r, prec[h])
      <4>1. Alike(prec[h], prec[h])
        BY DEF Alike
      <4>2. QED
        BY <3>1, <3>2, <4>1, AlikeEdits
    <3>4. CopyKept(h, r)
      BY <1>5, <3>3, AlikeKept
    <3>5. \A x \in Copies(h)' : CopyKept(h, x)'
      BY <1>4, <1>5, <1>7, <3>2, <3>4
    <3>6. call' = call /\ \A c \in Requests(h) : call[c] = NoCall
      BY <1>1, <1>5, <3>2 DEF ThreadsKept, Crash
    <3>7. RequestKept(h)'
      BY <1>8, <3>6
    <3>8. ThreadsKept(h)'
      BY <1>1, <1>4, <1>5, <3>2, <3>6 DEF ThreadsKept, At
    <3>9. QED
      BY <1>4, <1>6, <3>2, <3>5, <3>7, <3>8 DEF HostKept
  <2>4. ASSUME NEW stale \in BOOLEAN, Watch(h, stale) PROVE HostKept(h)'
    <3>1. /\ ppc[h] = "watch" /\ wpc[h] \notin {"down", "boot", "bootWait"}
          /\ wpc'[h] = wpc[h] /\ wrec'[h] = wrec[h] /\ prec'[h] = prec[h] /\ crashes' = crashes
          /\ \/ ended'[h] = {"skipped"} /\ ppc'[h] = "idle" /\ queue'[h] = queue[h]
             \/ ended'[h] = ended[h] /\ ppc'[h] = "intake" /\ queue'[h] = NewRecord
      BY <2>4 DEF Watch, MonitorInv, MonitorTypeOK
    <3>2. \A r \in Copies(h)' : CopyKept(h, r)'
      BY <1>4, <1>5, <1>7, <3>1
    <3>3. call' = call /\ \A c \in Requests(h) : call[c] = NoCall
      BY <1>1, <1>5, <2>4, <3>1 DEF ThreadsKept, Watch, ticketVars
    <3>4. RequestKept(h)'
      BY <1>8, <3>3
    <3>5. ThreadsKept(h)'
      BY <1>1, <1>4, <1>5, <3>1, <3>3 DEF ThreadsKept
    <3>6. QED
      BY <1>4, <1>6, <3>1, <3>2, <3>4, <3>5 DEF HostKept
  <2>5. QED
    BY <2>1, <2>2, <2>3, <2>4
<1>10. QED
  BY <1>3, <1>9

\* A request is read, one given up on returns, and five minutes pass.
LEMMA KeptCalls ==
  ASSUME TicketInv, MonitorInv, \A g \in Hosts : HostKept(g),
         \/ \E c \in Late : RequestReturns(c)
         \/ \E c \in Hosts \cup Late : TransitionReads(c, TRUE)
         \/ Tick \/ ForegroundReplies \/ UNCHANGED monitorVars
  PROVE  \A g \in Hosts : HostKept(g)'
<1> USE DEF claimVars, boundVars, worldVars, workVars
<1>1. /\ status' = status /\ claimOwner' = claimOwner /\ crashes' = crashes /\ expired' = expired
      /\ wpc' = wpc /\ wrec' = wrec /\ ppc' = ppc /\ prec' = prec /\ queue' = queue /\ ended' = ended
  BY DEF RequestReturns, Returns, TransitionReads, TxRead, Tick, LeaseTick, ForegroundReplies, ticketVars, monitorVars
<1>2. ASSUME NEW g \in Hosts, \A c \in Requests(g) : call'[c] = call[c],
             lease' = lease \/ \A c \in Requests(g) : ~Active(c), FinishUnderway' => FinishUnderway
      PROVE  HostKept(g)'
  <2>1. \A c \in Requests(g) : Active(c) => Due(g)'
    BY <1>1, <1>2 DEF HostKept, RequestKept, Allowed, Due
  <2>2. QED
    BY <1>1, <1>2, <2>1, KeptBeside
<1>3. CASE Tick \/ ForegroundReplies \/ UNCHANGED monitorVars
  <2>1. call' = call /\ (lease' = lease \/ \A c \in Hosts \cup Late : call[c] = NoCall)
    BY <1>3 DEF Tick, LeaseTick, ForegroundReplies, ticketVars, monitorVars
  <2>2. FinishUnderway' => FinishUnderway
    BY <2>1 DEF FinishUnderway, Active
  <2>3. ASSUME NEW g \in Hosts PROVE lease' = lease \/ \A c \in Requests(g) : ~Active(c)
    BY <2>1, RequestsOf DEF Active, NoCall
  <2>4. QED
    BY <1>2, <2>1, <2>2, <2>3
<1>4. ASSUME NEW c \in Hosts \cup Late, TransitionReads(c, TRUE) \/ (c \in Late /\ RequestReturns(c))
      PROVE  \A g \in Hosts : HostKept(g)'
  <2>1. PICK h \in Hosts : c \in Requests(h)
    BY RequestsOf
  <2>2. /\ lease' = lease /\ call[c] # NoCall
        /\ \E k : /\ call' = [call EXCEPT ![c] = k]
                  /\ \/ k.step \in {"idle", "refused"}
                     \/ k.step = "read" /\ Active(c) /\ k.to = call[c].to
        /\ c = h => call'[c].step \in {"refused", "read"}
    <3>1. CASE c \in Late /\ RequestReturns(c)
      <4>1. c # h
        BY <3>1, TicketAssumption DEF Late
      <4>2. /\ lease' = lease /\ call' = [call EXCEPT ![c] = NoCall]
            /\ call[c].step \in {"done", "refused"} /\ NoCall.step = "idle"
        BY <3>1 DEF RequestReturns, Returns, NoCall
      <4>3. call[c] # NoCall
        BY <4>2
      <4>4. QED
        BY <4>1, <4>2, <4>3
    <3>2. CASE TransitionReads(c, TRUE)
      <4>1. TxRead(c, TRUE) /\ lease' = lease /\ call[c].step = "begin"
        BY <3>2 DEF TransitionReads, TxRead
      <4>2. PICK k \in Call : /\ call' = [call EXCEPT ![c] = k]
                              /\ k.step = "refused" \/ (k.step = "read" /\ k.to = call[c].to)
        BY <4>1, ReadLeaves DEF Callers
      <4>3. call'[c] = k
        BY <4>2 DEF TicketInv, TicketTypeOK, Callers
      <4>4. Active(c) /\ call[c] # NoCall
        BY <4>1 DEF Active, NoCall
      <4>5. QED
        BY <4>1, <4>2, <4>3, <4>4
    <3>3. QED
      BY <1>4, <3>1, <3>2
  <2>3. PICK k : /\ call' = [call EXCEPT ![c] = k]
                 /\ \/ k.step \in {"idle", "refused"}
                    \/ k.step = "read" /\ Active(c) /\ k.to = call[c].to
    BY <2>2
  <2>4. call'[c] = k /\ \A d \in (Hosts \cup Late) \ {c} : call'[d] = call[d]
    <3>1. call \in [Callers -> Call] /\ Hosts \cup Late \subseteq Callers
      BY DEF TicketInv, TicketTypeOK, Callers
    <3>2. QED
      BY <2>3, <3>1
  <2>5. ASSUME NEW d \in Hosts \cup Late, Active(d)' PROVE Active(d) /\ call'[d].to = call[d].to
    <3>1. CASE d = c
      BY <2>3, <2>4, <2>5, <3>1 DEF Active
    <3>2. CASE d # c
      BY <2>4, <2>5, <3>2 DEF Active
    <3>3. QED
      BY <3>1, <3>2
  <2>6. FinishUnderway' => FinishUnderway
    BY <2>5 DEF FinishUnderway
  <2>7. ASSUME NEW g \in Hosts \ {h} PROVE HostKept(g)'
    <3>1. \A d \in Requests(g) : call'[d] = call[d]
      BY <2>1, <2>4, RequestsOf
    <3>2. QED
      BY <1>2, <2>2, <2>6, <3>1
  <2>8. HostKept(h)'
    <3>1. \A r \in Copies(h)' : CopyKept(h, r)'
      BY <1>1, CopiesOf DEF HostKept, CopyKept
    <3>2. ThreadsKept(h) /\ RequestKept(h)
      BY DEF HostKept
    <3>3. ThreadsKept(h)'
      <4>1. ppc[h] = "idle"
        BY <2>1, <2>2, <3>2 DEF ThreadsKept
      <4>2. QED
        BY <1>1, <3>2, <4>1 DEF ThreadsKept, At
    <3>4. Carried(h)
      BY <2>5, RequestsOf DEF Carried
    <3>5. \A d \in Requests(h) : Active(d) =>
            /\ Due(h)'
            /\ call[d].to \in Settled /\ Closing(h, call[d].to) =>
                 /\ queue'[h] # None => queue'[h].pending = call[d].to
                 /\ wpc'[h] \in {"idle", "down", "unlink"} \/ wrec'[h].pending = call[d].to
            /\ call[d].to = "REJECTED" /\ FinishUnderway' => FinishUnderway \/ crashes > 0
      BY <1>1, <2>2, <2>6, <3>2 DEF RequestKept, Allowed, Due, Closing
    <3>6. Active(h)' => Active(h) /\ call'[h].to = call[h].to
      BY <2>5
    <3>7. /\ call'[h].step = "done" => call'[h] = call[h]
          /\ FinalStatus' <=> FinalStatus
      BY <1>1, <2>2, <2>4 DEF FinalStatus
    <3>8. call'[h].step = "done" /\ wpc'[h] \in {"resumeWait", "pendWait"} /\ wrec'[h].pending \in Finished
            => FinalStatus'
      BY <1>1, <3>2, <3>7 DEF RequestKept
    <3>9. RequestKept(h)'
      BY <1>1, <3>2, <3>4, <3>5, <3>6, <3>8, RequestsStay
    <3>10. QED
      BY <1>1, <3>1, <3>3, <3>7, <3>9 DEF HostKept
  <2>9. QED
    BY <2>7, <2>8
<1>5. QED
  BY <1>3, <1>4

\* A transaction that writes is the claim owner's or comes too late: the ticket stays finished, and
\* copies whose token is still the latest know.
LEMMA KeptWrite ==
  ASSUME TicketInv, MonitorInv, \A g \in Hosts : HostKept(g), \A o \in Operators : call[o] = NoCall,
         NEW c \in Callers, TransitionWrites(c), takenBack' = FALSE
  PROVE  \A g \in Hosts : HostKept(g)'
<1> USE DEF claimVars, boundVars, worldVars, workVars
<1> DEFINE to == call[c].to
<1>1. c \in Hosts \cup Late /\ call[c].step = "read" /\ Active(c)
  BY DEF TransitionWrites, TxWrite, NoCall, Callers, Active
<1>2. /\ crashes' = crashes /\ wpc' = wpc /\ wrec' = wrec /\ ppc' = ppc /\ prec' = prec
      /\ queue' = queue /\ ended' = ended /\ expired' = expired
      /\ status' = to
      /\ Unclaims(to) => claimOwner' = None
      /\ ~Unclaims(to) => claimOwner' = claimOwner /\ lease' = lease
      /\ ~TakesBack(c)
  BY DEF TransitionWrites, TxWrite
<1>3. call'[c].step = "done" /\ \A d \in (Hosts \cup Late) \ {c} : call'[d] = call[d]
  BY <1>1 DEF TransitionWrites, TxWrite, TicketInv, TicketTypeOK, NoCall, Callers
<1>4. PICK h \in Hosts : c \in Requests(h)
  BY <1>1, RequestsOf
<1>5. Allowed(h, c) /\ (c \in Hosts => c = h)
  BY <1>1, <1>4, RequestsOf DEF HostKept, RequestKept
<1>6. to \notin Settled => status \notin Settled /\ ~Unclaims(to)
  <2>1. c = h => (to \notin Settled => status \notin Settled)
    BY <1>1, <1>5 DEF HostKept, RequestKept, Awaited
  <2>2. c \in Late /\ to \notin Settled => status \notin Settled
    BY <1>2, <1>5 DEF TakesBack, Allowed, Targets, Settled, Finished, SettledRemotely
  <2>3. to \notin Settled => ~Unclaims(to)
    BY <1>5 DEF Allowed, Targets, Settled, Finished, Unclaims, TERMINAL_STATUSES
  <2>4. QED
    BY <1>1, <1>5, <2>1, <2>2, <2>3
<1>7. /\ to \in Finished => FinishUnderway
      /\ FinishUnderway' => FinishUnderway
      /\ \A d \in Hosts \cup Late : Active(d)' => d # c /\ Active(d) /\ call'[d] = call[d]
  BY <1>1, <1>3 DEF FinishUnderway, Active
<1>8. FinalStatus => FinalStatus'
  BY <1>2, <1>5, <1>6 DEF FinalStatus, Settled, Allowed
<1>9. ASSUME NEW g \in Hosts, NEW r \in Copies(g) PROVE CopyKept(g, r)'
  <2>1. CopyKept(g, r) /\ HostKept(g)
    BY <1>9 DEF HostKept
  <2>2. r.pending \in {"IN_PROGRESS", "REJECTED"} => r.cst \notin Finished
    BY <2>1 DEF CopyKept
  <2>3. ASSUME r.latest, claimOwner' # None
        PROVE  claimOwner' = g /\ (status' \in Finished => r.cst \in Finished \/ r.pending \in Finished)
    <3>1. claimOwner' = claimOwner /\ ~Unclaims(to) /\ claimOwner = g /\ status # "REJECTED"
      BY <1>2, <2>1, <2>3 DEF CopyKept, TicketInv, SettledTicket, TERMINAL_STATUSES
    <3>2. status' \in Finished => to = "BLOCKED"
      BY <1>2, <3>1 DEF Unclaims, Finished
    <3>3. CASE status \in Finished
      BY <2>1, <2>3, <3>1, <3>3 DEF CopyKept
    <3>4. CASE status \notin Finished /\ to = "BLOCKED"
      <4>1. g = h
        BY <1>5, <3>1, <3>4 DEF Allowed, Due, Settled
      <4>2. Closing(h, "BLOCKED")
        BY <1>5, <3>4 DEF Allowed, Settled, Finished
      <4>3. ppc[h] # "desk" /\ ~prec[h].latest
        BY <1>1, <1>4 DEF HostKept, ThreadsKept, Active, NoCall
      <4>4. wpc[h] \in {"idle", "down", "unlink"} => ~wrec[h].latest
        BY DEF HostKept, ThreadsKept
      <4>5. r.pending = "BLOCKED"
        BY <1>9, <2>3, <4>1, <4>2, <4>3, <4>4, CopiesOf DEF Closing
      <4>6. QED
        BY <3>1, <4>5 DEF Finished
    <3>5. QED
      BY <3>1, <3>2, <3>3, <3>4
  <2>4. QED
    BY <2>2, <2>3 DEF CopyKept
<1>10. ASSUME NEW g \in Hosts PROVE HostKept(g)'
  <2>1. HostKept(g) /\ Copies(g)' = Copies(g) /\ ThreadsKept(g) /\ RequestKept(g)
    BY <1>2 DEF Copies, HostKept
  <2>2. ThreadsKept(g)'
    <3>1. CASE ppc[g] = "idle"
      BY <1>2, <2>1, <3>1 DEF ThreadsKept, At
    <3>2. CASE ppc[g] # "idle"
      <4>1. \A d \in Requests(g) : call[d] = NoCall
        BY <2>1, <3>2 DEF ThreadsKept
      <4>2. \A d \in Requests(g) : d # c /\ call'[d] = NoCall
        BY <1>1, <1>3, <4>1, RequestsOf DEF Active, NoCall
      <4>3. QED
        BY <1>2, <2>1, <4>2 DEF ThreadsKept, At
    <3>3. QED
      BY <3>1, <3>2
  <2>3. ASSUME NEW d \in Requests(g), Active(d)' PROVE Allowed(g, d)'
    <3>1. d # c /\ Active(d) /\ call'[d] = call[d] /\ Allowed(g, d)
      BY <1>7, <2>1, <2>3, RequestsOf DEF RequestKept
    <3>2. Due(g)'
      BY <1>2, <1>6, <3>1 DEF Allowed, Due
    <3>3. QED
      BY <1>2, <1>7, <3>1, <3>2 DEF Allowed, Closing
  <2>4. ASSUME Active(g)' PROVE Awaited(g)'
    <3>1. g # c /\ Active(g) /\ call'[g] = call[g] /\ Awaited(g) /\ Allowed(g, g)
      BY <1>7, <2>1, <2>4, RequestsOf DEF RequestKept
    <3>2. ASSUME call[g].to \notin Settled, to \in Settled PROVE FALSE
      <4>1. status \notin Settled /\ g = h
        BY <1>5, <3>1, <3>2 DEF Awaited, Allowed, Due
      <4>2. ~At(h, "bootWait") /\ h \notin expired
        BY <2>1, <3>1, <3>2, <4>1 DEF Awaited, ThreadsKept, At, Settled
      <4>3. Closing(h, to)
        BY <1>5, <3>2, <4>2 DEF Allowed
      <4>4. wrec[h].pending = to /\ to # "none"
        BY <3>1, <3>2, <4>1, <4>3 DEF Closing, Awaited, Settled, Finished
      <4>5. QED
        BY <2>1, <3>1, <3>2, <4>1, <4>2, <4>4 DEF Awaited, ThreadsKept, At
    <3>3. QED
      BY <1>2, <3>1, <3>2 DEF Awaited, At
  <2>5. call'[g].step = "done" /\ wpc'[g] \in {"resumeWait", "pendWait"} /\ wrec'[g].pending \in Finished
          => FinalStatus'
    <3>1. CASE g = c
      BY <1>1, <1>2, <2>1, <3>1 DEF RequestKept, Awaited, FinalStatus
    <3>2. CASE g # c
      BY <1>2, <1>3, <1>8, <2>1, <3>2 DEF RequestKept
    <3>3. QED
      BY <3>1, <3>2
  <2>6. QED
    BY <1>2, <1>8, <1>9, <2>1, <2>2, <2>3, <2>4, <2>5 DEF HostKept, RequestKept
<1>11. QED
  BY <1>10

\* An intake leaves of a copy what it said, and its token only where nothing was granted.
Follows(o, r) ==
  /\ o.pending = r.pending /\ o.cst = r.cst
  /\ o.latest => r.latest /\ claimOwner' = claimOwner /\ status' = status

\* A request for the claim that Control granted, declined or never saw.
Asks(h) ==
  Intake(h) \/ UNCHANGED <<status, claimOwner, lease, call>>

\* A copy that is neither the answer nor replaced by it follows the one before.
LEMMA OutdatedFollows ==
  ASSUME NEW h \in Hosts, Intake(h), NEW f, DOMAIN f = Hosts, NEW g \in Hosts, f[g] \in Record
  PROVE  Follows(AfterIntake(h, f)[g], f[g]) /\ AfterIntake(h, f)[g] # None
<1>1. f[g] # None
  BY MonitorAssumption
<1>2. CASE Grantable(h)
  BY <1>1, <1>2, OutdatedCopy DEF Follows
<1>3. CASE ~Grantable(h)
  BY <1>1, <1>3 DEF AfterIntake, Follows, Intake, claimVars
<1>4. QED
  BY <1>2, <1>3

\* What an intake does to the ticket, and whose requests can be at Control meanwhile.
LEMMA AskingTicket ==
  ASSUME TicketInv, \A g \in Hosts : HostKept(g), NEW h \in Hosts, Asks(h)
  PROVE  /\ call' = call /\ (status' = status \/ (status = None /\ status' = "RECEIVED"))
         /\ FinishUnderway' => FinishUnderway
         /\ \A g \in Hosts : \A c \in Requests(g) : Active(c) => Due(g)'
<1> USE DEF claimVars
<1>1. call' = call /\ (status' = status \/ (status = None /\ status' = "RECEIVED"))
  BY DEF Asks, Intake, Grantable
<1>2. FinishUnderway' => FinishUnderway
  BY <1>1 DEF FinishUnderway, Active
<1>3. ASSUME NEW g \in Hosts, NEW c \in Requests(g), Active(c) PROVE Due(g)'
  <2>1. Due(g) /\ status # None
    BY <1>3, RequestsOf DEF HostKept, RequestKept, Allowed, TicketInv, CallsAreChecked, Active, Callers
  <2>2. lease \in Nat /\ Lease > 0
    BY TicketAssumption DEF TicketInv, TicketTypeOK
  <2>3. QED
    BY <2>1, <2>2 DEF Asks, Intake, Grantable, Due
<1>4. QED
  BY <1>1, <1>2, <1>3

\* A copy that follows one that was kept, or takes Control's answer, is kept.
LEMMA AskingCopies ==
  ASSUME TicketInv, NEW h \in Hosts, NEW r \in Record, CopyKept(h, r)
  PROVE  /\ \A o : Follows(o, r) /\ (status' = status \/ status' = "RECEIVED") =>
              CopyKept(h, o)' /\ (~r.latest => ~o.latest)
         /\ Intake(h) /\ r.pending = "none" =>
              \A t : t = TakeIntake(h, r) => CopyKept(h, t)' /\ t.pending = "none"
<1>1. ASSUME NEW o, Follows(o, r), status' = status \/ status' = "RECEIVED"
      PROVE  CopyKept(h, o)' /\ (~r.latest => ~o.latest)
  BY <1>1 DEF Follows, CopyKept
<1>2. ASSUME Intake(h), r.pending = "none", NEW t, t = TakeIntake(h, r)
      PROVE  CopyKept(h, t)' /\ t.pending = "none"
  <2>1. /\ t.pending = "none" /\ t.latest = Grantable(h)
        /\ t.cst = IF status = None THEN "RECEIVED" ELSE status
    BY <1>2, TakeIntakeType
  <2>2. CASE Grantable(h)
    <3>1. claimOwner' = h /\ status' = IF status = None THEN "RECEIVED" ELSE status
      BY <1>2, <2>2 DEF Intake
    <3>2. QED
      BY <2>1, <3>1 DEF CopyKept
  <2>3. CASE ~Grantable(h)
    BY <2>1, <2>3 DEF CopyKept
  <2>4. QED
    BY <2>2, <2>3, <2>1
<1>3. QED
  BY <1>1, <1>2

\* An intake of h keeps everyone's copies, whoever has the claim afterwards.
LEMMA KeptAsking ==
  ASSUME TicketInv, MonitorInv, \A g \in Hosts : HostKept(g), NEW h \in Hosts, Asks(h),
         crashes' = crashes, ended' = ended, expired' = expired,
         \A g \in Hosts \ {h} :
           /\ wpc'[g] = wpc[g] /\ ppc'[g] = ppc[g]
           /\ Follows(wrec'[g], wrec[g]) /\ Follows(prec'[g], prec[g])
           /\ (queue'[g] = None) <=> (queue[g] = None)
           /\ queue[g] # None => Follows(queue'[g], queue[g]),
         CopyKept(h, wrec[h])', CopyKept(h, prec[h])', CopyKept(h, queue[h])', ThreadsKept(h)',
         wpc'[h] \notin {"resumeWait", "pendWait"},
         \A c \in Requests(h) :
           Active(c) => c # h /\ wpc[h] \notin {"idle", "down", "unlink"} /\ wrec[h].pending = "none"
  PROVE  \A g \in Hosts : HostKept(g)'
<1>1. /\ call' = call /\ (status' = status \/ (status = None /\ status' = "RECEIVED"))
      /\ FinishUnderway' => FinishUnderway
      /\ \A g \in Hosts : \A c \in Requests(g) : Active(c) => Due(g)'
  BY AskingTicket
<1>2. ASSUME NEW g \in Hosts \ {h} PROVE HostKept(g)'
  <2>1. \/ claimOwner' = claimOwner
        \/ ~wrec'[g].latest /\ ~prec'[g].latest /\ (queue'[g] # None => ~queue'[g].latest)
    BY <1>2 DEF Follows
  <2>2. /\ wrec'[g].pending = wrec[g].pending /\ wrec'[g].cst = wrec[g].cst /\ (wrec'[g].latest => wrec[g].latest)
        /\ prec'[g].pending = prec[g].pending /\ prec'[g].cst = prec[g].cst /\ (prec'[g].latest => prec[g].latest)
        /\ queue[g] # None => /\ queue'[g].pending = queue[g].pending /\ queue'[g].cst = queue[g].cst
                              /\ queue'[g].latest => queue[g].latest
    BY <1>2 DEF Follows
  <2>3. QED
    BY <1>1, <1>2, <2>1, <2>2, KeptBeside
<1>3. \A r \in Copies(h)' : CopyKept(h, r)'
  BY CopiesOf
<1>4. FinalStatus => FinalStatus'
  <2>1. None # "REJECTED" /\ None \notin Finished
    BY TicketAssumption, StatusNames DEF Finished
  <2>2. QED
    BY <1>1, <2>1 DEF FinalStatus
<1>5. RequestKept(h)'
  <2>1. RequestKept(h) /\ Carried(h) /\ ~Active(h)'
    BY <1>1, RequestsOf DEF HostKept, Carried, Active
  <2>2. \A c \in Requests(h) : Active(c) /\ call[c].to \in Settled => ~Closing(h, call[c].to)
    BY DEF Closing, Settled, Finished
  <2>3. QED
    BY <1>1, <2>1, <2>2, RequestsStay
<1>6. HostKept(h)'
  BY <1>3, <1>4, <1>5 DEF HostKept
<1>7. QED
  BY <1>2, <1>6

\* The file of g follows f.
FileFollows(g, f) ==
  /\ (queue'[g] = None) <=> (f = None)
  /\ f # None => Follows(queue'[g], f)

\* A copy no answer touches follows itself.
LEMMA FollowsItself == ASSUME NEW r, UNCHANGED <<status, claimOwner>> PROVE Follows(r, r)
BY DEF Follows

\* An outdated file follows the file before.
LEMMA OutdatedFile ==
  ASSUME NEW h \in Hosts, Intake(h), NEW f, DOMAIN f = Hosts, NEW g \in Hosts, f[g] \in Record \cup {None},
         queue'[g] = AfterIntake(h, f)[g]
  PROVE  FileFollows(g, f[g])
<1>1. CASE f[g] = None
  BY <1>1, OutdatedCopy DEF FileFollows
<1>2. CASE f[g] \in Record
  BY <1>2, OutdatedFollows, MonitorAssumption DEF FileFollows
<1>3. QED
  BY <1>1, <1>2

\* An intake whose answer is lost.
LEMMA UnansweredFollows ==
  ASSUME MonitorInv, NEW h \in Hosts, NEW mine \in Record, NEW w \in [Hosts -> Record], IntakeUnanswered(h, mine, w)
  PROVE  /\ Asks(h) /\ crashes' = crashes
         /\ \A g \in Hosts : Follows(wrec'[g], w[g]) /\ Follows(prec'[g], prec[g])
         /\ \A g \in Hosts \ {h} : FileFollows(g, queue[g])
         /\ FileFollows(h, mine)
<1> DEFINE q == [queue EXCEPT ![h] = mine]
<1>1. /\ DOMAIN q = Hosts /\ q[h] = mine /\ \A g \in Hosts \ {h} : q[g] = queue[g]
      /\ \A g \in Hosts : q[g] \in Record \cup {None}
      /\ DOMAIN w = Hosts /\ DOMAIN prec = Hosts /\ \A g \in Hosts : w[g] \in Record /\ prec[g] \in Record
  BY DEF MonitorInv, MonitorTypeOK
<1>2. crashes' = crashes
  BY DEF IntakeUnanswered, Fault
<1>3. \/ /\ Intake(h) /\ wrec' = AfterIntake(h, w) /\ prec' = AfterIntake(h, prec) /\ queue' = AfterIntake(h, q)
      \/ UNCHANGED <<status, claimOwner, lease, call, prec>> /\ wrec' = w /\ queue' = q
  BY DEF IntakeUnanswered, ticketVars, claimVars
<1> HIDE DEF q
<1>4. CASE Intake(h) /\ wrec' = AfterIntake(h, w) /\ prec' = AfterIntake(h, prec) /\ queue' = AfterIntake(h, q)
  <2>1. \A g \in Hosts : Follows(wrec'[g], w[g]) /\ Follows(prec'[g], prec[g])
    BY <1>1, <1>4, OutdatedFollows
  <2>2. \A g \in Hosts : FileFollows(g, q[g])
    BY <1>1, <1>4, OutdatedFile
  <2>3. QED
    BY <1>1, <1>2, <1>4, <2>1, <2>2 DEF Asks
<1>5. CASE UNCHANGED <<status, claimOwner, lease, call, prec>> /\ wrec' = w /\ queue' = q
  <2>1. \A g \in Hosts : Follows(wrec'[g], w[g]) /\ Follows(prec'[g], prec[g])
    BY <1>5, FollowsItself
  <2>2. \A g \in Hosts : FileFollows(g, q[g])
    BY <1>5, FollowsItself DEF FileFollows
  <2>3. QED
    BY <1>1, <1>2, <1>5, <2>1, <2>2 DEF Asks
<1>6. QED
  BY <1>3, <1>4, <1>5

\* enqueue's intake, before the first pass.
LEMMA KeptPollIntake ==
  ASSUME TicketInv, MonitorInv, \A g \in Hosts : HostKept(g), NEW h \in Hosts, PollIntake(h)
  PROVE  \A g \in Hosts : HostKept(g)'
<1>1. /\ ppc[h] = "intake" /\ ppc' = [ppc EXCEPT ![h] = "desk"] /\ wpc' = wpc /\ ended' = ended
      /\ expired' = expired
  BY DEF PollIntake
<1>2. /\ wrec \in [Hosts -> Record] /\ prec \in [Hosts -> Record] /\ queue \in [Hosts -> Record \cup {None}]
      /\ ppc'[h] = "desk" /\ \A g \in Hosts \ {h} : ppc'[g] = ppc[g]
      /\ NewRecord \in Record /\ CopyKept(h, NewRecord) /\ NewRecord.pending = "none" /\ NewRecord # None
  BY <1>1, NewRecordType, NewIsKept, MonitorAssumption DEF MonitorInv, MonitorTypeOK, NewRecord
<1>3. /\ wpc[h] = "idle" /\ ~wrec[h].latest
      /\ \A c \in Requests(h) : call[c] = NoCall /\ ~Active(c)
      /\ wrec[h] \in Record /\ CopyKept(h, wrec[h]) /\ prec[h] \in Record /\ CopyKept(h, prec[h])
  BY <1>1, <1>2, CopiesOf DEF HostKept, ThreadsKept, NoCall, Active
<1>4. /\ Asks(h) /\ crashes' = crashes
      /\ \A g \in Hosts \ {h} :
           Follows(wrec'[g], wrec[g]) /\ Follows(prec'[g], prec[g]) /\ FileFollows(g, queue[g])
      /\ CopyKept(h, prec[h])' /\ CopyKept(h, queue[h])' /\ queue'[h] # None
      /\ Follows(wrec'[h], wrec[h])
  <2>1. CASE IntakeUnanswered(h, NewRecord, wrec)
    <3>1. /\ Asks(h) /\ crashes' = crashes
          /\ \A g \in Hosts : Follows(wrec'[g], wrec[g]) /\ Follows(prec'[g], prec[g])
          /\ \A g \in Hosts \ {h} : FileFollows(g, queue[g])
          /\ FileFollows(h, NewRecord)
      BY <1>2, <2>1, UnansweredFollows
    <3>2. status' = status \/ status' = "RECEIVED"
      BY <3>1, AskingTicket
    <3>3. queue'[h] # None /\ Follows(queue'[h], NewRecord)
      BY <1>2, <3>1 DEF FileFollows
    <3>4. CopyKept(h, prec[h])' /\ CopyKept(h, queue[h])'
      BY <1>2, <1>3, <3>1, <3>2, <3>3, AskingCopies
    <3>5. QED
      BY <3>1, <3>3, <3>4
  <2>2. CASE /\ Intake(h) /\ prec' = [AfterIntake(h, prec) EXCEPT ![h] = TakeIntake(h, NewRecord)]
             /\ wrec' = AfterIntake(h, wrec) /\ queue' = [AfterIntake(h, queue) EXCEPT ![h] = prec'[h]]
             /\ UNCHANGED boundVars
    <3>0. PICK t : t = TakeIntake(h, NewRecord)
      OBVIOUS
    <3>1. /\ AfterIntake(h, wrec) \in [Hosts -> Record] /\ AfterIntake(h, prec) \in [Hosts -> Record]
          /\ AfterIntake(h, queue) \in [Hosts -> Record \cup {None}]
      BY <1>2, OutdatedCopies
    <3>2. t \in Record /\ t # None
      BY <1>2, <3>0, TakeIntakeType, MonitorAssumption
    <3>3. prec' = [AfterIntake(h, prec) EXCEPT ![h] = t]
      BY <2>2, <3>0
    <3>4. /\ prec'[h] = t /\ queue'[h] = t
          /\ \A g \in Hosts \ {h} : /\ prec'[g] = AfterIntake(h, prec)[g]
                                    /\ queue'[g] = AfterIntake(h, queue)[g]
      BY <2>2, <3>1, <3>3
    <3>5. \A g \in Hosts : Follows(AfterIntake(h, wrec)[g], wrec[g]) /\ Follows(AfterIntake(h, prec)[g], prec[g])
      BY <1>2, <2>2, OutdatedFollows
    <3>6. \A g \in Hosts \ {h} : FileFollows(g, queue[g])
      BY <1>2, <2>2, <3>4, OutdatedFile
    <3>7. CopyKept(h, t)'
      BY <1>2, <2>2, <3>0, AskingCopies
    <3>8. CopyKept(h, prec[h])' /\ CopyKept(h, queue[h])'
      BY <3>4, <3>7 DEF CopyKept
    <3>9. QED
      BY <2>2, <3>2, <3>4, <3>5, <3>6, <3>8 DEF Asks, boundVars
  <2>3. QED
    BY <2>1, <2>2 DEF PollIntake
<1>5. CopyKept(h, wrec[h])' /\ ~wrec'[h].latest
  <2>1. status' = status \/ status' = "RECEIVED"
    BY <1>4, AskingTicket
  <2>2. QED
    BY <1>3, <1>4, <2>1, AskingCopies
<1>6. ThreadsKept(h)'
  <2>1. call' = call
    BY <1>4, AskingTicket
  <2>2. QED
    BY <1>1, <1>2, <1>3, <1>5, <2>1 DEF HostKept, ThreadsKept, At
<1>7. QED
  BY <1>1, <1>2, <1>3, <1>4, <1>5, <1>6, KeptAsking DEF FileFollows

\* The worker's intake, and the renewal while Codex runs.
LEMMA KeptWorkerIntake ==
  ASSUME TicketInv, MonitorInv, \A g \in Hosts : HostKept(g), NEW h \in Hosts, WorkerIntake(h) \/ Refresh(h)
  PROVE  \A g \in Hosts : HostKept(g)'
<1> USE DEF At, Goto
<1>1. /\ wpc[h] \in {"intake", "running"} /\ ppc' = ppc /\ ended' = ended /\ expired' = expired
  BY DEF WorkerIntake, Refresh
<1>2. /\ wrec \in [Hosts -> Record] /\ prec \in [Hosts -> Record] /\ queue \in [Hosts -> Record \cup {None}]
      /\ NewRecord \in Record /\ CopyKept(h, NewRecord) /\ NewRecord.pending = "none" /\ ~NewRecord.latest
      /\ \A r \in Record : r # None
  BY NewRecordType, NewIsKept, MonitorAssumption DEF MonitorInv, MonitorTypeOK, NewRecord
<1>3. /\ ppc[h] = "idle" /\ ~prec[h].latest /\ wrec[h].pending = "none" /\ ~Active(h) /\ h \notin expired
      /\ wrec[h] \in Record /\ CopyKept(h, wrec[h]) /\ prec[h] \in Record /\ CopyKept(h, prec[h])
  BY <1>1, <1>2, PassFinds, CopiesOf DEF HostKept, ThreadsKept
<1>4. \E pc \in {"route", "running", "lost", "idle"} :
        /\ wpc' = [wpc EXCEPT ![h] = pc]
        /\ \/ pc # "idle" /\ WorkerTakes(h) /\ UNCHANGED boundVars
           \/ pc = "idle" /\ IntakeUnanswered(h, wrec[h], [wrec EXCEPT ![h] = NewRecord])
           \/ pc # "idle" /\ IntakeUnanswered(h, wrec[h], wrec)
  BY DEF WorkerIntake, Refresh
<1>5. PICK pc \in {"route", "running", "lost", "idle"} :
        /\ wpc' = [wpc EXCEPT ![h] = pc]
        /\ \/ pc # "idle" /\ WorkerTakes(h) /\ UNCHANGED boundVars
           \/ pc = "idle" /\ IntakeUnanswered(h, wrec[h], [wrec EXCEPT ![h] = NewRecord])
           \/ pc # "idle" /\ IntakeUnanswered(h, wrec[h], wrec)
  BY <1>4
<1>6. wpc'[h] = pc /\ \A g \in Hosts \ {h} : wpc'[g] = wpc[g]
  BY <1>5 DEF MonitorInv, MonitorTypeOK
<1>7. /\ Asks(h) /\ crashes' = crashes
      /\ \A g \in Hosts \ {h} :
           Follows(wrec'[g], wrec[g]) /\ Follows(prec'[g], prec[g]) /\ FileFollows(g, queue[g])
      /\ CopyKept(h, wrec[h])' /\ CopyKept(h, queue[h])' /\ queue'[h] # None
      /\ wrec'[h].pending = "none" /\ (pc = "idle" => ~wrec'[h].latest)
      /\ Follows(prec'[h], prec[h])
  <2>1. ASSUME NEW w \in [Hosts -> Record], IntakeUnanswered(h, wrec[h], w),
               \A g \in Hosts \ {h} : w[g] = wrec[g],
               w[h] = NewRecord \/ (pc # "idle" /\ w[h] = wrec[h])
        PROVE  /\ Asks(h) /\ crashes' = crashes
               /\ \A g \in Hosts \ {h} :
                    Follows(wrec'[g], wrec[g]) /\ Follows(prec'[g], prec[g]) /\ FileFollows(g, queue[g])
               /\ CopyKept(h, wrec[h])' /\ CopyKept(h, queue[h])' /\ queue'[h] # None
               /\ wrec'[h].pending = "none" /\ (pc = "idle" => ~wrec'[h].latest)
               /\ Follows(prec'[h], prec[h])
    <3>1. /\ Asks(h) /\ crashes' = crashes
          /\ \A g \in Hosts : Follows(wrec'[g], w[g]) /\ Follows(prec'[g], prec[g])
          /\ \A g \in Hosts \ {h} : FileFollows(g, queue[g])
          /\ FileFollows(h, wrec[h])
      BY <1>3, <2>1, UnansweredFollows
    <3>2. status' = status \/ status' = "RECEIVED"
      BY <3>1, AskingTicket
    <3>3. queue'[h] # None /\ Follows(queue'[h], wrec[h])
      BY <1>2, <1>3, <3>1 DEF FileFollows
    <3>4. w[h] \in Record /\ CopyKept(h, w[h]) /\ w[h].pending = "none" /\ (pc = "idle" => ~w[h].latest)
      BY <1>2, <1>3, <2>1
    <3>5. CopyKept(h, wrec[h])' /\ CopyKept(h, queue[h])' /\ (pc = "idle" => ~wrec'[h].latest)
      BY <1>3, <3>1, <3>2, <3>3, <3>4, AskingCopies
    <3>6. wrec'[h].pending = "none"
      BY <3>1, <3>4 DEF Follows
    <3>7. QED
      BY <2>1, <3>1, <3>3, <3>5, <3>6
  <2>2. CASE pc # "idle" /\ IntakeUnanswered(h, wrec[h], wrec)
    BY <1>2, <2>1, <2>2
  <2>3. CASE pc = "idle" /\ IntakeUnanswered(h, wrec[h], [wrec EXCEPT ![h] = NewRecord])
    <3>1. /\ [wrec EXCEPT ![h] = NewRecord] \in [Hosts -> Record]
          /\ [wrec EXCEPT ![h] = NewRecord][h] = NewRecord
          /\ \A g \in Hosts \ {h} : [wrec EXCEPT ![h] = NewRecord][g] = wrec[g]
      BY <1>2
    <3>2. QED
      BY <2>1, <2>3, <3>1
  <2>4. CASE pc # "idle" /\ WorkerTakes(h) /\ UNCHANGED boundVars
    <3>0. PICK t : t = TakeIntake(h, wrec[h])
      OBVIOUS
    <3>1. /\ AfterIntake(h, wrec) \in [Hosts -> Record] /\ AfterIntake(h, prec) \in [Hosts -> Record]
          /\ AfterIntake(h, queue) \in [Hosts -> Record \cup {None}]
      BY <1>2, OutdatedCopies
    <3>2. t \in Record /\ t # None
      BY <1>2, <1>3, <3>0, TakeIntakeType
    <3>3. /\ Intake(h) /\ wrec' = [AfterIntake(h, wrec) EXCEPT ![h] = t] /\ prec' = AfterIntake(h, prec)
          /\ queue' = [AfterIntake(h, queue) EXCEPT ![h] = wrec'[h]]
      BY <2>4, <3>0 DEF WorkerTakes
    <3>4. /\ wrec'[h] = t /\ queue'[h] = t
          /\ \A g \in Hosts \ {h} : /\ wrec'[g] = AfterIntake(h, wrec)[g]
                                    /\ queue'[g] = AfterIntake(h, queue)[g]
      BY <3>1, <3>3
    <3>5. \A g \in Hosts : Follows(AfterIntake(h, wrec)[g], wrec[g]) /\ Follows(AfterIntake(h, prec)[g], prec[g])
      BY <1>2, <3>3, OutdatedFollows
    <3>6. \A g \in Hosts \ {h} : FileFollows(g, queue[g])
      BY <1>2, <3>3, <3>4, OutdatedFile
    <3>7. CopyKept(h, t)' /\ t.pending = "none"
      BY <1>3, <3>0, <3>3, AskingCopies
    <3>8. CopyKept(h, wrec[h])' /\ CopyKept(h, queue[h])'
      BY <3>4, <3>7 DEF CopyKept
    <3>9. QED
      BY <2>4, <3>2, <3>3, <3>4, <3>5, <3>6, <3>7, <3>8 DEF Asks, boundVars
  <2>5. QED
    BY <1>5, <2>2, <2>3, <2>4
<1>8. CopyKept(h, prec[h])' /\ ~prec'[h].latest
  <2>1. status' = status \/ status' = "RECEIVED"
    BY <1>7, AskingTicket
  <2>2. QED
    BY <1>3, <1>7, <2>1, AskingCopies
<1>9. ThreadsKept(h)'
  BY <1>1, <1>3, <1>5, <1>6, <1>7, <1>8 DEF ThreadsKept
<1>10. QED
  BY <1>1, <1>3, <1>5, <1>6, <1>7, <1>8, <1>9, KeptAsking DEF FileFollows

\* Control carries out an intake nobody waits for: all copies follow.
LEMMA KeptLateIntake ==
  ASSUME TicketInv, MonitorInv, \A g \in Hosts : HostKept(g), NEW h \in Hosts, LateIntake(h)
  PROVE  \A g \in Hosts : HostKept(g)'
<1>1. /\ Intake(h) /\ wrec' = AfterIntake(h, wrec) /\ prec' = AfterIntake(h, prec) /\ queue' = AfterIntake(h, queue)
      /\ UNCHANGED <<ended, wpc, ppc, expired, crashes>>
  BY DEF LateIntake, boundVars
<1>2. /\ wrec \in [Hosts -> Record] /\ prec \in [Hosts -> Record] /\ queue \in [Hosts -> Record \cup {None}]
  BY DEF MonitorInv, MonitorTypeOK
<1>3. \A g \in Hosts : Follows(wrec'[g], wrec[g]) /\ Follows(prec'[g], prec[g]) /\ FileFollows(g, queue[g])
  BY <1>1, <1>2, OutdatedFollows, OutdatedFile
<1>4. /\ call' = call /\ (status' = status \/ (status = None /\ status' = "RECEIVED"))
      /\ FinishUnderway' => FinishUnderway
      /\ \A g \in Hosts : \A c \in Requests(g) : Active(c) => Due(g)'
  BY <1>1, AskingTicket DEF Asks
<1>5. ASSUME NEW g \in Hosts PROVE HostKept(g)'
  <2>1. \/ claimOwner' = claimOwner
        \/ ~wrec'[g].latest /\ ~prec'[g].latest /\ (queue'[g] # None => ~queue'[g].latest)
    BY <1>3 DEF Follows, FileFollows
  <2>2. /\ wrec'[g].pending = wrec[g].pending /\ wrec'[g].cst = wrec[g].cst /\ (wrec'[g].latest => wrec[g].latest)
        /\ prec'[g].pending = prec[g].pending /\ prec'[g].cst = prec[g].cst /\ (prec'[g].latest => prec[g].latest)
        /\ (queue'[g] = None) <=> (queue[g] = None)
        /\ queue[g] # None => /\ queue'[g].pending = queue[g].pending /\ queue'[g].cst = queue[g].cst
                              /\ queue'[g].latest => queue[g].latest
    BY <1>3 DEF Follows, FileFollows
  <2>3. QED
    BY <1>1, <1>4, <2>1, <2>2, KeptBeside
<1>6. QED
  BY <1>5

\* At the start there is nothing to keep.
LEMMA KeptInitially == MonitorInit => FinalInv
<1> SUFFICES ASSUME MonitorInit, NEW h \in Hosts PROVE HostKept(h)
  BY DEF FinalInv, MonitorInit, TicketInit, Callers
<1>1. \A r \in Copies(h) : CopyKept(h, r)
  BY NewIsKept, CopiesOf DEF MonitorInit
<1>2. ThreadsKept(h)
  BY NewIsKept, RequestsOf DEF MonitorInit, TicketInit, ThreadsKept, Callers, At
<1>3. RequestKept(h)
  BY RequestsOf DEF MonitorInit, TicketInit, RequestKept, NoCall, Active, Callers
<1>4. QED
  BY <1>1, <1>2, <1>3 DEF MonitorInit, TicketInit, HostKept

\* Passes that overlapped enqueue are only ever counted up.
LEMMA OverlapsGrow ==
  ASSUME MonitorInv, [MonitorNext]_monitorVars, overlaps' = 0 PROVE overlaps = 0
<1> USE DEF MonitorInv, MonitorTypeOK, boundVars, Fault
<1>1. ASSUME NEW h \in Hosts, WorkerStep(h) PROVE overlaps = 0
  <2>1. CASE StartPass(h)
    BY <2>1 DEF StartPass
  <2>2. CASE ~StartPass(h)
    BY <1>1, <2>2 DEF WorkerStep, WorkerIntake, Route, WorkerDesk, Unlink, Quarantine, AckDone,
       PendingApplied, PendingWaits, AfterAck, StartWorker, Refresh, CodexExit, Boot, Patch, Reconcile, Reply,
       Applied, ControlAnswers, DeskFails, IntakeUnanswered
  <2>3. QED
    BY <2>1, <2>2
<1>2. ASSUME NEW h \in Hosts, PollStep(h) PROVE overlaps = 0
  BY <1>2 DEF PollStep, PollIntake, PollDesk, Watch, IntakeUnanswered
<1>3. QED
  BY <1>1, <1>2 DEF MonitorNext, Crash, LateIntake, TransitionReads, TransitionWrites, RequestReturns,
     OperatorUpdates, ForegroundReplies, Tick, monitorVars

\* What has been taken back once is not restored.
LEMMA TakenBackStays == [MonitorNext]_monitorVars /\ ~takenBack' => ~takenBack
<1> USE DEF worldVars, threadVars
<1>1. ASSUME NEW h \in Hosts, WorkerStep(h) PROVE takenBack' = takenBack
  <2>1. CASE \/ StartPass(h) \/ WorkerIntake(h) \/ Route(h) \/ WorkerDesk(h) \/ Reconcile(h) \/ Reply(h)
             \/ Patch(h) \/ AckDone(h) \/ PendingApplied(h) \/ PendingWaits(h) \/ Refresh(h) \/ Unlink(h)
             \/ Quarantine(h) \/ \E stale \in BOOLEAN : Boot(h, stale)
    BY <2>1 DEF StartPass, WorkerIntake, Route, WorkerDesk, Reconcile, Reply, Patch, AckDone, PendingApplied,
       PendingWaits, Refresh, Unlink, Quarantine, Boot
  <2>2. CASE AfterAck(h) \/ StartWorker(h) \/ \E ok \in BOOLEAN : CodexExit(h, ok)
    BY <2>2 DEF AfterAck, StartWorker, CodexExit, Run, Queue
  <2>3. QED
    BY <1>1, <2>1, <2>2 DEF WorkerStep
<1>2. ASSUME NEW h \in Hosts, PollStep(h) \/ LateIntake(h) \/ Crash(h) PROVE takenBack' = takenBack
  BY <1>2 DEF PollStep, PollIntake, PollDesk, Watch, LateIntake, Crash
<1>3. QED
  BY <1>1, <1>2 DEF MonitorNext, TransitionReads, TransitionWrites, RequestReturns, OperatorUpdates,
     ForegroundReplies, Tick, monitorVars

\* Every step keeps a finished ticket finished.
LEMMA KeptNext == TicketInv /\ MonitorInv /\ FinalInv /\ [MonitorNext]_monitorVars => FinalInv'
<1> SUFFICES ASSUME TicketInv, MonitorInv, FinalInv, [MonitorNext]_monitorVars,
                    updates' = 0, overlaps' = 0, ~takenBack'
             PROVE  (\A o \in Operators : call'[o] = NoCall) /\ \A h \in Hosts : HostKept(h)'
  BY DEF FinalInv
<1>1. overlaps = 0 /\ ~takenBack
  BY OverlapsGrow, TakenBackStays
<1>2. updates = 0 /\ \A o \in Operators : call'[o] = NoCall
  BY <1>1, IdleOperators DEF FinalInv
<1>3. (\A o \in Operators : call[o] = NoCall) /\ \A h \in Hosts : HostKept(h)
  BY <1>1, <1>2 DEF FinalInv
<1>4. ASSUME NEW h \in Hosts, WorkerStep(h) PROVE \A g \in Hosts : HostKept(g)'
  BY <1>3, <1>4, KeptWork, KeptPatch, KeptAnswer, KeptFiles, KeptWorkerIntake DEF WorkerStep
<1>5. ASSUME NEW h \in Hosts, PollStep(h) PROVE \A g \in Hosts : HostKept(g)'
  BY <1>3, <1>5, KeptFiles, KeptPollIntake DEF PollStep
<1>6. ASSUME NEW h \in Hosts, LateIntake(h) \/ Crash(h) PROVE \A g \in Hosts : HostKept(g)'
  BY <1>3, <1>6, KeptFiles, KeptLateIntake
<1>7. ASSUME \/ \E c \in Late : RequestReturns(c)
             \/ \E c \in Hosts \cup Late : TransitionReads(c, TRUE)
             \/ Tick \/ ForegroundReplies \/ UNCHANGED monitorVars
      PROVE  \A g \in Hosts : HostKept(g)'
  BY <1>3, <1>7, KeptCalls
<1>8. ASSUME NEW c \in Callers, TransitionWrites(c) PROVE \A g \in Hosts : HostKept(g)'
  <2>1. takenBack' = FALSE
    BY <1>8 DEF TransitionWrites, MonitorInv, MonitorTypeOK
  <2>2. QED
    BY <1>3, <1>8, <2>1, KeptWrite
<1>9. ASSUME NEW o \in Operators PROVE /\ ~RequestReturns(o) /\ \A note \in BOOLEAN : ~TransitionReads(o, note)
                                       /\ \A u \in Updates : ~OperatorUpdates(o, u)
  <2>1. call[o].step = "idle"
    BY <1>3 DEF NoCall
  <2>2. updates' # updates + 1
    BY <1>2
  <2>3. QED
    BY <2>1, <2>2 DEF RequestReturns, Returns, TransitionReads, TxRead, OperatorUpdates
<1>10. QED
  BY <1>2, <1>4, <1>5, <1>6, <1>7, <1>8, <1>9 DEF MonitorNext

\* finish_record: a record is archived as completed or exhausted only once Control has that outcome,
\* and it keeps it whatever requests run on next to each other, up to the first that was given up on and
\* reopens the settled ticket; operators' moves, a pass that overlapped enqueue and a restart's
\* quarantine of a copy left in the queue are excepted.
THEOREM OutcomesAreKept == MonitorSpec => []FinalStatusKept
<1>1. FinalInv => FinalStatusKept
  BY DEF FinalInv, HostKept, FinalStatus, Finished, FinalStatusKept
<1>2. QED
  BY <1>1, KeptInitially, KeptNext, MonitorInvariant, PTL DEF MonitorSpec
=============================================================================
