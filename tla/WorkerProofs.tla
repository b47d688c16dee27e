----------------------------- MODULE WorkerProofs ----------------------------
(***************************************************************************)
(* One worker at a time, for every number of monitors and operators: what  *)
(* each step does to the copies of the record, who may have acknowledged   *)
(* the message, who may be about to, and who holds the claim; together no  *)
(* single disturbance lets Codex run on two hosts.                         *)
(***************************************************************************)
EXTENDS TicketProofs, FiniteSetTheorems

-----------------------------------------------------------------------------
(***************************************************************************)
(* One worker: what each step does to the copies.                          *)
(***************************************************************************)

\* Two copies with the same claim, and with the same word on the acknowledgment.
Rights(r, o) == r.granted = o.granted /\ r.latest = o.latest
Marked(r, o) == r.acked = o.acked /\ r.inFlight = o.inFlight /\ r.existing = o.existing
Same(r, o) == Rights(r, o) /\ Marked(r, o) /\ r.pending = o.pending /\ r.ready = o.ready

\* What a pass writes into a copy.
Answered(r, o, e) ==
  /\ Rights(r, o) /\ r.pending = o.pending /\ r.ready = o.ready
  /\ r.acked /\ ~r.inFlight /\ r.existing = e
Sending(r, o, e) ==
  /\ Rights(r, o) /\ r.pending = o.pending /\ r.ready = o.ready
  /\ r.acked = o.acked /\ r.existing = o.existing /\ r.inFlight = e
Attempted(r, o) == Rights(r, o) /\ Marked(r, o) /\ r.pending = o.pending /\ ~r.ready
Recorded(r, o) == Rights(r, o) /\ Marked(r, o) /\ r.pending = "none" /\ r.ready
Queued(r, o, t) == Rights(r, o) /\ Marked(r, o) /\ r.pending = t /\ r.ready = o.ready

\* The edits of the code are these.
LEMMA EditsAre ==
  ASSUME NEW r \in Record
  PROVE  /\ Same(r, r)
         /\ \A d \in {"task", "fingerprint"} : Same([r EXCEPT !.desk = d], r)
         /\ Same([r EXCEPT !.cst = "ACKNOWLEDGED"], r) /\ Same([r EXCEPT !.cst = r.pending], r)
         /\ \A e \in BOOLEAN : Answered([r EXCEPT !.acked = TRUE, !.inFlight = FALSE, !.existing = e], r, e)
         /\ Answered([r EXCEPT !.acked = TRUE, !.inFlight = FALSE], r, r.existing)
         /\ \A e \in BOOLEAN : Sending([r EXCEPT !.inFlight = e], r, e)
         /\ Attempted([r EXCEPT !.ready = FALSE, !.attempts = @ + 1], r)
         /\ Recorded([r EXCEPT !.cst = r.pending, !.pending = "none", !.ready = TRUE], r)
         /\ \A t \in PendingTransition : Queued([r EXCEPT !.pending = t], r, t)
<1> USE DEF Record, Rights, Marked
<1>1. Same(r, r)
  BY DEF Same
<1>2. \A d \in {"task", "fingerprint"} : Same([r EXCEPT !.desk = d], r)
  BY DEF Same
<1>3. Same([r EXCEPT !.cst = "ACKNOWLEDGED"], r) /\ Same([r EXCEPT !.cst = r.pending], r)
  BY DEF Same
<1>4. /\ \A e \in BOOLEAN : Answered([r EXCEPT !.acked = TRUE, !.inFlight = FALSE, !.existing = e], r, e)
      /\ Answered([r EXCEPT !.acked = TRUE, !.inFlight = FALSE], r, r.existing)
  BY DEF Answered
<1>5. \A e \in BOOLEAN : Sending([r EXCEPT !.inFlight = e], r, e)
  BY DEF Sending
<1>6. Attempted([r EXCEPT !.ready = FALSE, !.attempts = @ + 1], r)
  BY DEF Attempted
<1>7. Recorded([r EXCEPT !.cst = r.pending, !.pending = "none", !.ready = TRUE], r)
  BY DEF Recorded
<1>8. \A t \in PendingTransition : Queued([r EXCEPT !.pending = t], r, t)
  BY DEF Queued
<1> HIDE DEF Record, Rights, Marked
<1>9. QED
  BY <1>1, <1>2, <1>3, <1>4, <1>5, <1>6, <1>7, <1>8

\* The record enqueue builds has no claim, no acknowledgment and no transition.
Unmarked(r) == ~r.acked /\ ~r.inFlight /\ r.pending = "none" /\ ~r.ready
Blank(r) == Unmarked(r) /\ ~r.granted /\ ~r.latest

\* build_record makes such a record.
LEMMA NewIsBlank == Blank(NewRecord) /\ NewRecord \in Record
BY NewRecordType DEF Blank, Unmarked, NewRecord

\* The worker of h goes to pc with w in memory and q in the queue; no other copy changes.
Steps(h, pc, w, q) ==
  /\ wpc'[h] = pc /\ wrec'[h] = w /\ queue'[h] = q /\ w \in Record
  /\ \A g \in Hosts \ {h} : wpc'[g] = wpc[g] /\ wrec'[g] = wrec[g] /\ queue'[g] = queue[g]

\* The worker's thread is alone in this.
Beside(h) ==
  /\ UNCHANGED <<ppc, prec, status, claimOwner, lease, foreground, delayed, takenBack, crashes, updates>>
  /\ \A c \in (Hosts \cup Operators) \ {h} : call'[c] = call[c]
  /\ faults' = faults => \A l \in Late : call'[l] = call[l]

\* A pass finds its copy and its file.
LEMMA PassHas ==
  ASSUME MonitorInv, NEW h \in Hosts
  PROVE  /\ wpc \in [Hosts -> WorkerSteps] /\ wrec \in [Hosts -> Record]
         /\ queue \in [Hosts -> Record \cup {None}] /\ None \notin Record
         /\ wrec[h] \in Record /\ (queue[h] # None => queue[h] \in Record)
         /\ wpc[h] \notin {"idle", "down"} => queue[h] \in Record
BY MonitorAssumption DEF MonitorInv, MonitorTypeOK, PassOK

\* StartPass: a pass begins with the file; at Route only when it was synced just now.
LEMMA StartGoes ==
  ASSUME MonitorInv, NEW h \in Hosts, StartPass(h)
  PROVE  /\ Beside(h) /\ UNCHANGED <<call, aged, refreshDue, acks, faults>> /\ wpc[h] = "idle"
         /\ queue[h] # None
         /\ \E pc \in {"resume", "intake", "route"} :
              /\ Steps(h, pc, queue[h], queue[h])
              /\ pc = "resume" <=> queue[h].pending # "none"
              /\ pc = "route" => h \notin aged
BY PassHas DEF StartPass, At, Goto, Steps, Beside, ticketVars, claimVars, worldVars, threadVars

\* Route: archived, to Desk, to the acknowledgment or past it; the last two only with a claim.
LEMMA RouteGoes ==
  ASSUME MonitorInv, NEW h \in Hosts, Route(h)
  PROVE  /\ Beside(h) /\ UNCHANGED <<call, aged, refreshDue, acks, boundVars>> /\ wpc[h] = "route"
         /\ \/ Steps(h, "unlink", NewRecord, queue[h])
            \/ Steps(h, "desk", wrec[h], queue[h])
            \/ Steps(h, "next", wrec[h], queue[h]) /\ wrec[h].granted /\ wrec[h].acked
            \/ Steps(h, "reconcile", wrec[h], queue[h]) /\ wrec[h].granted /\ ~wrec[h].acked
BY PassHas, NewRecordType DEF Route, At, Goto, Archive, Forget, Steps, Beside, ticketVars, claimVars, worldVars, threadVars, boundVars

\* Desk changes neither claim nor acknowledgment of the record.
LEMMA DeskGoes ==
  ASSUME MonitorInv, NEW h \in Hosts, WorkerDesk(h)
  PROVE  /\ Beside(h) /\ UNCHANGED <<call, aged, refreshDue, acks>> /\ wpc[h] = "desk"
         /\ \/ Steps(h, "idle", NewRecord, wrec[h]) /\ Fault
            \/ UNCHANGED boundVars /\ \E w \in Record : Same(w, wrec[h]) /\ Steps(h, "route", w, w)
<1>1. /\ Beside(h) /\ UNCHANGED <<call, aged, refreshDue, acks>> /\ wpc[h] = "desk"
  BY DEF WorkerDesk, At, Beside, ticketVars, claimVars, worldVars, threadVars, boundVars, Fault
<1>2. CASE Fault /\ Pause(h, wrec[h])
  <2>1. Steps(h, "idle", NewRecord, wrec[h])
    BY <1>2, PassHas, NewRecordType DEF Pause, Goto, Forget, Steps
  <2>2. QED
    BY <1>1, <1>2, <2>1
<1>3. ASSUME NEW d \in {"task", "fingerprint"}, Save(h, [wrec[h] EXCEPT !.desk = d]), Goto(h, "route")
      PROVE  \E w \in Record : Same(w, wrec[h]) /\ Steps(h, "route", w, w)
  <2>1. [wrec[h] EXCEPT !.desk = d] \in Record /\ Same([wrec[h] EXCEPT !.desk = d], wrec[h])
    BY PassHas, RecordEdits, EditsAre
  <2>2. Steps(h, "route", [wrec[h] EXCEPT !.desk = d], [wrec[h] EXCEPT !.desk = d])
    BY <1>3, <2>1, PassHas DEF Save, Goto, Steps
  <2>3. QED
    BY <2>1, <2>2
<1>4. QED
  BY <1>1, <1>2, <1>3 DEF WorkerDesk

\* finish_record removes the file.
LEMMA UnlinkGoes ==
  ASSUME MonitorInv, NEW h \in Hosts, Unlink(h)
  PROVE  /\ Beside(h) /\ UNCHANGED <<call, refreshDue, acks, boundVars>> /\ wpc[h] = "unlink"
         /\ aged' = aged \ {h} /\ Steps(h, "idle", wrec[h], None)
BY PassHas DEF Unlink, At, Goto, Steps, Beside, ticketVars, claimVars, worldVars, threadVars, boundVars

\* Reconcile: the reply found makes the acknowledgment; without one the marker of the send is saved.
LEMMA ReconcileGoes ==
  ASSUME MonitorInv, NEW h \in Hosts, Reconcile(h)
  PROVE  /\ Beside(h) /\ UNCHANGED <<call, aged, refreshDue, acks>> /\ wpc[h] = "reconcile"
         /\ \/ Steps(h, "idle", NewRecord, wrec[h]) /\ Fault
            \/ /\ Replied /\ UNCHANGED boundVars
               /\ \E w \in Record : Answered(w, wrec[h], ~wrec[h].inFlight) /\ Steps(h, "ackSync", w, queue[h])
            \/ /\ ~Replied /\ UNCHANGED boundVars
               /\ \E w \in Record : Sending(w, wrec[h], TRUE) /\ Steps(h, "reply", w, w)
<1>1. /\ Beside(h) /\ UNCHANGED <<call, aged, refreshDue, acks>> /\ wpc[h] = "reconcile"
  BY DEF Reconcile, At, Beside, ticketVars, claimVars, worldVars, threadVars, boundVars, Fault
<1>2. queue[h] \in Record /\ queue = [queue EXCEPT ![h] = queue[h]]
  BY <1>1, PassHas
<1>3. CASE Fault /\ Pause(h, wrec[h])
  <2>1. Steps(h, "idle", NewRecord, wrec[h])
    BY <1>3, PassHas, NewRecordType DEF Pause, Goto, Forget, Steps
  <2>2. QED
    BY <1>1, <1>3, <2>1
<1>4. CASE /\ ReplyExists(h) /\ Goto(h, "ackSync") /\ UNCHANGED <<queue, boundVars>>
           /\ wrec' = [wrec EXCEPT ![h] =
                [wrec[h] EXCEPT !.acked = TRUE, !.inFlight = FALSE, !.existing = OwnedElsewhere(h)]]
  <2>1. PICK w : w = [wrec[h] EXCEPT !.acked = TRUE, !.inFlight = FALSE, !.existing = OwnedElsewhere(h)]
    OBVIOUS
  <2>2. w \in Record /\ Answered(w, wrec[h], ~wrec[h].inFlight)
    BY <2>1, PassHas, RecordEdits, EditsAre DEF OwnedElsewhere
  <2>3. Steps(h, "ackSync", w, queue[h])
    BY <1>4, <2>1, <2>2, PassHas DEF Goto, Steps
  <2>4. QED
    BY <1>1, <1>4, <2>2, <2>3 DEF ReplyExists, Replied
<1>5. CASE /\ ~ReplyExists(h) /\ Goto(h, "reply") /\ Save(h, [wrec[h] EXCEPT !.inFlight = TRUE])
           /\ UNCHANGED boundVars
  <2>1. PICK w : w = [wrec[h] EXCEPT !.inFlight = TRUE]
    OBVIOUS
  <2>2. w \in Record /\ Sending(w, wrec[h], TRUE)
    BY <2>1, PassHas, RecordEdits, EditsAre
  <2>3. Steps(h, "reply", w, w)
    BY <1>5, <2>1, <2>2, PassHas DEF Goto, Save, Steps
  <2>4. QED
    BY <1>1, <1>5, <2>2, <2>3 DEF ReplyExists, Replied
<1>6. QED
  BY <1>3, <1>4, <1>5 DEF Reconcile

\* Reply: sent, or failed with the marker of the send cleared or left in the file.
LEMMA ReplyGoes ==
  ASSUME MonitorInv, NEW h \in Hosts, Reply(h)
  PROVE  /\ Beside(h) /\ UNCHANGED <<call, aged, refreshDue>> /\ wpc[h] = "reply"
         /\ \/ /\ acks' = acks + 1 /\ UNCHANGED boundVars
               /\ \E w \in Record : Answered(w, wrec[h], wrec[h].existing) /\ Steps(h, "ackSync", w, queue[h])
            \/ /\ acks' \in {acks, acks + 1} /\ Fault
               /\ \/ Steps(h, "idle", NewRecord, queue[h])
                  \/ \E q \in Record : Sending(q, wrec[h], FALSE) /\ Steps(h, "idle", NewRecord, q)
<1>1. /\ Beside(h) /\ UNCHANGED <<call, aged, refreshDue>> /\ wpc[h] = "reply"
  BY DEF Reply, At, Beside, ticketVars, claimVars, worldVars, threadVars, boundVars, Fault
<1>2. CASE /\ acks' = acks + 1 /\ Goto(h, "ackSync") /\ UNCHANGED <<queue, boundVars>>
           /\ wrec' = [wrec EXCEPT ![h] = [wrec[h] EXCEPT !.acked = TRUE, !.inFlight = FALSE]]
  <2>1. PICK w : w = [wrec[h] EXCEPT !.acked = TRUE, !.inFlight = FALSE]
    OBVIOUS
  <2>2. w \in Record /\ Answered(w, wrec[h], wrec[h].existing)
    BY <2>1, PassHas, RecordEdits, EditsAre
  <2>3. Steps(h, "ackSync", w, queue[h])
    BY <1>2, <2>1, <2>2, PassHas DEF Goto, Steps
  <2>4. QED
    BY <1>1, <1>2, <2>2, <2>3
<1>3. CASE Fault /\ acks' \in {acks, acks + 1} /\ Pause(h, [wrec[h] EXCEPT !.inFlight = FALSE])
  <2>1. PICK q : q = [wrec[h] EXCEPT !.inFlight = FALSE]
    OBVIOUS
  <2>2. q \in Record /\ Sending(q, wrec[h], FALSE)
    BY <2>1, PassHas, RecordEdits, EditsAre
  <2>3. Steps(h, "idle", NewRecord, q)
    BY <1>3, <2>1, <2>2, PassHas, NewRecordType DEF Pause, Goto, Forget, Steps
  <2>4. QED
    BY <1>1, <1>3, <2>2, <2>3
<1>4. CASE Fault /\ acks' \in {acks, acks + 1} /\ Goto(h, "idle") /\ Forget(h) /\ UNCHANGED queue
  <2>1. Steps(h, "idle", NewRecord, queue[h])
    BY <1>4, PassHas, NewRecordType DEF Goto, Forget, Steps
  <2>2. QED
    BY <1>1, <1>4, <2>1
<1>5. QED
  BY <1>2, <1>3, <1>4 DEF Reply

\* Patch: Control has the request, or refuses it for want of a claim, or a fault loses it.
LEMMA PatchGoes ==
  ASSUME TicketInv, MonitorInv, NEW h \in Hosts, Patch(h)
  PROVE  /\ Beside(h) /\ UNCHANGED <<aged, refreshDue, acks>>
         /\ Steps(h, WaitOf[wpc[h]], wrec[h], queue[h])
         /\ \/ wpc[h] = "ackSync" /\ WaitOf[wpc[h]] = "ackWait" /\ Target(h) = "ACKNOWLEDGED"
            \/ wpc[h] = "boot" /\ WaitOf[wpc[h]] = "bootWait"
            \/ wpc[h] = "resume" /\ WaitOf[wpc[h]] = "resumeWait"
            \/ wpc[h] = "pend" /\ WaitOf[wpc[h]] = "pendWait"
         /\ \/ /\ call'[h].step = "begin" /\ call'[h].to = Target(h) /\ Claimed(wrec[h].latest)
               /\ UNCHANGED boundVars
            \/ call'[h].step = "refused" /\ (Fault \/ (~Claimed(wrec[h].latest) /\ UNCHANGED boundVars))
<1>1. /\ wpc[h] \in {"ackSync", "resume", "pend", "boot"} /\ wpc' = [wpc EXCEPT ![h] = WaitOf[wpc[h]]]
      /\ wpc[h] = "ackSync" => WaitOf[wpc[h]] = "ackWait" /\ Target(h) = "ACKNOWLEDGED"
      /\ wpc[h] = "boot" => WaitOf[wpc[h]] = "bootWait"
      /\ wpc[h] = "resume" => WaitOf[wpc[h]] = "resumeWait"
      /\ wpc[h] = "pend" => WaitOf[wpc[h]] = "pendWait"
  BY DEF Patch, WaitOf, Target, At, Goto
<1>2. /\ status' = status /\ claimOwner' = claimOwner /\ lease' = lease
      /\ UNCHANGED <<queue, wrec, ppc, prec, aged, refreshDue, acks, foreground, crashes, updates>>
      /\ \/ /\ call' = [call EXCEPT ![h] = [NoCall EXCEPT !.step = "begin", !.to = Target(h), !.input = "keep"]]
            /\ Claimed(wrec[h].latest) /\ UNCHANGED boundVars
         \/ /\ call' = [call EXCEPT ![h] = [NoCall EXCEPT !.step = "refused"]]
            /\ Fault \/ (~Claimed(wrec[h].latest) /\ UNCHANGED boundVars)
  BY DEF Patch, BeginClaimed, Begin, RefuseClaimed, claimVars, boundVars, worldVars, threadVars, Fault
<1>d. delayed' = delayed /\ takenBack' = takenBack
  BY DEF Patch, worldVars, threadVars
<1>a. /\ h \in Callers /\ h \notin Late /\ call \in [Callers -> Call]
      /\ (Hosts \cup Operators) \ {h} \subseteq Callers \ {h} /\ Late \subseteq Callers \ {h}
  BY TicketAssumption DEF TicketInv, TicketTypeOK, Callers, Late
<1>b. /\ [NoCall EXCEPT !.step = "begin", !.to = Target(h), !.input = "keep"].step = "begin"
      /\ [NoCall EXCEPT !.step = "begin", !.to = Target(h), !.input = "keep"].to = Target(h)
      /\ [NoCall EXCEPT !.step = "refused"].step = "refused"
  BY DEF NoCall
<1>3. /\ \A c \in (Hosts \cup Operators) \ {h} : call'[c] = call[c]
      /\ \A l \in Late : call'[l] = call[l]
      /\ \/ /\ call'[h].step = "begin" /\ call'[h].to = Target(h) /\ Claimed(wrec[h].latest)
            /\ UNCHANGED boundVars
         \/ call'[h].step = "refused" /\ (Fault \/ (~Claimed(wrec[h].latest) /\ UNCHANGED boundVars))
  BY <1>2, <1>a, <1>b
<1>4. Steps(h, WaitOf[wpc[h]], wrec[h], queue[h])
  BY <1>1, <1>2, PassHas DEF Steps
<1>5. QED
  BY <1>1, <1>2, <1>3, <1>4, <1>d DEF Beside

\* Control's answer: the request has ended, or with a fault the monitor has given up on it.
Ends(h, ok) ==
  /\ call'[h] = NoCall
  /\ \/ call[h].step = (IF ok THEN "done" ELSE "refused") /\ UNCHANGED boundVars
     \/ Fault

\* ControlAnswers touches nothing but the monitor's own requests.
LEMMA AnswerIs ==
  ASSUME TicketInv, MonitorInv, NEW h \in Hosts, NEW ok \in BOOLEAN, ControlAnswers(h, ok)
  PROVE  /\ Ends(h, ok) /\ UNCHANGED <<status, claimOwner, lease, crashes, updates>>
         /\ \A c \in (Hosts \cup Operators) \ {h} : call'[c] = call[c]
         /\ faults' = faults => \A l \in Late : call'[l] = call[l]
<1>1. /\ call \in [Callers -> Call] /\ faults \in Nat /\ h \notin Late
      /\ (Hosts \cup Operators) \ {h} \subseteq Callers \ ({h} \cup Late) /\ Late \subseteq Callers
  BY TicketAssumption DEF TicketInv, TicketTypeOK, MonitorInv, MonitorTypeOK, Callers, Late
<1>2. UNCHANGED <<status, claimOwner, lease, crashes, updates>> /\ (Returns(h) \/ Abandon(h))
  BY DEF ControlAnswers, Returns, Abandon, claimVars, boundVars, Fault
<1>3. call'[h] = NoCall /\ \A c \in (Hosts \cup Operators) \ {h} : call'[c] = call[c]
  BY <1>1, <1>2, AnsweredRequests
<1>4. Ends(h, ok)
  BY <1>3 DEF ControlAnswers, Ends
<1>5. faults' = faults => Returns(h)
  BY <1>1 DEF ControlAnswers, Fault
<1>6. faults' = faults => \A l \in Late : call'[l] = call[l]
  BY <1>1, <1>5 DEF Returns
<1>7. QED
  BY <1>2, <1>3, <1>4, <1>6

\* Desk's failure ends the request, too.
LEMMA DeskIs ==
  ASSUME TicketInv, MonitorInv, NEW h \in Hosts, DeskFails(h)
  PROVE  /\ Fault /\ call'[h] = NoCall /\ UNCHANGED <<status, claimOwner, lease, crashes, updates>>
         /\ \A c \in (Hosts \cup Operators) \ {h} : call'[c] = call[c]
         /\ \A l \in Late : call'[l] = call[l]
<1>1. /\ call \in [Callers -> Call] /\ h \in Callers /\ h \notin Late /\ Late \subseteq Callers
      /\ (Hosts \cup Operators) \ {h} \subseteq Callers \ {h}
  BY TicketAssumption DEF TicketInv, TicketTypeOK, Callers, Late
<1>2. QED
  BY <1>1 DEF DeskFails, Returns, Fault, claimVars

\* The acknowledgment is saved whatever Control answered.
LEMMA AckDoneGoes ==
  ASSUME TicketInv, MonitorInv, NEW h \in Hosts, AckDone(h)
  PROVE  /\ Beside(h) /\ UNCHANGED <<refreshDue, acks>> /\ wpc[h] = "ackWait"
         /\ aged' \in {aged, aged \ {h}} /\ \E ok \in BOOLEAN : Ends(h, ok)
         /\ \E w \in Record : Same(w, wrec[h]) /\ Steps(h, "next", w, w)
<1>1. PICK ok \in BOOLEAN :
        /\ ControlAnswers(h, ok) /\ Synced(h, ok)
        /\ Save(h, IF ok THEN [wrec[h] EXCEPT !.cst = "ACKNOWLEDGED"] ELSE wrec[h])
  BY DEF AckDone
<1>2. PICK w : w = IF ok THEN [wrec[h] EXCEPT !.cst = "ACKNOWLEDGED"] ELSE wrec[h]
  OBVIOUS
<1>3. w \in Record /\ Same(w, wrec[h])
  BY <1>2, PassHas, RecordEdits, EditsAre
<1>4. wpc[h] = "ackWait" /\ Steps(h, "next", w, w)
  BY <1>1, <1>2, <1>3, PassHas DEF AckDone, At, Goto, Save, Steps
<1>5. UNCHANGED <<ppc, prec, refreshDue, acks, foreground, delayed, takenBack>> /\ aged' \in {aged, aged \ {h}}
  BY <1>1 DEF AckDone, worldVars, threadVars, Synced
<1>6. QED
  BY <1>1, <1>3, <1>4, <1>5, AnswerIs DEF Beside

\* An applied transition is archived, or recorded before the worker starts.
LEMMA AppliedGoes ==
  ASSUME TicketInv, MonitorInv, NEW h \in Hosts, PendingApplied(h)
  PROVE  /\ Beside(h) /\ UNCHANGED <<refreshDue, acks>> /\ wpc[h] \in {"resumeWait", "pendWait"}
         /\ aged' = aged \ {h} /\ Ends(h, TRUE)
         /\ \/ /\ wrec[h].pending # "IN_PROGRESS" /\ Steps(h, "unlink", NewRecord, queue[h])
            \/ /\ wrec[h].pending = "IN_PROGRESS" /\ wpc[h] = "pendWait"
               /\ \E w \in Record : Recorded(w, wrec[h]) /\ Steps(h, "start", w, w)
            \/ /\ wrec[h].pending = "IN_PROGRESS" /\ wpc[h] = "resumeWait"
               /\ \E q \in Record : Recorded(q, wrec[h]) /\ Steps(h, "idle", NewRecord, q)
<1>0. PICK r : r = [wrec[h] EXCEPT !.cst = wrec[h].pending, !.pending = "none", !.ready = TRUE]
  OBVIOUS
<1>1. /\ wpc[h] \in {"resumeWait", "pendWait"} /\ ControlAnswers(h, TRUE) /\ aged' = aged \ {h}
      /\ UNCHANGED <<ppc, prec, refreshDue, acks, foreground, delayed, takenBack>>
      /\ IF wrec[h].pending = "IN_PROGRESS"
         THEN IF wpc[h] = "pendWait" THEN Save(h, r) /\ Goto(h, "start") ELSE Pause(h, r)
         ELSE Archive(h, OutcomeOf[wrec[h].pending])
  BY <1>0 DEF PendingApplied, Applied, Synced, worldVars, threadVars, At
<1>2. wrec[h].pending # "none" /\ wrec[h] \in Record
  BY <1>1, PassHas DEF MonitorInv, PassOK
<1>3. r \in Record /\ Recorded(r, wrec[h])
  BY <1>0, <1>2, RecordEdits, EditsAre
<1>4. Beside(h) /\ Ends(h, TRUE)
  BY <1>1, AnswerIs DEF Beside
<1>5. CASE wrec[h].pending # "IN_PROGRESS"
  <2>1. Steps(h, "unlink", NewRecord, queue[h])
    BY <1>1, <1>5, PassHas, NewRecordType DEF Archive, Goto, Forget, Steps
  <2>2. QED
    BY <1>1, <1>4, <1>5, <2>1
<1>6. CASE wrec[h].pending = "IN_PROGRESS" /\ wpc[h] = "pendWait"
  <2>1. Steps(h, "start", r, r)
    BY <1>1, <1>3, <1>6, PassHas DEF Save, Goto, Steps
  <2>2. QED
    BY <1>1, <1>3, <1>4, <1>6, <2>1
<1>7. CASE wrec[h].pending = "IN_PROGRESS" /\ wpc[h] = "resumeWait"
  <2>1. Steps(h, "idle", NewRecord, r)
    BY <1>1, <1>3, <1>7, PassHas, NewRecordType DEF Pause, Goto, Forget, Steps
  <2>2. QED
    BY <1>1, <1>3, <1>4, <1>7, <2>1
<1>8. QED
  BY <1>1, <1>5, <1>6, <1>7

\* A transition that failed stays in the file.
LEMMA WaitsGoes ==
  ASSUME TicketInv, MonitorInv, NEW h \in Hosts, PendingWaits(h)
  PROVE  /\ Beside(h) /\ UNCHANGED <<refreshDue, acks>> /\ wpc[h] \in {"resumeWait", "pendWait"}
         /\ aged' \in {aged, aged \ {h}} /\ (Ends(h, FALSE) \/ Fault)
         /\ \E q \in Record : Same(q, wrec[h]) /\ Steps(h, "idle", NewRecord, q)
<1>1. wpc[h] \in {"resumeWait", "pendWait"} /\ UNCHANGED <<ppc, prec, refreshDue, acks, foreground, delayed, takenBack>>
  BY DEF PendingWaits, worldVars, threadVars
<1>2. wrec[h].pending # "none" /\ wrec[h] \in Record
  BY <1>1, PassHas DEF MonitorInv, PassOK
<1>3. /\ Same(wrec[h], wrec[h]) /\ Same([wrec[h] EXCEPT !.cst = wrec[h].pending], wrec[h])
      /\ [wrec[h] EXCEPT !.cst = wrec[h].pending] \in Record
  BY <1>2, RecordEdits, EditsAre
<1>4. ASSUME NEW q \in Record, Pause(h, q) PROVE Steps(h, "idle", NewRecord, q)
  BY <1>4, PassHas, NewRecordType DEF Pause, Goto, Forget, Steps
<1>5. CASE ControlAnswers(h, FALSE) /\ Pause(h, wrec[h]) /\ UNCHANGED aged
  <2>1. Beside(h) /\ Ends(h, FALSE)
    BY <1>1, <1>5, AnswerIs DEF Beside
  <2>2. QED
    BY <1>1, <1>2, <1>3, <1>4, <1>5, <2>1
<1>6. CASE DeskFails(h) /\ Pause(h, [wrec[h] EXCEPT !.cst = wrec[h].pending]) /\ aged' = aged \ {h}
  <2>1. Beside(h) /\ Fault
    BY <1>1, <1>6, DeskIs DEF Beside
  <2>2. QED
    BY <1>1, <1>3, <1>4, <1>6, <2>1
<1>7. QED
  BY <1>5, <1>6 DEF PendingWaits

\* The quarantine skips the record whatever Control answered.
LEMMA QuarantineGoes ==
  ASSUME TicketInv, MonitorInv, NEW h \in Hosts, Quarantine(h)
  PROVE  /\ Beside(h) /\ UNCHANGED <<refreshDue, acks>> /\ wpc[h] = "bootWait"
         /\ aged' \in {aged, aged \ {h}} /\ \E ok \in BOOLEAN : Ends(h, ok)
         /\ Steps(h, "unlink", NewRecord, queue[h])
<1>1. PICK ok \in BOOLEAN : ControlAnswers(h, ok) /\ Synced(h, ok)
  BY DEF Quarantine
<1>2. wpc[h] = "bootWait" /\ Steps(h, "unlink", NewRecord, queue[h])
  BY PassHas, NewRecordType DEF Quarantine, At, Archive, Goto, Forget, Steps
<1>3. UNCHANGED <<ppc, prec, refreshDue, acks, foreground, delayed, takenBack>> /\ aged' \in {aged, aged \ {h}}
  BY <1>1 DEF Quarantine, worldVars, threadVars, Synced
<1>4. QED
  BY <1>1, <1>2, <1>3, AnswerIs DEF Beside

\* AfterAck: a transition is queued, Codex starts on a record of this host's own, or the record is archived.
LEMMA AfterAckGoes ==
  ASSUME MonitorInv, NEW h \in Hosts, AfterAck(h)
  PROVE  /\ Beside(h) /\ UNCHANGED <<call, aged, refreshDue, acks, boundVars>> /\ wpc[h] = "next"
         /\ \/ \E w \in Record : Queued(w, wrec[h], "REJECTED") /\ Steps(h, "pend", w, w)
            \/ Steps(h, "unlink", NewRecord, queue[h])
            \/ /\ ~wrec[h].existing
               /\ \E w \in Record : Queued(w, wrec[h], "IN_PROGRESS") /\ Steps(h, "pend", w, w)
            \/ /\ ~wrec[h].existing /\ wrec[h].ready
               /\ \E w \in Record : Attempted(w, wrec[h]) /\ Steps(h, "running", w, w)
<1>1. /\ Beside(h) /\ UNCHANGED <<call, aged, refreshDue, acks, boundVars>> /\ wpc[h] = "next"
  BY DEF AfterAck, At, Beside, Queue, Run, ticketVars, claimVars, worldVars, threadVars, boundVars
<1>2. wrec[h] \in Record /\ queue[h] \in Record
  BY <1>1, PassHas
<1>3. ASSUME NEW t \in {"REJECTED", "IN_PROGRESS"}, Queue(h, wrec[h], t)
      PROVE  \E w \in Record : Queued(w, wrec[h], t) /\ Steps(h, "pend", w, w)
  <2>1. PICK w : w = [wrec[h] EXCEPT !.pending = t]
    OBVIOUS
  <2>2. t \in PendingTransition
    BY DEF PendingTransition
  <2>3. w \in Record /\ Queued(w, wrec[h], t)
    BY <1>2, <2>1, <2>2, RecordEdits, EditsAre
  <2>4. Steps(h, "pend", w, w)
    BY <1>3, <2>1, <2>3, PassHas DEF Queue, Save, Goto, Steps
  <2>5. QED
    BY <2>3, <2>4
<1>4. ASSUME Run(h, wrec[h])
      PROVE  \E w \in Record : Attempted(w, wrec[h]) /\ Steps(h, "running", w, w)
  <2>1. PICK w : w = [wrec[h] EXCEPT !.ready = FALSE, !.attempts = @ + 1]
    OBVIOUS
  <2>2. w \in Record /\ Attempted(w, wrec[h])
    BY <1>2, <2>1, RecordEdits, EditsAre
  <2>3. Steps(h, "running", w, w)
    BY <1>4, <2>1, <2>2, PassHas DEF Run, Save, Goto, Steps
  <2>4. QED
    BY <2>2, <2>3
<1>5. Archive(h, "existing") => Steps(h, "unlink", NewRecord, queue[h])
  BY PassHas, NewRecordType DEF Archive, Goto, Forget, Steps
<1>6. QED
  BY <1>1, <1>3, <1>4, <1>5 DEF AfterAck

\* StartWorker: Codex starts on the file that is ready, or the record is archived as invalid.
LEMMA StartWorkerGoes ==
  ASSUME MonitorInv, NEW h \in Hosts, StartWorker(h)
  PROVE  /\ Beside(h) /\ UNCHANGED <<call, aged, refreshDue, acks, boundVars>> /\ wpc[h] = "start"
         /\ \/ Steps(h, "unlink", NewRecord, queue[h])
            \/ /\ queue[h].ready
               /\ \E w \in Record : Attempted(w, queue[h]) /\ Steps(h, "running", w, w)
<1>1. /\ Beside(h) /\ UNCHANGED <<call, aged, refreshDue, acks, boundVars>> /\ wpc[h] = "start"
  BY DEF StartWorker, At, Beside, Run, ticketVars, claimVars, worldVars, threadVars, boundVars
<1>2. queue[h] \in Record
  BY <1>1, PassHas
<1>3. ASSUME Run(h, queue[h])
      PROVE  \E w \in Record : Attempted(w, queue[h]) /\ Steps(h, "running", w, w)
  <2>1. PICK w : w = [queue[h] EXCEPT !.ready = FALSE, !.attempts = @ + 1]
    OBVIOUS
  <2>2. w \in Record /\ Attempted(w, queue[h])
    BY <1>2, <2>1, RecordEdits, EditsAre
  <2>3. Steps(h, "running", w, w)
    BY <1>3, <2>1, <2>2, PassHas DEF Run, Save, Goto, Steps
  <2>4. QED
    BY <2>2, <2>3
<1>4. Archive(h, "invalid") => Steps(h, "unlink", NewRecord, queue[h])
  BY PassHas, NewRecordType DEF Archive, Goto, Forget, Steps
<1>5. QED
  BY <1>1, <1>3, <1>4 DEF StartWorker

\* CodexExit: another attempt later, or a closing transition is queued.
LEMMA ExitGoes ==
  ASSUME MonitorInv, NEW h \in Hosts, NEW ok \in BOOLEAN, CodexExit(h, ok)
  PROVE  /\ Beside(h) /\ UNCHANGED <<call, aged, acks, boundVars>> /\ wpc[h] \in {"running", "lost"}
         /\ refreshDue' = refreshDue \ {h}
         /\ \/ Steps(h, "idle", NewRecord, queue[h])
            \/ \E t \in {"WAITING_RELEASE", "BLOCKED"}, w \in Record :
                 Queued(w, queue[h], t) /\ Steps(h, "pend", w, w)
<1>1. /\ Beside(h) /\ UNCHANGED <<call, aged, acks, boundVars>> /\ wpc[h] \in {"running", "lost"}
      /\ refreshDue' = refreshDue \ {h}
  BY DEF CodexExit, At, Beside, Queue, ticketVars, claimVars, worldVars, threadVars, boundVars
<1>2. queue[h] \in Record
  BY <1>1, PassHas
<1>3. ASSUME NEW t \in {"WAITING_RELEASE", "BLOCKED"}, Queue(h, queue[h], t)
      PROVE  \E w \in Record : Queued(w, queue[h], t) /\ Steps(h, "pend", w, w)
  <2>1. PICK w : w = [queue[h] EXCEPT !.pending = t]
    OBVIOUS
  <2>2. t \in PendingTransition
    BY DEF PendingTransition
  <2>3. w \in Record /\ Queued(w, queue[h], t)
    BY <1>2, <2>1, <2>2, RecordEdits, EditsAre
  <2>4. Steps(h, "pend", w, w)
    BY <1>3, <2>1, <2>3, PassHas DEF Queue, Save, Goto, Steps
  <2>5. QED
    BY <2>3, <2>4
<1>4. Pause(h, queue[h]) => Steps(h, "idle", NewRecord, queue[h])
  BY PassHas, NewRecordType DEF Pause, Goto, Forget, Steps
<1>5. QED
  BY <1>1, <1>3, <1>4 DEF CodexExit

\* Boot: back to the queue, into the quarantine, or skipped.
LEMMA BootGoes ==
  ASSUME MonitorInv, NEW h \in Hosts, NEW stale \in BOOLEAN, Boot(h, stale)
  PROVE  /\ Beside(h) /\ UNCHANGED <<call, aged, refreshDue, acks, boundVars>> /\ wpc[h] = "down"
         /\ \/ Steps(h, "idle", wrec[h], queue[h])
            \/ Steps(h, "boot", queue[h], queue[h]) /\ queue[h] # None
            \/ Steps(h, "unlink", NewRecord, queue[h]) /\ queue[h] # None
BY PassHas, NewRecordType DEF Boot, At, Goto, Archive, Forget, Steps, Beside, ticketVars, claimVars, worldVars, threadVars, boundVars

\* Crash: the copies in memory are gone, the file is not.
LEMMA CrashGoes ==
  ASSUME TicketInv, MonitorInv, NEW h \in Hosts, Crash(h)
  PROVE  /\ UNCHANGED <<status, claimOwner, lease, aged, acks, foreground, faults, updates, overlaps>>
         /\ call'[h] = NoCall /\ \A c \in (Hosts \cup Operators) \ {h} : call'[c] = call[c]
         /\ crashes' = crashes + 1 /\ Steps(h, "down", NewRecord, queue[h])
         /\ \A g \in Hosts \ {h} : ppc'[g] = ppc[g] /\ prec'[g] = prec[g] /\ (g \in refreshDue' <=> g \in refreshDue)
         /\ prec'[h] = NewRecord /\ ppc'[h] = IF ppc[h] = "watch" THEN "watch" ELSE "idle"
<1>1. prec \in [Hosts -> Record] /\ ppc \in [Hosts -> {"watch", "intake", "desk", "idle"}]
  BY DEF MonitorInv, MonitorTypeOK
<1>2. /\ call \in [Callers -> Call]
      /\ (Hosts \cup Operators) \ {h} \subseteq Callers \ ({h} \cup Late)
  BY TicketAssumption DEF TicketInv, TicketTypeOK, Callers, Late
<1>3. /\ UNCHANGED <<status, claimOwner, lease>> /\ call'[h] = NoCall
      /\ \A c \in (Hosts \cup Operators) \ {h} : call'[c] = call[c]
  BY <1>2, AnsweredRequests DEF Crash, Abandon, claimVars
<1>4. QED
  BY <1>1, <1>2, <1>3, PassHas, NewRecordType DEF Crash, Goto, Forget, Steps, claimVars, worldVars, threadVars

\* Copies an intake does not answer keep all but their token.
Outlives(r, o) ==
  r \in Record /\ Marked(r, o) /\ r.granted = o.granted /\ r.pending = o.pending /\ r.ready = o.ready
FileOutlives(g, f) == (queue'[g] = None <=> f = None) /\ (f # None => Outlives(queue'[g], f))

\* The answer of an intake in a copy.
Taken(h, t, o) ==
  /\ t \in Record /\ Marked(t, o) /\ t.pending = o.pending /\ t.ready = o.ready
  /\ t.granted = Grantable(h) /\ t.latest = Grantable(h)

\* The fellows of h when it asks for the claim.
Fellows(h) ==
  /\ \A g \in Hosts \ {h} :
       wpc'[g] = wpc[g] /\ Outlives(wrec'[g], wrec[g]) /\ Outlives(prec'[g], prec[g]) /\ FileOutlives(g, queue[g])
  /\ ~Grantable(h) => \A g \in Hosts \ {h} : wrec'[g] = wrec[g] /\ prec'[g] = prec[g] /\ queue'[g] = queue[g]

\* A grant only outdates the copies of the others; a refusal changes none.
LEMMA OutdatedOutlives ==
  ASSUME NEW h \in Hosts, NEW f, DOMAIN f = Hosts, NEW g \in Hosts, f[g] \in Record \cup {None}
  PROVE  /\ f[g] # None => Outlives(AfterIntake(h, f)[g], f[g])
         /\ AfterIntake(h, f)[g] = None <=> f[g] = None
         /\ ~Grantable(h) => AfterIntake(h, f)[g] = f[g]
<1>1. ~Grantable(h) => AfterIntake(h, f)[g] = f[g]
  BY DEF AfterIntake
<1>2. /\ AfterIntake(h, f)[g] = None <=> f[g] = None
      /\ f[g] # None => Outlives(AfterIntake(h, f)[g], f[g])
  BY OutdatedCopy DEF Outlives, Marked
<1>3. QED
  BY <1>1, <1>2

\* An intake that nobody waits for only outdates copies.
LEMMA LateOutlives ==
  ASSUME NEW h \in Hosts, wrec \in [Hosts -> Record], prec \in [Hosts -> Record],
         queue \in [Hosts -> Record \cup {None}],
         wrec' = AfterIntake(h, wrec), prec' = AfterIntake(h, prec), queue' = AfterIntake(h, queue)
  PROVE  \A g \in Hosts : Outlives(wrec'[g], wrec[g]) /\ Outlives(prec'[g], prec[g]) /\ FileOutlives(g, queue[g])
<1>1. None \notin Record
  BY MonitorAssumption
<1>2. \A g \in Hosts : Outlives(wrec'[g], wrec[g]) /\ Outlives(prec'[g], prec[g])
  BY <1>1, OutdatedOutlives
<1>3. \A g \in Hosts : FileOutlives(g, queue[g])
  BY OutdatedOutlives DEF FileOutlives
<1>4. QED
  BY <1>2, <1>3

\* The worker's copy takes the answer.
LEMMA TakesGoes ==
  ASSUME TicketInv, MonitorInv, NEW h \in Hosts, WorkerTakes(h), NEW pc, Goto(h, pc)
  PROVE  /\ Intake(h) /\ aged' = aged \ {h} /\ Fellows(h) /\ Outlives(prec'[h], prec[h]) /\ wpc'[h] = pc
         /\ \E t : Taken(h, t, wrec[h]) /\ wrec'[h] = t /\ queue'[h] = t
<1>1. /\ wrec \in [Hosts -> Record] /\ prec \in [Hosts -> Record] /\ queue \in [Hosts -> Record \cup {None}]
      /\ None \notin Record /\ wpc \in [Hosts -> WorkerSteps]
  BY MonitorAssumption DEF MonitorInv, MonitorTypeOK
<1>2. PICK t : t = TakeIntake(h, wrec[h])
  OBVIOUS
<1>3. Taken(h, t, wrec[h])
  BY <1>1, <1>2, TakeIntakeType DEF Taken, Marked
<1>4. /\ Intake(h) /\ wrec' = [AfterIntake(h, wrec) EXCEPT ![h] = t] /\ prec' = AfterIntake(h, prec)
      /\ queue' = [AfterIntake(h, queue) EXCEPT ![h] = wrec'[h]] /\ aged' = aged \ {h}
      /\ wpc' = [wpc EXCEPT ![h] = pc]
  BY <1>2 DEF WorkerTakes, Goto
<1>5. /\ AfterIntake(h, wrec) \in [Hosts -> Record] /\ AfterIntake(h, prec) \in [Hosts -> Record]
      /\ AfterIntake(h, queue) \in [Hosts -> Record \cup {None}]
  BY <1>1, OutdatedCopies
<1>6. /\ wrec'[h] = t /\ queue'[h] = t /\ wpc'[h] = pc
      /\ \A g \in Hosts \ {h} : /\ wrec'[g] = AfterIntake(h, wrec)[g] /\ wpc'[g] = wpc[g]
                                /\ queue'[g] = AfterIntake(h, queue)[g]
  BY <1>1, <1>4, <1>5
<1>7. \A g \in Hosts : /\ Outlives(AfterIntake(h, wrec)[g], wrec[g])
                       /\ Outlives(AfterIntake(h, prec)[g], prec[g])
                       /\ ~Grantable(h) => AfterIntake(h, wrec)[g] = wrec[g] /\ AfterIntake(h, prec)[g] = prec[g]
  BY <1>1, OutdatedOutlives
<1>8. \A g \in Hosts \ {h} : FileOutlives(g, queue[g]) /\ (~Grantable(h) => queue'[g] = queue[g])
  BY <1>1, <1>6, OutdatedOutlives DEF FileOutlives
<1>9. QED
  BY <1>3, <1>4, <1>6, <1>7, <1>8 DEF Fellows

\* So does the poll thread's.
LEMMA PollTakesGoes ==
  ASSUME TicketInv, MonitorInv, NEW h \in Hosts, Intake(h), UNCHANGED wpc,
         prec' = [AfterIntake(h, prec) EXCEPT ![h] = TakeIntake(h, NewRecord)],
         wrec' = AfterIntake(h, wrec), queue' = [AfterIntake(h, queue) EXCEPT ![h] = prec'[h]]
  PROVE  /\ Fellows(h) /\ Outlives(wrec'[h], wrec[h])
         /\ \E t : Taken(h, t, NewRecord) /\ prec'[h] = t /\ queue'[h] = t
<1>1. /\ wrec \in [Hosts -> Record] /\ prec \in [Hosts -> Record] /\ queue \in [Hosts -> Record \cup {None}]
      /\ None \notin Record
  BY MonitorAssumption DEF MonitorInv, MonitorTypeOK
<1>2. PICK t : t = TakeIntake(h, NewRecord)
  OBVIOUS
<1>3. Taken(h, t, NewRecord)
  BY <1>2, TakeIntakeType, NewRecordType DEF Taken, Marked
<1>4. prec' = [AfterIntake(h, prec) EXCEPT ![h] = t]
  BY <1>2
<1>5. /\ AfterIntake(h, wrec) \in [Hosts -> Record] /\ AfterIntake(h, prec) \in [Hosts -> Record]
      /\ AfterIntake(h, queue) \in [Hosts -> Record \cup {None}]
  BY <1>1, OutdatedCopies
<1>6. /\ prec'[h] = t /\ queue'[h] = t
      /\ \A g \in Hosts \ {h} : /\ prec'[g] = AfterIntake(h, prec)[g]
                                /\ queue'[g] = AfterIntake(h, queue)[g]
  BY <1>4, <1>5
<1>7. \A g \in Hosts : /\ Outlives(AfterIntake(h, wrec)[g], wrec[g])
                       /\ Outlives(AfterIntake(h, prec)[g], prec[g])
                       /\ ~Grantable(h) => AfterIntake(h, wrec)[g] = wrec[g] /\ AfterIntake(h, prec)[g] = prec[g]
  BY <1>1, OutdatedOutlives
<1>8. \A g \in Hosts \ {h} : FileOutlives(g, queue[g]) /\ (~Grantable(h) => queue'[g] = queue[g])
  BY <1>1, <1>6, OutdatedOutlives DEF FileOutlives
<1>9. QED
  BY <1>3, <1>6, <1>7, <1>8 DEF Fellows

\* An intake whose answer is lost.
LEMMA LostGoes ==
  ASSUME MonitorInv, NEW h \in Hosts, NEW mine \in Record, NEW w \in [Hosts -> Record], IntakeUnanswered(h, mine, w)
  PROVE  /\ \A g \in Hosts : Outlives(wrec'[g], w[g]) /\ Outlives(prec'[g], prec[g])
         /\ \A g \in Hosts \ {h} : FileOutlives(g, queue[g])
         /\ FileOutlives(h, mine)
<1> DEFINE q == [queue EXCEPT ![h] = mine]
<1>1. /\ DOMAIN q = Hosts /\ q[h] = mine /\ \A g \in Hosts \ {h} : q[g] = queue[g]
      /\ \A g \in Hosts : q[g] \in Record \cup {None}
      /\ DOMAIN w = Hosts /\ DOMAIN prec = Hosts /\ \A g \in Hosts : w[g] \in Record /\ prec[g] \in Record
      /\ None \notin Record
  BY MonitorAssumption DEF MonitorInv, MonitorTypeOK
<1>2. \/ /\ wrec' = AfterIntake(h, w) /\ prec' = AfterIntake(h, prec) /\ queue' = AfterIntake(h, q)
      \/ UNCHANGED prec /\ wrec' = w /\ queue' = q
  BY DEF IntakeUnanswered
<1> HIDE DEF q
<1>3. CASE wrec' = AfterIntake(h, w) /\ prec' = AfterIntake(h, prec) /\ queue' = AfterIntake(h, q)
  <2>1. \A g \in Hosts : Outlives(wrec'[g], w[g]) /\ Outlives(prec'[g], prec[g])
    BY <1>1, <1>3, OutdatedOutlives
  <2>2. \A g \in Hosts : FileOutlives(g, q[g])
    BY <1>1, <1>3, OutdatedOutlives DEF FileOutlives
  <2>3. QED
    BY <1>1, <2>1, <2>2
<1>4. CASE UNCHANGED prec /\ wrec' = w /\ queue' = q
  BY <1>1, <1>4 DEF Outlives, Marked, FileOutlives
<1>5. QED
  BY <1>2, <1>3, <1>4

-----------------------------------------------------------------------------
(***************************************************************************)
(* Who may have acknowledged.                                              *)
(***************************************************************************)

\* A copy that says of the acknowledgment what some copy of g said, or nothing.
Heir(g, r) ==
  \/ Unmarked(r)
  \/ \E o \in Copies(g) : Marked(r, o) /\ r.pending = o.pending /\ r.ready = o.ready

\* An heir is as good as the copy it comes from.
LEMMA HeirsRun ==
  ASSUME RunsInv, Replied => Replied', NEW g \in Hosts, NEW r, Heir(g, r)
  PROVE  CopyReady(r) /\ (r.acked => Replied') /\ (OwnsCopy(r) => Owns(g))
<1>1. CASE Unmarked(r)
  BY <1>1 DEF Unmarked, CopyReady, OwnsCopy
<1>2. ASSUME NEW o \in Copies(g), Marked(r, o), r.pending = o.pending, r.ready = o.ready
      PROVE  CopyReady(r) /\ (r.acked => Replied') /\ (OwnsCopy(r) => Owns(g))
  <2>1. CopyReady(o) /\ (o.acked => Replied)
    BY DEF RunsInv, CopyRuns
  <2>2. CopyReady(r) /\ (r.acked => Replied')
    BY <1>2, <2>1 DEF Marked, CopyReady
  <2>3. OwnsCopy(r) => OwnsCopy(o)
    BY <1>2 DEF Marked, OwnsCopy
  <2>4. QED
    BY <2>2, <2>3 DEF Owns
<1>3. QED
  BY <1>1, <1>2 DEF Heir

\* What a pass, an intake or a crash leaves is in order when each copy it leaves is.
InOrder(r) == CopyReady(r) /\ (r.acked => Replied')

\* RunsInv, copy by copy.
LEMMA RunsOn ==
  ASSUME \A g \in Hosts : /\ Stands(wpc'[g], wrec'[g]) /\ ~prec'[g].acked /\ ~prec'[g].inFlight
                          /\ InOrder(wrec'[g]) /\ InOrder(prec'[g]) /\ (queue'[g] # None => InOrder(queue'[g]))
  PROVE  RunsInv'
<1> SUFFICES ASSUME NEW g \in Hosts
             PROVE  /\ Stands(wpc'[g], wrec'[g]) /\ ~prec'[g].acked /\ ~prec'[g].inFlight
                    /\ \A r \in Copies(g)' : CopyReady(r) /\ (r.acked => Replied')
  BY DEF RunsInv, CopyRuns
<1>1. \A r \in Copies(g)' : r = wrec'[g] \/ r = prec'[g] \/ (r = queue'[g] /\ r # None)
  BY CopiesOf
<1>2. QED
  BY <1>1 DEF InOrder

\* A step of one worker.
LEMMA RunsStep ==
  ASSUME MonitorInv, RunsInv, Replied => Replied', NEW h \in Hosts, NEW pc, NEW w, NEW q, Steps(h, pc, w, q),
         prec' = prec, Stands(pc, w), InOrder(w), q # None => InOrder(q)
  PROVE  /\ RunsInv'
         /\ \A g \in Hosts \ {h} : Owns(g)' => Owns(g)
         /\ Owns(h)' => OwnsCopy(w) \/ (q # None /\ OwnsCopy(q))
<1>1. \A g \in Hosts : \A r \in Copies(g) : InOrder(r)
  BY DEF RunsInv, CopyRuns, InOrder
<1>2. \A g \in Hosts : /\ Stands(wpc[g], wrec[g]) /\ ~prec[g].acked /\ ~prec[g].inFlight
                       /\ InOrder(wrec[g]) /\ InOrder(prec[g]) /\ (queue[g] # None => InOrder(queue[g]))
  BY <1>1, CopiesOf DEF RunsInv
<1>3. \A g \in Hosts : /\ Stands(wpc'[g], wrec'[g]) /\ ~prec'[g].acked /\ ~prec'[g].inFlight
                       /\ InOrder(wrec'[g]) /\ InOrder(prec'[g]) /\ (queue'[g] # None => InOrder(queue'[g]))
  BY <1>2 DEF Steps
<1>4. RunsInv'
  BY <1>3, RunsOn
<1>5. ASSUME NEW g \in Hosts \ {h} PROVE Owns(g)' => Owns(g)
  <2>1. Copies(g)' = Copies(g)
    BY DEF Copies, Steps
  <2>2. QED
    BY <2>1 DEF Owns
<1>6. Owns(h)' => OwnsCopy(w) \/ (q # None /\ OwnsCopy(q))
  <2>1. \A r \in Copies(h)' : r = w \/ r = prec[h] \/ (r = q /\ r # None)
    BY CopiesOf DEF Steps
  <2>2. ~OwnsCopy(prec[h])
    BY <1>2 DEF OwnsCopy
  <2>3. QED
    BY <2>1, <2>2 DEF Owns
<1>7. QED
  BY <1>4, <1>5, <1>6

\* A reply stays in the thread.
LEMMA RepliedStays ==
  ASSUME MonitorInv, [MonitorNext]_monitorVars PROVE Replied => Replied'
<1>1. acks \in Nat /\ acks' \in Nat /\ acks' >= acks
  BY ReplyPositions DEF MonitorInv, MonitorTypeOK
<1>2. acks > 0 => acks' > 0
  BY <1>1
<1>3. foreground => foreground'
  BY ForegroundStays
<1>4. QED
  BY <1>2, <1>3, Zenon DEF Replied

\* h comes to own the message: it has read a thread without a reply.
Claims(h) == At(h, "reconcile") /\ At(h, "reply")' /\ ~Replied

\* A pass owns what it owned before, or claims it.
LEMMA RunsWork ==
  ASSUME TicketInv, MonitorInv, RunsInv, Replied => Replied', NEW h \in Hosts,
         WorkerStep(h), ~WorkerIntake(h), ~Refresh(h)
  PROVE  RunsInv' /\ \A g \in Hosts : Owns(g)' => Owns(g) \/ Claims(g)
<1> DEFINE Goal == RunsInv' /\ \A g \in Hosts : Owns(g)' => Owns(g) \/ Claims(g)
<1>1. /\ wrec[h] \in Record /\ wrec[h] \in Copies(h) /\ prec[h] \in Copies(h)
      /\ queue[h] # None => queue[h] \in Record /\ queue[h] \in Copies(h)
      /\ wpc[h] \notin {"idle", "down"} => queue[h] # None
      /\ \A r \in Record : r # None
  BY PassHas, CopiesOf DEF MonitorInv, PassOK
<1>2. /\ Stands(wpc[h], wrec[h]) /\ Blank(NewRecord) /\ NewRecord \in Record
      /\ \A r \in Copies(h) : CopyReady(r) /\ (r.acked => Replied)
  BY NewIsBlank DEF RunsInv, CopyRuns
<1>3. ASSUME NEW pc, NEW w, NEW q, Steps(h, pc, w, q), prec' = prec, Stands(pc, w),
             InOrder(w), OwnsCopy(w) => Owns(h) \/ Claims(h),
             q # None => InOrder(q) /\ (OwnsCopy(q) => Owns(h) \/ Claims(h))
      PROVE  Goal
  <2>1. /\ RunsInv' /\ \A g \in Hosts \ {h} : Owns(g)' => Owns(g)
        /\ Owns(h)' => OwnsCopy(w) \/ (q # None /\ OwnsCopy(q))
    BY <1>3, RunsStep
  <2>2. QED
    BY <1>3, <2>1
<1>4. ASSUME NEW r, Heir(h, r) PROVE InOrder(r) /\ (OwnsCopy(r) => Owns(h))
  BY <1>4, HeirsRun DEF InOrder
<1>5. ASSUME NEW pc, NEW w, NEW q, Steps(h, pc, w, q), prec' = prec, Stands(pc, w),
             Heir(h, w), q # None => Heir(h, q)
      PROVE  Goal
  BY <1>3, <1>4, <1>5
<1>6. /\ Heir(h, wrec[h]) /\ Heir(h, NewRecord) /\ (queue[h] # None => Heir(h, queue[h]))
      /\ \A r : Same(r, wrec[h]) => Heir(h, r)
  BY <1>1, <1>2 DEF Heir, Same, Marked, Blank
<1>7. \A pc \in {"idle", "down", "unlink"} : Stands(pc, NewRecord)
  BY <1>2 DEF Stands, Blank, Unmarked
<1> SUFFICES Goal
  OBVIOUS
<1> HIDE DEF Goal
<1>8. ASSUME NEW pc \in {"idle", "unlink"}, NEW q, Steps(h, pc, NewRecord, q), Beside(h), q # None => Heir(h, q)
      PROVE  Goal
  BY <1>5, <1>6, <1>7, <1>8 DEF Beside
<1>9. CASE StartPass(h)
  <2>1. PICK pc \in {"resume", "intake", "route"} : Steps(h, pc, queue[h], queue[h])
    BY <1>9, StartGoes
  <2>2. Stands(pc, queue[h])
    BY DEF Stands
  <2>3. QED
    BY <1>5, <1>6, <1>9, <2>1, <2>2, StartGoes DEF Beside
<1>10. CASE Route(h)
  <2>1. Beside(h) /\ wpc[h] = "route"
    BY <1>10, RouteGoes
  <2>2. CASE Steps(h, "unlink", NewRecord, queue[h])
    BY <1>6, <1>8, <2>1, <2>2
  <2>3. CASE Steps(h, "desk", wrec[h], queue[h])
    <3>1. Stands("desk", wrec[h])
      BY DEF Stands
    <3>2. QED
      BY <1>5, <1>6, <2>1, <2>3, <3>1 DEF Beside
  <2>4. CASE Steps(h, "next", wrec[h], queue[h]) /\ wrec[h].acked
    <3>1. Stands("next", wrec[h])
      BY <2>4 DEF Stands
    <3>2. QED
      BY <1>5, <1>6, <2>1, <2>4, <3>1 DEF Beside
  <2>5. CASE Steps(h, "reconcile", wrec[h], queue[h]) /\ ~wrec[h].acked
    <3>1. Stands("reconcile", wrec[h])
      BY <2>5 DEF Stands
    <3>2. QED
      BY <1>5, <1>6, <2>1, <2>5, <3>1 DEF Beside
  <2>6. QED
    BY <1>10, <2>2, <2>3, <2>4, <2>5, RouteGoes
<1>11. CASE WorkerDesk(h)
  <2>1. Beside(h) /\ wpc[h] = "desk"
    BY <1>11, DeskGoes
  <2>2. CASE Steps(h, "idle", NewRecord, wrec[h])
    BY <1>6, <1>8, <2>1, <2>2
  <2>3. ASSUME NEW w \in Record, Same(w, wrec[h]), Steps(h, "route", w, w) PROVE Goal
    <3>1. Stands("route", w)
      BY DEF Stands
    <3>2. QED
      BY <1>5, <1>6, <2>1, <2>3, <3>1 DEF Beside
  <2>4. QED
    BY <1>11, <2>2, <2>3, DeskGoes
<1>12. CASE Unlink(h)
  <2>1. Beside(h) /\ wpc[h] = "unlink" /\ Steps(h, "idle", wrec[h], None)
    BY <1>12, UnlinkGoes
  <2>2. Stands("idle", wrec[h])
    BY <1>2, <2>1 DEF Stands
  <2>3. QED
    BY <1>5, <1>6, <2>1, <2>2 DEF Beside
<1>13. CASE Reconcile(h)
  <2>1. Beside(h) /\ wpc[h] = "reconcile" /\ ~wrec[h].acked /\ CopyReady(wrec[h])
    BY <1>1, <1>2, <1>13, ReconcileGoes DEF Stands
  <2>2. CASE Steps(h, "idle", NewRecord, wrec[h])
    BY <1>6, <1>8, <2>1, <2>2
  <2>3. ASSUME Replied, NEW w \in Record, Answered(w, wrec[h], ~wrec[h].inFlight), Steps(h, "ackSync", w, queue[h])
        PROVE  Goal
    <3>1. Stands("ackSync", w) /\ InOrder(w)
      BY <2>1, <2>3 DEF Answered, Stands, InOrder, CopyReady
    <3>2. OwnsCopy(w) => OwnsCopy(wrec[h])
      BY <2>3 DEF Answered, OwnsCopy
    <3>3. OwnsCopy(w) => Owns(h)
      BY <1>1, <3>2 DEF Owns
    <3>4. QED
      BY <1>3, <1>4, <1>6, <2>1, <2>3, <3>1, <3>3 DEF Beside
  <2>4. ASSUME ~Replied, NEW w \in Record, Sending(w, wrec[h], TRUE), Steps(h, "reply", w, w) PROVE Goal
    <3>1. Stands("reply", w) /\ InOrder(w)
      BY <2>1, <2>4 DEF Sending, Stands, InOrder, CopyReady
    <3>2. Claims(h)
      BY <2>1, <2>4 DEF Claims, At, Steps
    <3>3. QED
      BY <1>3, <2>1, <2>4, <3>1, <3>2 DEF Beside
  <2>5. QED
    BY <1>13, <2>2, <2>3, <2>4, ReconcileGoes
<1>14. CASE Reply(h)
  <2>1. Beside(h) /\ wpc[h] = "reply" /\ ~wrec[h].acked /\ wrec[h].inFlight /\ CopyReady(wrec[h])
    BY <1>1, <1>2, <1>14, ReplyGoes DEF Stands
  <2>2. CASE Steps(h, "idle", NewRecord, queue[h])
    BY <1>6, <1>8, <2>1, <2>2
  <2>3. Owns(h)
    BY <1>1, <2>1 DEF Owns, OwnsCopy
  <2>4. ASSUME acks' = acks + 1, NEW w \in Record, Answered(w, wrec[h], wrec[h].existing),
               Steps(h, "ackSync", w, queue[h])
        PROVE  Goal
    <3>1. Replied'
      BY <2>4 DEF Replied, MonitorInv, MonitorTypeOK
    <3>2. Stands("ackSync", w) /\ InOrder(w)
      BY <2>1, <2>4, <3>1 DEF Answered, Stands, InOrder, CopyReady
    <3>3. QED
      BY <1>3, <1>4, <1>6, <2>1, <2>3, <2>4, <3>2 DEF Beside
  <2>5. ASSUME NEW q \in Record, Sending(q, wrec[h], FALSE), Steps(h, "idle", NewRecord, q) PROVE Goal
    <3>1. InOrder(q)
      BY <2>1, <2>5 DEF Sending, InOrder, CopyReady
    <3>2. InOrder(NewRecord)
      BY <1>4, <1>6
    <3>3. QED
      BY <1>3, <1>7, <2>1, <2>3, <2>5, <3>1, <3>2 DEF Beside
  <2>6. QED
    BY <1>14, <2>2, <2>4, <2>5, ReplyGoes
<1>15. CASE Patch(h)
  <2>1. Beside(h) /\ Steps(h, WaitOf[wpc[h]], wrec[h], queue[h])
    BY <1>15, PatchGoes
  <2>2. Stands(WaitOf[wpc[h]], wrec[h])
    BY <1>2, <1>15, PatchGoes DEF Stands
  <2>3. QED
    BY <1>5, <1>6, <2>1, <2>2 DEF Beside
<1>16. CASE AckDone(h)
  <2>1. PICK w \in Record : Same(w, wrec[h]) /\ Steps(h, "next", w, w)
    BY <1>16, AckDoneGoes
  <2>2. Beside(h) /\ wpc[h] = "ackWait"
    BY <1>16, AckDoneGoes
  <2>3. Stands("next", w)
    BY <1>2, <2>1, <2>2 DEF Stands, Same, Marked
  <2>4. QED
    BY <1>5, <1>6, <2>1, <2>2, <2>3 DEF Beside
<1>17. CASE PendingApplied(h)
  <2>1. Beside(h)
    BY <1>17, AppliedGoes
  <2>2. CASE Steps(h, "unlink", NewRecord, queue[h])
    BY <1>6, <1>8, <2>1, <2>2
  <2>3. ASSUME wrec[h].pending = "IN_PROGRESS", NEW w \in Record, Recorded(w, wrec[h])
        PROVE  InOrder(w) /\ Stands("start", w) /\ (OwnsCopy(w) => Owns(h))
    <3>1. wrec[h].acked /\ ~wrec[h].existing /\ Replied
      BY <1>1, <1>2, <2>3 DEF CopyReady
    <3>2. InOrder(w) /\ Stands("start", w)
      BY <2>3, <3>1 DEF Recorded, Marked, InOrder, CopyReady, Stands
    <3>3. Owns(h)
      BY <1>1, <3>1 DEF Owns, OwnsCopy
    <3>4. QED
      BY <3>2, <3>3
  <2>4. ASSUME wrec[h].pending = "IN_PROGRESS", NEW w \in Record, Recorded(w, wrec[h]), Steps(h, "start", w, w)
        PROVE  Goal
    BY <1>3, <2>1, <2>3, <2>4 DEF Beside
  <2>5. ASSUME wrec[h].pending = "IN_PROGRESS", NEW q \in Record, Recorded(q, wrec[h]),
               Steps(h, "idle", NewRecord, q)
        PROVE  Goal
    BY <1>3, <1>4, <1>6, <1>7, <2>1, <2>3, <2>5 DEF Beside
  <2>6. QED
    BY <1>17, <2>2, <2>4, <2>5, AppliedGoes
<1>18. CASE PendingWaits(h)
  <2>1. PICK q \in Record : Same(q, wrec[h]) /\ Steps(h, "idle", NewRecord, q)
    BY <1>18, WaitsGoes
  <2>2. QED
    BY <1>6, <1>8, <1>18, <2>1, WaitsGoes
<1>19. CASE Quarantine(h)
  BY <1>6, <1>8, <1>19, QuarantineGoes
<1>20. ASSUME NEW o \in Copies(h), NEW t \in {"WAITING_RELEASE", "BLOCKED", "REJECTED"}, NEW w \in Record,
              Queued(w, o, t), Steps(h, "pend", w, w), Beside(h)
       PROVE  Goal
  <2>1. InOrder(o) /\ (OwnsCopy(o) => Owns(h))
    BY <1>2 DEF InOrder, Owns
  <2>2. InOrder(w) /\ (OwnsCopy(w) => Owns(h))
    BY <1>20, <2>1 DEF Queued, Marked, InOrder, CopyReady, OwnsCopy
  <2>3. Stands("pend", w)
    BY DEF Stands
  <2>4. QED
    BY <1>3, <1>20, <2>2, <2>3 DEF Beside
<1>21. ASSUME NEW o \in Copies(h), o.acked, ~o.existing, NEW w \in Record, NEW pc \in {"pend", "running"},
              Attempted(w, o) \/ (Queued(w, o, "IN_PROGRESS") /\ pc = "pend"), Steps(h, pc, w, w), Beside(h)
       PROVE  Goal
  <2>1. InOrder(o) /\ Owns(h)
    BY <1>2, <1>21 DEF InOrder, Owns, OwnsCopy
  <2>2. InOrder(w) /\ Stands(pc, w)
    BY <1>21, <2>1 DEF Attempted, Queued, Marked, InOrder, CopyReady, Stands
  <2>3. QED
    BY <1>3, <1>21, <2>1, <2>2 DEF Beside
<1>22. CASE AfterAck(h)
  <2>1. Beside(h) /\ wpc[h] = "next" /\ wrec[h].acked
    BY <1>2, <1>22, AfterAckGoes DEF Stands
  <2>2. CASE Steps(h, "unlink", NewRecord, queue[h])
    BY <1>6, <1>8, <2>1, <2>2
  <2>3. ASSUME NEW w \in Record, Queued(w, wrec[h], "REJECTED"), Steps(h, "pend", w, w) PROVE Goal
    BY <1>1, <1>20, <2>1, <2>3
  <2>4. ASSUME ~wrec[h].existing, NEW w \in Record, Queued(w, wrec[h], "IN_PROGRESS"), Steps(h, "pend", w, w)
        PROVE  Goal
    BY <1>1, <1>21, <2>1, <2>4
  <2>5. ASSUME ~wrec[h].existing, NEW w \in Record, Attempted(w, wrec[h]), Steps(h, "running", w, w)
        PROVE  Goal
    BY <1>1, <1>21, <2>1, <2>5
  <2>6. QED
    BY <1>22, <2>2, <2>3, <2>4, <2>5, AfterAckGoes
<1>23. CASE StartWorker(h)
  <2>1. Beside(h) /\ wpc[h] = "start" /\ queue[h] \in Copies(h)
    BY <1>1, <1>23, StartWorkerGoes
  <2>2. CASE Steps(h, "unlink", NewRecord, queue[h])
    BY <1>6, <1>8, <2>1, <2>2
  <2>3. ASSUME queue[h].ready, NEW w \in Record, Attempted(w, queue[h]), Steps(h, "running", w, w) PROVE Goal
    <3>1. queue[h].acked /\ ~queue[h].existing
      BY <1>2, <2>1, <2>3 DEF CopyReady
    <3>2. QED
      BY <1>21, <2>1, <2>3, <3>1
  <2>4. QED
    BY <1>23, <2>2, <2>3, StartWorkerGoes
<1>24. ASSUME NEW ok \in BOOLEAN, CodexExit(h, ok) PROVE Goal
  <2>1. Beside(h) /\ wpc[h] \in {"running", "lost"} /\ queue[h] \in Copies(h)
    BY <1>1, <1>24, ExitGoes
  <2>2. CASE Steps(h, "idle", NewRecord, queue[h])
    BY <1>6, <1>8, <2>1, <2>2
  <2>3. ASSUME NEW t \in {"WAITING_RELEASE", "BLOCKED"}, NEW w \in Record, Queued(w, queue[h], t),
               Steps(h, "pend", w, w)
        PROVE  Goal
    BY <1>20, <2>1, <2>3
  <2>4. QED
    BY <1>24, <2>2, <2>3, ExitGoes
<1>25. ASSUME NEW stale \in BOOLEAN, Boot(h, stale) PROVE Goal
  <2>1. Beside(h) /\ wpc[h] = "down"
    BY <1>25, BootGoes
  <2>2. CASE Steps(h, "idle", wrec[h], queue[h])
    <3>1. Stands("idle", wrec[h])
      BY <1>2, <2>1 DEF Stands
    <3>2. QED
      BY <1>5, <1>6, <2>1, <2>2, <3>1 DEF Beside
  <2>3. CASE Steps(h, "boot", queue[h], queue[h]) /\ queue[h] # None
    <3>1. Stands("boot", queue[h])
      BY DEF Stands
    <3>2. QED
      BY <1>5, <1>6, <2>1, <2>3, <3>1 DEF Beside
  <2>4. CASE Steps(h, "unlink", NewRecord, queue[h])
    BY <1>6, <1>8, <2>1, <2>4
  <2>5. QED
    BY <1>25, <2>2, <2>3, <2>4, BootGoes
<1>26. QED
  BY <1>9, <1>10, <1>11, <1>12, <1>13, <1>14, <1>15, <1>16, <1>17, <1>18, <1>19, <1>22, <1>23, <1>24, <1>25
     DEF WorkerStep

\* A step that leaves only heirs.
LEMMA HeirsGo ==
  ASSUME RunsInv, Replied => Replied',
         \A g \in Hosts : /\ Heir(g, wrec'[g]) /\ Heir(g, prec'[g]) /\ (queue'[g] # None => Heir(g, queue'[g]))
                          /\ Stands(wpc'[g], wrec'[g]) /\ ~prec'[g].acked /\ ~prec'[g].inFlight
  PROVE  RunsInv' /\ \A g \in Hosts : Owns(g)' => Owns(g)
<1>1. \A g \in Hosts : \A r : Heir(g, r) => InOrder(r) /\ (OwnsCopy(r) => Owns(g))
  BY HeirsRun DEF InOrder
<1>2. RunsInv'
  BY <1>1, RunsOn
<1>3. ASSUME NEW g \in Hosts, Owns(g)' PROVE Owns(g)
  <2>1. PICK r \in Copies(g)' : OwnsCopy(r)
    BY <1>3 DEF Owns
  <2>2. Heir(g, r)
    BY <2>1, CopiesOf
  <2>3. QED
    BY <1>1, <2>1, <2>2
<1>4. QED
  BY <1>2, <1>3

\* What outlives a copy is its heir and stands where it stood.
LEMMA OutlivesIsHeir ==
  ASSUME RunsInv, NEW g \in Hosts
  PROVE  /\ \A r : Outlives(r, wrec[g]) => Heir(g, r) /\ Stands(wpc[g], r)
         /\ \A r : Outlives(r, prec[g]) => Heir(g, r) /\ ~r.acked /\ ~r.inFlight
         /\ FileOutlives(g, queue[g]) => (queue'[g] # None => Heir(g, queue'[g]))
         /\ \A r : Outlives(r, NewRecord) => Unmarked(r) /\ Heir(g, r) /\ Stands("idle", r)
<1>1. /\ wrec[g] \in Copies(g) /\ prec[g] \in Copies(g) /\ (queue[g] # None => queue[g] \in Copies(g))
      /\ Stands(wpc[g], wrec[g]) /\ ~prec[g].acked /\ ~prec[g].inFlight
  BY CopiesOf DEF RunsInv
<1>2. \A r, o : o \in Copies(g) /\ Outlives(r, o) => Heir(g, r)
  BY DEF Outlives, Heir
<1>3. \A r : Outlives(r, wrec[g]) => Stands(wpc[g], r)
  BY <1>1 DEF Outlives, Marked, Stands
<1>4. \A r : Outlives(r, prec[g]) => ~r.acked /\ ~r.inFlight
  BY <1>1 DEF Outlives, Marked
<1>5. FileOutlives(g, queue[g]) => (queue'[g] # None => Heir(g, queue'[g]))
  BY <1>1, <1>2 DEF FileOutlives
<1>6. \A r : Outlives(r, NewRecord) => Unmarked(r) /\ Heir(g, r) /\ Stands("idle", r)
  BY NewIsBlank DEF Outlives, Marked, Blank, Unmarked, Heir, Stands
<1>7. QED
  BY <1>1, <1>2, <1>3, <1>4, <1>5, <1>6

\* An intake owns nothing new.
LEMMA RunsIntake ==
  ASSUME TicketInv, MonitorInv, RunsInv, Replied => Replied', NEW h \in Hosts, WorkerIntake(h) \/ Refresh(h)
  PROVE  RunsInv' /\ \A g \in Hosts : Owns(g)' => Owns(g)
<1>1. /\ wrec \in [Hosts -> Record] /\ NewRecord \in Record /\ wrec[h] \in Record /\ wrec[h] # None
      /\ wpc \in [Hosts -> WorkerSteps] /\ wrec[h] \in Copies(h)
      /\ Stands(wpc[h], wrec[h])
  BY PassHas, NewRecordType, CopiesOf DEF RunsInv
<1>2. PICK pc \in {"route", "running", "lost", "idle"} :
        /\ Goto(h, pc) /\ (pc \in {"running", "lost"} => wpc[h] = "running")
        /\ \/ WorkerTakes(h) /\ pc # "idle"
           \/ IntakeUnanswered(h, wrec[h], [wrec EXCEPT ![h] = NewRecord]) /\ pc = "idle"
           \/ IntakeUnanswered(h, wrec[h], wrec) /\ pc = "lost"
  BY DEF WorkerIntake, Refresh, At
<1>3. wpc'[h] = pc /\ \A g \in Hosts \ {h} : wpc'[g] = wpc[g]
  BY <1>1, <1>2 DEF Goto
<1>4. \A r : Marked(r, wrec[h]) => Stands(pc, r) \/ pc = "idle"
  BY <1>1, <1>2 DEF Marked, Stands
<1>5. CASE WorkerTakes(h) /\ pc # "idle"
  <2>1. Fellows(h) /\ Outlives(prec'[h], prec[h])
    BY <1>2, <1>5, TakesGoes
  <2>2. PICK t : Taken(h, t, wrec[h]) /\ wrec'[h] = t /\ queue'[h] = t
    BY <1>2, <1>5, TakesGoes
  <2>3. Heir(h, t) /\ Stands(pc, t)
    BY <1>1, <1>4, <1>5, <2>2 DEF Taken, Heir
  <2>4. \A g \in Hosts : /\ Heir(g, wrec'[g]) /\ Heir(g, prec'[g]) /\ (queue'[g] # None => Heir(g, queue'[g]))
                         /\ Stands(wpc'[g], wrec'[g]) /\ ~prec'[g].acked /\ ~prec'[g].inFlight
    BY <1>3, <2>1, <2>2, <2>3, OutlivesIsHeir DEF Fellows
  <2>5. QED
    BY <2>4, HeirsGo
<1>6. ASSUME NEW w \in [Hosts -> Record], IntakeUnanswered(h, wrec[h], w), \A g \in Hosts \ {h} : w[g] = wrec[g],
             (w[h] = NewRecord /\ pc = "idle") \/ (w[h] = wrec[h] /\ pc = "lost")
      PROVE  RunsInv' /\ \A g \in Hosts : Owns(g)' => Owns(g)
  <2>1. /\ \A g \in Hosts : Outlives(wrec'[g], w[g]) /\ Outlives(prec'[g], prec[g])
        /\ \A g \in Hosts \ {h} : FileOutlives(g, queue[g])
        /\ FileOutlives(h, wrec[h])
    BY <1>1, <1>6, LostGoes
  <2>2. Heir(h, wrec'[h]) /\ Stands(pc, wrec'[h])
    <3>1. CASE w[h] = NewRecord /\ pc = "idle"
      BY <2>1, <3>1, OutlivesIsHeir
    <3>2. CASE w[h] = wrec[h] /\ pc = "lost"
      BY <1>4, <2>1, <3>2, OutlivesIsHeir DEF Outlives
    <3>3. QED
      BY <1>6, <3>1, <3>2
  <2>3. Heir(h, queue'[h])
    BY <1>1, <2>1, OutlivesIsHeir DEF FileOutlives
  <2>4. \A g \in Hosts : /\ Heir(g, wrec'[g]) /\ Heir(g, prec'[g]) /\ (queue'[g] # None => Heir(g, queue'[g]))
                         /\ Stands(wpc'[g], wrec'[g]) /\ ~prec'[g].acked /\ ~prec'[g].inFlight
    BY <1>3, <1>6, <2>1, <2>2, <2>3, OutlivesIsHeir
  <2>5. QED
    BY <2>4, HeirsGo
<1>7. CASE IntakeUnanswered(h, wrec[h], wrec) /\ pc = "lost"
  BY <1>1, <1>6, <1>7
<1>8. CASE IntakeUnanswered(h, wrec[h], [wrec EXCEPT ![h] = NewRecord]) /\ pc = "idle"
  <2>1. /\ [wrec EXCEPT ![h] = NewRecord] \in [Hosts -> Record]
        /\ [wrec EXCEPT ![h] = NewRecord][h] = NewRecord
        /\ \A g \in Hosts \ {h} : [wrec EXCEPT ![h] = NewRecord][g] = wrec[g]
    BY <1>1
  <2>2. QED
    BY <1>6, <1>8, <2>1
<1>9. QED
  BY <1>2, <1>5, <1>7, <1>8

\* Nor does the poll thread.
LEMMA RunsPoll ==
  ASSUME TicketInv, MonitorInv, RunsInv, Replied => Replied', NEW h \in Hosts, PollStep(h)
  PROVE  RunsInv' /\ \A g \in Hosts : Owns(g)' => Owns(g)
<1>1. /\ wrec \in [Hosts -> Record] /\ prec \in [Hosts -> Record] /\ queue \in [Hosts -> Record \cup {None}]
      /\ NewRecord \in Record /\ NewRecord # None /\ Unmarked(NewRecord) /\ \A r \in Record : r # None
      /\ UNCHANGED wpc
  BY NewIsBlank, MonitorAssumption DEF Blank, MonitorInv, MonitorTypeOK, PollStep, PollIntake, PollDesk, Watch
<1>2. \A g \in Hosts : /\ Outlives(wrec[g], wrec[g]) /\ Outlives(prec[g], prec[g])
                       /\ queue[g] # None => Outlives(queue[g], queue[g])
  BY <1>1 DEF Outlives, Marked
<1>3. \A g \in Hosts : /\ Heir(g, wrec[g]) /\ Stands(wpc[g], wrec[g]) /\ Heir(g, prec[g])
                       /\ ~prec[g].acked /\ ~prec[g].inFlight /\ (queue[g] # None => Heir(g, queue[g]))
                       /\ Heir(g, NewRecord)
  BY <1>1, <1>2, CopiesOf, OutlivesIsHeir DEF Heir, Marked
<1>4. ASSUME NEW stale \in BOOLEAN, Watch(h, stale) PROVE RunsInv' /\ \A g \in Hosts : Owns(g)' => Owns(g)
  <2>1. UNCHANGED <<wpc, wrec, prec>> /\ queue' \in {queue, [queue EXCEPT ![h] = NewRecord]}
    BY <1>4 DEF Watch
  <2>2. \A g \in Hosts : queue'[g] # None => Heir(g, queue'[g])
    BY <1>1, <1>3, <2>1
  <2>3. QED
    BY <1>3, <2>1, <2>2, HeirsGo
<1>5. CASE PollDesk(h)
  <2>1. /\ UNCHANGED <<wpc, wrec>> /\ prec' = [prec EXCEPT ![h] = NewRecord]
        /\ \/ queue' = [queue EXCEPT ![h] = prec[h]]
           \/ \E d \in {"task", "fingerprint"} : queue' = [queue EXCEPT ![h] = [prec[h] EXCEPT !.desk = d]]
    BY <1>5 DEF PollDesk
  <2>2. \A d \in {"task", "fingerprint"} : Heir(h, [prec[h] EXCEPT !.desk = d])
    <3>1. \A d \in {"task", "fingerprint"} : Same([prec[h] EXCEPT !.desk = d], prec[h])
      BY <1>1, EditsAre
    <3>2. QED
      BY <3>1, CopiesOf DEF Heir, Same
  <2>3. \A g \in Hosts : queue'[g] # None => Heir(g, queue'[g])
    BY <1>1, <1>3, <2>1, <2>2
  <2>4. \A g \in Hosts : Heir(g, prec'[g]) /\ ~prec'[g].acked /\ ~prec'[g].inFlight
    BY <1>1, <1>3, <2>1 DEF Unmarked
  <2>5. QED
    BY <1>3, <2>1, <2>3, <2>4, HeirsGo
<1>6. CASE PollIntake(h)
  <2>1. CASE IntakeUnanswered(h, NewRecord, wrec)
    <3>1. /\ \A g \in Hosts : Outlives(wrec'[g], wrec[g]) /\ Outlives(prec'[g], prec[g])
          /\ \A g \in Hosts \ {h} : FileOutlives(g, queue[g])
          /\ FileOutlives(h, NewRecord)
      BY <1>1, <2>1, LostGoes
    <3>2. Heir(h, queue'[h])
      BY <1>1, <3>1, OutlivesIsHeir DEF FileOutlives
    <3>3. \A g \in Hosts : /\ Heir(g, wrec'[g]) /\ Heir(g, prec'[g]) /\ (queue'[g] # None => Heir(g, queue'[g]))
                           /\ Stands(wpc'[g], wrec'[g]) /\ ~prec'[g].acked /\ ~prec'[g].inFlight
      BY <1>1, <3>1, <3>2, OutlivesIsHeir
    <3>4. QED
      BY <3>3, HeirsGo
  <2>2. CASE /\ Intake(h) /\ prec' = [AfterIntake(h, prec) EXCEPT ![h] = TakeIntake(h, NewRecord)]
             /\ wrec' = AfterIntake(h, wrec) /\ queue' = [AfterIntake(h, queue) EXCEPT ![h] = prec'[h]]
    <3>1. Fellows(h) /\ Outlives(wrec'[h], wrec[h])
      BY <1>1, <2>2, PollTakesGoes
    <3>2. PICK t : Taken(h, t, NewRecord) /\ prec'[h] = t /\ queue'[h] = t
      BY <1>1, <2>2, PollTakesGoes
    <3>3. Unmarked(t) /\ Heir(h, t)
      BY <1>1, <3>2 DEF Taken, Unmarked, Marked, Heir
    <3>4. \A g \in Hosts : /\ Heir(g, wrec'[g]) /\ Heir(g, prec'[g]) /\ (queue'[g] # None => Heir(g, queue'[g]))
                           /\ Stands(wpc'[g], wrec'[g]) /\ ~prec'[g].acked /\ ~prec'[g].inFlight
      BY <1>1, <3>1, <3>2, <3>3, OutlivesIsHeir DEF Fellows, Unmarked
    <3>5. QED
      BY <3>4, HeirsGo
  <2>3. QED
    BY <1>6, <2>1, <2>2 DEF PollIntake
<1>7. QED
  BY <1>4, <1>5, <1>6 DEF PollStep

\* A step that touches no record and no worker.
LEMMA RunsRest ==
  ASSUME RunsInv, Replied => Replied', UNCHANGED <<wpc, wrec, prec, queue>>
  PROVE  RunsInv' /\ \A g \in Hosts : Owns(g)' => Owns(g)
BY DEF RunsInv, CopyRuns, Copies, Owns

\* Every step keeps RunsInv, and makes an owner only of a host that has read a thread without a reply.
LEMMA RunsNext ==
  ASSUME TicketInv, MonitorInv, RunsInv, [MonitorNext]_monitorVars
  PROVE  /\ RunsInv' /\ (Replied => Replied')
         /\ \A g \in Hosts : Owns(g)' => Owns(g) \/ Claims(g)
<1>1. Replied => Replied'
  BY RepliedStays
<1>2. ASSUME NEW h \in Hosts, WorkerStep(h) PROVE RunsInv' /\ \A g \in Hosts : Owns(g)' => Owns(g) \/ Claims(g)
  BY <1>1, <1>2, RunsWork, RunsIntake
<1>3. ASSUME NEW h \in Hosts, PollStep(h) PROVE RunsInv' /\ \A g \in Hosts : Owns(g)' => Owns(g)
  BY <1>1, <1>3, RunsPoll
<1>4. ASSUME NEW h \in Hosts, Crash(h) PROVE RunsInv' /\ \A g \in Hosts : Owns(g)' => Owns(g)
  <2>1. /\ \A g \in Hosts : /\ Heir(g, wrec[g]) /\ Stands(wpc[g], wrec[g]) /\ Heir(g, prec[g])
                           /\ ~prec[g].acked /\ ~prec[g].inFlight /\ (queue[g] # None => Heir(g, queue[g]))
        /\ Heir(h, NewRecord) /\ Unmarked(NewRecord) /\ Stands("down", NewRecord)
    BY CopiesOf, NewIsBlank DEF Heir, Marked, RunsInv, Blank, Unmarked, Stands
  <2>2. /\ Steps(h, "down", NewRecord, queue[h]) /\ prec'[h] = NewRecord
        /\ \A g \in Hosts \ {h} : prec'[g] = prec[g]
    BY <1>4, CrashGoes
  <2>3. \A g \in Hosts : /\ Heir(g, wrec'[g]) /\ Heir(g, prec'[g]) /\ (queue'[g] # None => Heir(g, queue'[g]))
                         /\ Stands(wpc'[g], wrec'[g]) /\ ~prec'[g].acked /\ ~prec'[g].inFlight
    BY <2>1, <2>2 DEF Steps, Unmarked
  <2>4. QED
    BY <1>1, <2>3, HeirsGo
<1>5. ASSUME ~\E h \in Hosts : WorkerStep(h) \/ LateIntake(h) \/ Crash(h) \/ PollStep(h)
      PROVE  UNCHANGED <<wpc, wrec, prec, queue>>
  BY <1>5 DEF MonitorNext, RequestReturns, TransitionReads, TransitionWrites, OperatorUpdates,
     ForegroundReplies, Tick, workVars, monitorVars
<1>6. ASSUME NEW h \in Hosts, LateIntake(h) PROVE RunsInv' /\ \A g \in Hosts : Owns(g)' => Owns(g)
  <2>1. /\ wrec \in [Hosts -> Record] /\ prec \in [Hosts -> Record] /\ queue \in [Hosts -> Record \cup {None}]
    BY DEF MonitorInv, MonitorTypeOK
  <2>2. /\ wrec' = AfterIntake(h, wrec) /\ prec' = AfterIntake(h, prec) /\ queue' = AfterIntake(h, queue)
        /\ wpc' = wpc
    BY <1>6 DEF LateIntake
  <2>3. \A g \in Hosts : Outlives(wrec'[g], wrec[g]) /\ Outlives(prec'[g], prec[g]) /\ FileOutlives(g, queue[g])
    BY <2>1, <2>2, LateOutlives
  <2>4. \A g \in Hosts : /\ Heir(g, wrec'[g]) /\ Heir(g, prec'[g]) /\ (queue'[g] # None => Heir(g, queue'[g]))
                         /\ Stands(wpc'[g], wrec'[g]) /\ ~prec'[g].acked /\ ~prec'[g].inFlight
    BY <2>2, <2>3, OutlivesIsHeir
  <2>5. QED
    BY <1>1, <2>4, HeirsGo
<1>7. QED
  BY <1>1, <1>2, <1>3, <1>4, <1>5, <1>6, RunsRest

-----------------------------------------------------------------------------
(***************************************************************************)
(* Before the first reply, with one update at most.                        *)
(***************************************************************************)

\* Nothing that disturbs the monitors is taken back.
LEMMA BoundsGrow ==
  ASSUME MonitorInv, [MonitorNext]_monitorVars
  PROVE  /\ faults \in Nat /\ crashes \in Nat /\ updates \in Nat /\ overlaps \in Nat
         /\ faults' \in {faults, faults + 1} /\ crashes' \in {crashes, crashes + 1}
         /\ updates' \in {updates, updates + 1} /\ overlaps' \in {overlaps, overlaps + 1}
<1>1. faults \in Nat /\ crashes \in Nat /\ updates \in Nat /\ overlaps \in Nat
  BY DEF MonitorInv, MonitorTypeOK
<1> USE DEF boundVars, Fault
<1>2. ASSUME NEW h \in Hosts, WorkerStep(h)
      PROVE  /\ faults' \in {faults, faults + 1} /\ crashes' = crashes /\ updates' = updates
             /\ overlaps' \in {overlaps, overlaps + 1}
  <2>1. CASE StartPass(h) \/ WorkerIntake(h) \/ Route(h) \/ WorkerDesk(h) \/ Reconcile(h) \/ Reply(h) \/ Refresh(h)
    BY <2>1 DEF StartPass, WorkerIntake, Route, WorkerDesk, Reconcile, Reply, Refresh, IntakeUnanswered
  <2>2. CASE Patch(h) \/ AckDone(h) \/ PendingApplied(h) \/ PendingWaits(h) \/ Quarantine(h)
    BY <2>2 DEF Patch, AckDone, PendingApplied, Applied, PendingWaits, ControlAnswers, DeskFails, Quarantine
  <2>3. CASE \/ AfterAck(h) \/ StartWorker(h) \/ Unlink(h) \/ (\E ok \in BOOLEAN : CodexExit(h, ok))
             \/ \E stale \in BOOLEAN : Boot(h, stale)
    BY <2>3 DEF AfterAck, StartWorker, Unlink, CodexExit, Boot
  <2>4. QED
    BY <1>2, <2>1, <2>2, <2>3 DEF WorkerStep
<1>3. ASSUME NEW h \in Hosts, PollStep(h) \/ Crash(h)
      PROVE  /\ faults' \in {faults, faults + 1} /\ crashes' \in {crashes, crashes + 1}
             /\ updates' = updates /\ overlaps' = overlaps
  BY <1>3 DEF PollStep, Watch, PollIntake, PollDesk, IntakeUnanswered, Crash
<1>4. ASSUME ~\E h \in Hosts : WorkerStep(h) \/ PollStep(h) \/ Crash(h)
      PROVE  /\ faults' = faults /\ crashes' = crashes /\ updates' \in {updates, updates + 1}
             /\ overlaps' = overlaps
  BY <1>4 DEF MonitorNext, LateIntake, RequestReturns, TransitionReads, TransitionWrites, OperatorUpdates,
     ForegroundReplies, Tick, monitorVars
<1>5. QED
  BY <1>1, <1>2, <1>3, <1>4

\* Where no fault is counted there was none.
LEMMA NoFault == ASSUME MonitorInv, faults' = faults PROVE ~Fault
BY DEF MonitorInv, MonitorTypeOK, Fault

\* Nothing runs on while nothing fails and nobody dies.
LEMMA NothingLateStays ==
  ASSUME TicketInv, MonitorInv, NothingLate, [MonitorNext]_monitorVars, faults' = faults, crashes' = crashes
  PROVE  NothingLate'
<1>1. /\ call \in [Callers -> Call] /\ Late \subseteq Callers /\ crashes \in Nat /\ ~Fault
      /\ \A l \in Late : call[l].step = "idle" /\ call[l] = NoCall
      /\ delayed = {} /\ ~takenBack /\ NoCall.step = "idle"
  BY NoFault DEF TicketInv, TicketTypeOK, Callers, MonitorInv, MonitorTypeOK, NothingLate, NoCall
<1>2. ASSUME delayed' = delayed, ~takenBack', \A l \in Late : call'[l] = call[l] PROVE NothingLate'
  BY <1>1, <1>2 DEF NothingLate
<1>3. ASSUME NEW h \in Hosts, Beside(h) PROVE NothingLate'
  BY <1>1, <1>2, <1>3 DEF Beside
<1>4. ASSUME NEW h \in Hosts, WorkerStep(h) PROVE NothingLate'
  <2>1. CASE StartPass(h) \/ Route(h) \/ WorkerDesk(h) \/ Unlink(h) \/ Reconcile(h) \/ Reply(h)
    BY <1>3, <2>1, StartGoes, RouteGoes, DeskGoes, UnlinkGoes, ReconcileGoes, ReplyGoes
  <2>2. CASE Patch(h) \/ AckDone(h) \/ PendingApplied(h) \/ PendingWaits(h) \/ Quarantine(h)
    BY <1>3, <2>2, PatchGoes, AckDoneGoes, AppliedGoes, WaitsGoes, QuarantineGoes
  <2>3. CASE \/ AfterAck(h) \/ StartWorker(h) \/ (\E ok \in BOOLEAN : CodexExit(h, ok))
             \/ \E stale \in BOOLEAN : Boot(h, stale)
    BY <1>3, <2>3, AfterAckGoes, StartWorkerGoes, ExitGoes, BootGoes
  <2>4. CASE WorkerIntake(h) \/ Refresh(h)
    BY <1>1, <1>2, <2>4 DEF WorkerIntake, Refresh, WorkerTakes, IntakeUnanswered, Intake, threadVars
  <2>5. QED
    BY <1>4, <2>1, <2>2, <2>3, <2>4 DEF WorkerStep
<1>5. ASSUME NEW h \in Hosts, PollStep(h) PROVE NothingLate'
  BY <1>1, <1>2, <1>5 DEF PollStep, Watch, PollIntake, PollDesk, IntakeUnanswered, Intake, ticketVars, worldVars, threadVars
<1>6. \A h \in Hosts : ~LateIntake(h) /\ ~Crash(h)
  BY <1>1 DEF LateIntake, Crash
<1>7. ASSUME NEW c \in Callers, TransitionWrites(c) \/ RequestReturns(c) \/ \E note \in BOOLEAN : TransitionReads(c, note)
      PROVE  NothingLate'
  <2>1. call[c].step # "idle" /\ \A d \in Callers \ {c} : call'[d] = call[d]
    BY <1>1, <1>7 DEF TransitionWrites, TxWrite, RequestReturns, Returns, TransitionReads, TxRead
  <2>2. c \notin Late
    BY <1>1, <2>1
  <2>3. delayed' = delayed /\ ~takenBack'
    <3>1. ASSUME TransitionWrites(c) PROVE delayed' = delayed /\ ~takenBack'
      BY <1>1, <2>2, <3>1 DEF TransitionWrites, TakesBack
    <3>2. ASSUME RequestReturns(c) \/ \E note \in BOOLEAN : TransitionReads(c, note) PROVE delayed' = delayed /\ ~takenBack'
      BY <1>1, <3>2 DEF RequestReturns, TransitionReads, worldVars, threadVars
    <3>3. QED
      BY <1>7, <3>1, <3>2
  <2>4. QED
    BY <1>1, <1>2, <2>1, <2>2, <2>3
<1>8. ASSUME NEW o \in Operators, NEW u \in Updates, OperatorUpdates(o, u) PROVE NothingLate'
  <2>1. o \notin Late
    BY TicketAssumption DEF Late
  <2>2. \A l \in Late : call'[l] = call[l]
    BY <1>1, <1>8, <2>1 DEF OperatorUpdates, BeginUpdate, Begin
  <2>3. QED
    BY <1>1, <1>2, <1>8, <2>2 DEF OperatorUpdates, worldVars, threadVars
<1>9. CASE ForegroundReplies \/ Tick \/ UNCHANGED monitorVars
  BY <1>1, <1>2, <1>9 DEF ForegroundReplies, Tick, LeaseTick, monitorVars, ticketVars, worldVars, threadVars
<1>10. QED
  BY <1>4, <1>5, <1>6, <1>7, <1>8, <1>9 DEF MonitorNext, Callers

\* g does not move and keeps its copies, though its tokens may be outdated.
Apart(g) ==
  /\ wpc'[g] = wpc[g] /\ ppc'[g] = ppc[g] /\ (g \in aged => g \in aged')
  /\ Outlives(wrec'[g], wrec[g]) /\ Outlives(prec'[g], prec[g]) /\ FileOutlives(g, queue[g])

\* A host apart may start Codex only if it could before.
LEMMA ApartIsLive ==
  ASSUME NEW g \in Hosts, Apart(g)
  PROVE  /\ PassLive(g)' => PassLive(g)
         /\ RestLive(g)' => RestLive(g)
         /\ PollLive(g)' => PollLive(g)
<1>1. PassLive(g)' => PassLive(g)
  BY DEF Apart, Outlives, PassLive
<1>2. RestLive(g)' => RestLive(g)
  BY DEF Apart, FileOutlives, Outlives, RestLive
<1>3. PollLive(g)' => PollLive(g)
  BY DEF Apart, Outlives, PollLive
<1>4. QED
  BY <1>1, <1>2, <1>3

\* A host that takes no part in a step is apart.
LEMMA StillIsApart ==
  ASSUME MonitorInv, NEW g \in Hosts, wpc'[g] = wpc[g], ppc'[g] = ppc[g], g \in aged => g \in aged',
         wrec'[g] = wrec[g], prec'[g] = prec[g], queue'[g] = queue[g]
  PROVE  Apart(g)
BY DEF MonitorInv, MonitorTypeOK, Apart, Outlives, Marked, FileOutlives

\* The positions of a worker before the reply, and no transition on record.
Early(h) ==
  /\ wpc[h] \in {"idle", "intake", "route", "desk", "reconcile", "reply", "unlink"}
  /\ wrec[h].pending = "none" /\ prec[h].pending = "none" /\ (queue[h] # None => queue[h].pending = "none")

\* RaceInv in terms of Early.
LEMMA EarlyHosts ==
  /\ RaceInv => \A h \in Hosts : Early(h)
  /\ (\A h \in Hosts : Early(h))' => \A h \in Hosts :
       /\ wpc'[h] \in {"idle", "intake", "route", "desk", "reconcile", "reply", "unlink"}
       /\ \A r \in Copies(h)' : r.pending = "none"
<1>1. RaceInv => \A h \in Hosts : Early(h)
  BY CopiesOf DEF RaceInv, Early
<1>2. ASSUME (\A h \in Hosts : Early(h))', NEW h \in Hosts, NEW r \in Copies(h)' PROVE r.pending = "none"
  BY <1>2, CopiesOf DEF Early
<1>3. QED
  BY <1>1, <1>2 DEF Early

\* A step of one host's threads that gives it no claim.
LEMMA RaceHost ==
  ASSUME MonitorInv, RaceInv, NEW h \in Hosts, UNCHANGED <<status, claimOwner, lease, call, updates>>,
         \A g \in Hosts \ {h} : Apart(g), Early(h)', BeforeReply(h)' => BeforeReply(h)
  PROVE  RaceInv'
<1>1. \A g \in Hosts : Early(g)
  BY EarlyHosts
<1>2. \A g \in Hosts : Early(g)'
  BY <1>1 DEF Early, Apart, Outlives, FileOutlives
<1>3. \A g \in Hosts : BeforeReply(g)' => BeforeReply(g)
  BY ApartIsLive DEF BeforeReply
<1>4. \A g \in Hosts : /\ wpc'[g] \in {"idle", "intake", "route", "desk", "reconcile", "reply", "unlink"}
                       /\ \A r \in Copies(g)' : r.pending = "none"
  BY <1>2, EarlyHosts
<1>5. \A c : Active(c)' <=> Active(c)
  BY DEF Active
<1>6. QED
  BY <1>3, <1>4, <1>5 DEF RaceInv

\* A grant: nobody else had the claim, and h has it now.
LEMMA RaceGrant ==
  ASSUME TicketInv, MonitorInv, RaceInv, NEW h \in Hosts, Intake(h), Grantable(h), updates' = updates,
         \A g \in Hosts \ {h} : Apart(g), Early(h)'
  PROVE  RaceInv'
<1>1. \A g \in Hosts : Early(g)
  BY EarlyHosts
<1>2. \A g \in Hosts : Early(g)'
  BY <1>1 DEF Early, Apart, Outlives, FileOutlives
<1>3. \A g \in Hosts \ {h} : BeforeReply(g)' => BeforeReply(g)
  BY ApartIsLive DEF BeforeReply
<1>4. \A g \in Hosts : /\ wpc'[g] \in {"idle", "intake", "route", "desk", "reconcile", "reply", "unlink"}
                       /\ \A r \in Copies(g)' : r.pending = "none"
  BY <1>2, EarlyHosts
<1>5. /\ claimOwner' = h /\ lease' = Lease /\ Lease > 0 /\ call' = call
      /\ status' = IF status = None THEN "RECEIVED" ELSE status
  BY TicketAssumption DEF Intake
<1>6. None # "RECEIVED" /\ None \notin TERMINAL_STATUSES
  BY TicketAssumption, StatusNames DEF TERMINAL_STATUSES
<1>7. lease \in Nat
  BY DEF TicketInv, TicketTypeOK
<1>8. \A g \in Hosts \ {h} : ~BeforeReply(g)
  BY <1>6, <1>7 DEF RaceInv, Grantable
<1>9. status' # None
  BY <1>5, <1>6
<1>10. \A c : Active(c)' <=> Active(c)
  BY <1>5 DEF Active
<1>11. \A o \in Operators : Active(o) => status' = "RECEIVED"
  BY <1>5, <1>6 DEF RaceInv
<1>12. updates = 0 => status' = "RECEIVED"
  BY <1>5 DEF RaceInv
<1>13. QED
  BY <1>3, <1>4, <1>5, <1>8, <1>9, <1>10, <1>11, <1>12 DEF RaceInv

\* A step of h's worker leaves its fellows apart.
LEMMA SteppedApart ==
  ASSUME MonitorInv, NEW h \in Hosts, NEW pc, NEW w, NEW q, Steps(h, pc, w, q), Beside(h), aged \ {h} \subseteq aged'
  PROVE  \A g \in Hosts \ {h} : Apart(g)
BY StillIsApart DEF Steps, Beside

\* An answered intake leaves its fellows apart.
LEMMA FellowsApart ==
  ASSUME NEW h \in Hosts, Fellows(h), \A g \in Hosts \ {h} : ppc'[g] = ppc[g], aged \ {h} \subseteq aged'
  PROVE  \A g \in Hosts \ {h} : Apart(g)
BY DEF Fellows, Apart

\* The steps of a pass before the reply.
LEMMA RaceWork ==
  ASSUME TicketInv, MonitorInv, RunsInv, RaceInv, ~Replied, ~Replied', faults' = faults,
         NEW h \in Hosts, WorkerStep(h)
  PROVE  RaceInv'
<1>1. /\ Early(h) /\ \A r \in Record : r # None
      /\ ~wrec[h].acked /\ (queue[h] # None => ~queue[h].acked) /\ wrec[h] \in Record
  BY EarlyHosts, CopiesOf, PassHas DEF RunsInv, CopyRuns
<1>2. \/ StartPass(h) \/ WorkerIntake(h) \/ Route(h) \/ WorkerDesk(h) \/ Reconcile(h) \/ Reply(h) \/ Unlink(h)
  BY <1>1 DEF Early, WorkerStep, Patch, WaitOf, AckDone, PendingApplied, PendingWaits, AfterAck, StartWorker,
     Refresh, Quarantine, CodexExit, Boot, At
<1>3. ASSUME NEW pc \in {"idle", "intake", "route", "desk", "reconcile", "reply", "unlink"}, NEW w, NEW q,
             Steps(h, pc, w, q), Beside(h), UNCHANGED call, aged \ {h} \subseteq aged', w.pending = "none",
             q # None => q.pending = "none",
             pc \in {"route", "desk"} /\ w.granted => BeforeReply(h),
             pc \in {"reconcile", "reply"} => BeforeReply(h),
             pc = "idle" => q = None
      PROVE  RaceInv'
  <2>1. wpc'[h] = pc /\ wrec'[h] = w /\ queue'[h] = q /\ UNCHANGED <<ppc, prec, status, claimOwner, lease, updates>>
    BY <1>3 DEF Steps, Beside
  <2>2. PassLive(h)' => BeforeReply(h)
    BY <1>3, <2>1 DEF PassLive
  <2>3. ~RestLive(h)'
    BY <1>3, <2>1 DEF RestLive
  <2>4. PollLive(h)' => BeforeReply(h)
    BY <2>1 DEF PollLive, BeforeReply
  <2>5. Early(h)'
    BY <1>1, <1>3, <2>1 DEF Early
  <2>6. BeforeReply(h)' => BeforeReply(h)
    BY <2>2, <2>3, <2>4 DEF BeforeReply
  <2>7. \A g \in Hosts \ {h} : Apart(g)
    BY <1>3, SteppedApart
  <2>8. QED
    BY <1>3, <2>1, <2>5, <2>6, <2>7, RaceHost
<1>4. CASE StartPass(h)
  <2>1. /\ Beside(h) /\ UNCHANGED <<call, aged>> /\ wpc[h] = "idle" /\ queue[h] # None
    BY <1>4, StartGoes
  <2>2. PICK pc \in {"resume", "intake", "route"} :
          /\ Steps(h, pc, queue[h], queue[h]) /\ (pc = "resume" <=> queue[h].pending # "none")
          /\ pc = "route" => h \notin aged
    BY <1>4, StartGoes
  <2>3. queue[h].pending = "none"
    BY <1>1, <2>1 DEF Early
  <2>4. pc = "route" /\ queue[h].granted => BeforeReply(h)
    BY <2>1, <2>2, <2>3 DEF BeforeReply, RestLive
  <2>5. QED
    BY <1>3, <2>1, <2>2, <2>3, <2>4
<1>5. CASE Route(h)
  <2>1. /\ Beside(h) /\ UNCHANGED <<call, aged>> /\ wpc[h] = "route" /\ NewRecord.pending = "none"
    BY <1>5, RouteGoes DEF NewRecord
  <2>2. wrec[h].granted => BeforeReply(h)
    BY <2>1 DEF BeforeReply, PassLive
  <2>3. wrec[h].pending = "none" /\ (queue[h] # None => queue[h].pending = "none")
    BY <1>1 DEF Early
  <2>4. CASE Steps(h, "unlink", NewRecord, queue[h])
    BY <1>3, <2>1, <2>3, <2>4
  <2>5. CASE Steps(h, "desk", wrec[h], queue[h])
    BY <1>3, <2>1, <2>2, <2>3, <2>5
  <2>6. CASE Steps(h, "reconcile", wrec[h], queue[h]) /\ wrec[h].granted
    BY <1>3, <2>1, <2>2, <2>3, <2>6
  <2>7. QED
    BY <1>1, <1>5, <2>4, <2>5, <2>6, RouteGoes
<1>6. CASE WorkerDesk(h)
  <2>1. /\ Beside(h) /\ UNCHANGED <<call, aged>> /\ wpc[h] = "desk"
    BY <1>6, DeskGoes
  <2>2. PICK w \in Record : Same(w, wrec[h]) /\ Steps(h, "route", w, w)
    BY <1>6, DeskGoes, NoFault
  <2>3. w.pending = "none" /\ (w.granted => BeforeReply(h))
    BY <1>1, <2>1, <2>2 DEF Same, Rights, Early, BeforeReply, PassLive
  <2>4. QED
    BY <1>3, <2>1, <2>2, <2>3
<1>7. CASE Reconcile(h)
  <2>1. /\ Beside(h) /\ UNCHANGED <<call, aged>> /\ wpc[h] = "reconcile"
    BY <1>7, ReconcileGoes
  <2>2. PICK w \in Record : Sending(w, wrec[h], TRUE) /\ Steps(h, "reply", w, w)
    BY <1>7, ReconcileGoes, NoFault
  <2>3. w.pending = "none" /\ BeforeReply(h)
    BY <1>1, <2>1, <2>2 DEF Sending, Early, BeforeReply, PassLive
  <2>4. QED
    BY <1>3, <2>1, <2>2, <2>3
<1>8. ~Reply(h)
  <2>1. acks' = acks + 1 => Replied'
    BY DEF Replied, MonitorInv, MonitorTypeOK
  <2>2. QED
    BY <2>1, ReplyGoes, NoFault
<1>9. CASE Unlink(h)
  <2>1. /\ Beside(h) /\ UNCHANGED call /\ aged' = aged \ {h} /\ Steps(h, "idle", wrec[h], None)
    BY <1>9, UnlinkGoes
  <2>2. wrec[h].pending = "none"
    BY <1>1 DEF Early
  <2>3. QED
    BY <1>3, <2>1, <2>2
<1>10. CASE WorkerIntake(h)
  <2>1. WorkerTakes(h) /\ Goto(h, "route") /\ UNCHANGED <<ppc, updates>>
    BY <1>10, NoFault DEF WorkerIntake, IntakeUnanswered, boundVars
  <2>2. /\ Intake(h) /\ aged' = aged \ {h} /\ Fellows(h) /\ Outlives(prec'[h], prec[h]) /\ wpc'[h] = "route"
    BY <2>1, TakesGoes
  <2>3. PICK t : Taken(h, t, wrec[h]) /\ wrec'[h] = t /\ queue'[h] = t
    BY <2>1, TakesGoes
  <2>4. Early(h)'
    BY <1>1, <2>2, <2>3 DEF Early, Taken, Outlives
  <2>5. \A g \in Hosts \ {h} : Apart(g)
    BY <2>1, <2>2, FellowsApart
  <2>6. CASE Grantable(h)
    BY <2>1, <2>2, <2>4, <2>5, <2>6, RaceGrant
  <2>7. CASE ~Grantable(h)
    <3>1. UNCHANGED <<status, claimOwner, lease, call>>
      BY <2>2, <2>7 DEF Intake, claimVars
    <3>2. ~PassLive(h)' /\ ~RestLive(h)'
      BY <2>2, <2>3, <2>7 DEF Taken, PassLive, RestLive
    <3>3. PollLive(h)' => PollLive(h)
      BY <2>1, <2>2 DEF PollLive, Outlives
    <3>4. QED
      BY <2>1, <2>4, <2>5, <3>1, <3>2, <3>3, RaceHost DEF BeforeReply
  <2>8. QED
    BY <2>6, <2>7
<1>11. QED
  BY <1>2, <1>4, <1>5, <1>6, <1>7, <1>8, <1>9, <1>10

\* The poll thread before the reply.
LEMMA RacePoll ==
  ASSUME TicketInv, MonitorInv, RaceInv, faults' = faults, NEW h \in Hosts, PollStep(h)
  PROVE  RaceInv'
<1>1. /\ Early(h) /\ NewRecord \in Record /\ ~NewRecord.granted /\ NewRecord.pending = "none"
      /\ ppc \in [Hosts -> {"watch", "intake", "desk", "idle"}]
      /\ wrec \in [Hosts -> Record] /\ prec \in [Hosts -> Record] /\ queue \in [Hosts -> Record \cup {None}]
  BY EarlyHosts, NewRecordType DEF NewRecord, MonitorInv, MonitorTypeOK
<1>2. ASSUME NEW stale \in BOOLEAN, Watch(h, stale) PROVE RaceInv'
  <2>1. /\ UNCHANGED <<wpc, wrec, prec, aged, status, claimOwner, lease, call, updates>>
        /\ queue' \in {queue, [queue EXCEPT ![h] = NewRecord]}
        /\ \E pc \in {"idle", "intake"} : ppc' = [ppc EXCEPT ![h] = pc]
    BY <1>2 DEF Watch, ticketVars, claimVars, boundVars
  <2>2. \A g \in Hosts \ {h} : queue'[g] = queue[g] /\ ppc'[g] = ppc[g]
    BY <1>1, <2>1
  <2>3. \A g \in Hosts \ {h} : Apart(g)
    BY <2>1, <2>2, StillIsApart
  <2>4. ppc'[h] # "desk" /\ (queue'[h] = NewRecord \/ queue'[h] = queue[h])
    BY <1>1, <2>1
  <2>5. Early(h)'
    BY <1>1, <2>1, <2>4 DEF Early
  <2>6. BeforeReply(h)' => BeforeReply(h)
    BY <1>1, <2>1, <2>4 DEF BeforeReply, PassLive, RestLive, PollLive
  <2>7. QED
    BY <2>1, <2>3, <2>5, <2>6, RaceHost
<1>3. CASE PollDesk(h)
  <2>1. PICK d \in {"task", "fingerprint"} : queue' = [queue EXCEPT ![h] = [prec[h] EXCEPT !.desk = d]]
    BY <1>3, NoFault DEF PollDesk
  <2>2. /\ UNCHANGED <<wpc, wrec, aged, status, claimOwner, lease, call, updates>> /\ ppc[h] = "desk"
        /\ ppc' = [ppc EXCEPT ![h] = "idle"] /\ prec' = [prec EXCEPT ![h] = NewRecord]
    BY <1>3, NoFault DEF PollDesk, ticketVars, claimVars, boundVars
  <2>3. PICK q : q = [prec[h] EXCEPT !.desk = d]
    OBVIOUS
  <2>4. Same(q, prec[h])
    BY <1>1, <2>3, EditsAre
  <2>5. /\ ppc'[h] = "idle" /\ prec'[h] = NewRecord /\ queue'[h] = q
        /\ \A g \in Hosts \ {h} : queue'[g] = queue[g] /\ ppc'[g] = ppc[g] /\ prec'[g] = prec[g]
    BY <1>1, <2>1, <2>2, <2>3
  <2>6. \A g \in Hosts \ {h} : Apart(g)
    BY <2>2, <2>5, StillIsApart
  <2>7. Early(h)'
    BY <1>1, <2>2, <2>4, <2>5 DEF Early, Same
  <2>8. BeforeReply(h)' => BeforeReply(h)
    BY <2>2, <2>4, <2>5 DEF BeforeReply, PassLive, RestLive, PollLive, Same, Rights
  <2>9. QED
    BY <2>2, <2>6, <2>7, <2>8, RaceHost
<1>4. CASE PollIntake(h)
  <2>1. /\ Intake(h) /\ aged' = aged \ {h} /\ UNCHANGED <<wpc, updates>> /\ ppc' = [ppc EXCEPT ![h] = "desk"]
        /\ prec' = [AfterIntake(h, prec) EXCEPT ![h] = TakeIntake(h, NewRecord)]
        /\ wrec' = AfterIntake(h, wrec) /\ queue' = [AfterIntake(h, queue) EXCEPT ![h] = prec'[h]]
    BY <1>4, NoFault DEF PollIntake, IntakeUnanswered, boundVars
  <2>2. Fellows(h) /\ Outlives(wrec'[h], wrec[h])
    BY <2>1, PollTakesGoes
  <2>3. PICK t : Taken(h, t, NewRecord) /\ prec'[h] = t /\ queue'[h] = t
    BY <2>1, PollTakesGoes
  <2>4. Early(h)'
    BY <1>1, <2>1, <2>2, <2>3 DEF Early, Taken, Outlives
  <2>5. \A g \in Hosts \ {h} : Apart(g)
    BY <1>1, <2>1, <2>2, FellowsApart
  <2>6. CASE Grantable(h)
    BY <2>1, <2>4, <2>5, <2>6, RaceGrant
  <2>7. CASE ~Grantable(h)
    <3>1. UNCHANGED <<status, claimOwner, lease, call>>
      BY <2>1, <2>7 DEF Intake, claimVars
    <3>2. ~RestLive(h)' /\ ~PollLive(h)'
      BY <2>3, <2>7 DEF Taken, RestLive, PollLive
    <3>3. PassLive(h)' => PassLive(h)
      BY <2>1, <2>2 DEF PassLive, Outlives
    <3>4. QED
      BY <2>1, <2>4, <2>5, <3>1, <3>2, <3>3, RaceHost DEF BeforeReply
  <2>8. QED
    BY <2>6, <2>7
<1>5. QED
  BY <1>2, <1>3, <1>4 DEF PollStep

\* A step of Control: the hosts stay where they are.
LEMMA RaceTicket ==
  ASSUME RaceInv, UNCHANGED <<wpc, wrec, ppc, prec, queue, aged>>, updates' <= 1,
         updates' = 0 => status' \in {None, "RECEIVED"},
         \A h \in Hosts : ~Active(h)',
         \A h \in Hosts : BeforeReply(h) => (claimOwner' = h /\ lease' > 0 /\ status' # None) \/ status' \in TERMINAL_STATUSES,
         \A o \in Operators : /\ Active(o)' => updates' = 1 /\ status' = "RECEIVED"
                              /\ call'[o].step = "read" => call'[o].to \notin {"WAITING_RELEASE", "CLOSED"},
         \A o, p \in Operators : Active(o)' /\ Active(p)' => o = p
  PROVE  RaceInv'
<1>1. \A h \in Hosts : (BeforeReply(h)' <=> BeforeReply(h)) /\ Copies(h)' = Copies(h)
  BY DEF BeforeReply, PassLive, RestLive, PollLive, Copies
<1>2. \A h \in Hosts : /\ wpc'[h] \in {"idle", "intake", "route", "desk", "reconcile", "reply", "unlink"}
                       /\ \A r \in Copies(h)' : r.pending = "none"
  BY <1>1 DEF RaceInv
<1>3. \A g, h \in Hosts : BeforeReply(g)' /\ BeforeReply(h)' => g = h
  BY <1>1 DEF RaceInv
<1>4. QED
  BY <1>1, <1>2, <1>3 DEF RaceInv

\* Control, its operators and time before the reply.
LEMMA RaceWorld ==
  ASSUME TicketInv, MonitorInv, RaceInv, ~Replied', updates <= 1, updates' <= 1, [MonitorNext]_monitorVars,
         NothingLate, ~\E h \in Hosts : WorkerStep(h) \/ PollStep(h) \/ Crash(h)
  PROVE  RaceInv'
<1>0. /\ call \in [Callers -> Call] /\ Hosts \cup Operators \subseteq Callers /\ updates \in Nat /\ None \notin Status /\ Hosts \cap Operators = {}
      /\ status \in Status \cup {None} /\ "RECEIVED" \notin TERMINAL_STATUSES
      /\ NoCall.step = "idle" /\ NoCall.to = "RECEIVED"
  BY TicketAssumption DEF TicketInv, TicketTypeOK, MonitorInv, MonitorTypeOK, TERMINAL_STATUSES, NoCall, Callers
<1>a. \A c \in Callers \ (Hosts \cup Operators) : call[c].step = "idle"
  BY <1>0 DEF NothingLate, Callers
<1>1. ASSUME NEW c \in Hosts \cup Operators, Returns(c), UNCHANGED <<workVars, worldVars, threadVars, boundVars>> PROVE RaceInv'
  <2>1. /\ UNCHANGED <<wpc, wrec, ppc, prec, queue, aged, updates, status, claimOwner, lease>>
        /\ \A d \in Hosts \cup Operators : call'[d] \in {call[d], NoCall}
    BY <1>0, <1>1 DEF Returns, workVars, boundVars, claimVars
  <2>2. \A d \in Hosts \cup Operators : Active(d)' => Active(d)
    BY <1>0, <2>1 DEF Active
  <2>3. \A o \in Operators : call'[o].step = "read" => call'[o].to \notin {"WAITING_RELEASE", "CLOSED"}
    BY <1>0, <2>1 DEF RaceInv
  <2>4. QED
    BY <2>1, <2>2, <2>3, RaceTicket DEF RaceInv
<1>2. ASSUME NEW c \in Hosts \cup Operators, NEW note \in BOOLEAN, TransitionReads(c, note) PROVE RaceInv'
  <2>1. c \in Operators /\ call[c].step = "begin" /\ Active(c)
    BY <1>2 DEF TransitionReads, TxRead, Active, RaceInv
  <2>2. updates = 1 /\ status = "RECEIVED"
    BY <2>1 DEF RaceInv
  <2>3. /\ UNCHANGED <<wpc, wrec, ppc, prec, queue, aged, updates, status, claimOwner, lease>>
        /\ \A d \in (Hosts \cup Operators) \ {c} : call'[d] = call[d]
        /\ call'[c] = IF Valid(c, note) THEN [call[c] EXCEPT !.step = "read", !.from = status, !.fix = FixAfter(c)]
                      ELSE [NoCall EXCEPT !.step = "refused"]
    BY <1>0, <1>2 DEF TransitionReads, TxRead, workVars, boundVars, claimVars
  <2>4. call[c] \in Call
    BY <1>0
  <2>5. \/ call'[c].step = "read" /\ call'[c].to = call[c].to /\ Valid(c, note)
        \/ call'[c].step = "refused"
    BY <2>3, <2>4 DEF Call, NoCall
  <2>6. Valid(c, note) => call[c].to \notin {"WAITING_RELEASE", "CLOSED"}
    BY <2>2 DEF Valid, ALLOWED_TRANSITIONS
  <2>7. \A d \in Hosts \cup Operators : Active(d)' => Active(d)
    BY <2>1, <2>3 DEF Active
  <2>8. \A o \in Operators : call'[o].step = "read" => call'[o].to \notin {"WAITING_RELEASE", "CLOSED"}
    BY <2>3, <2>5, <2>6 DEF RaceInv
  <2>9. QED
    BY <2>3, <2>7, <2>8, RaceTicket DEF RaceInv
<1>3. ASSUME NEW c \in Hosts \cup Operators, TransitionWrites(c) PROVE RaceInv'
  <2>1. c \in Operators /\ call[c].step = "read" /\ Active(c)
    BY <1>3 DEF TransitionWrites, TxWrite, Active, RaceInv
  <2>2. updates = 1 /\ status = "RECEIVED" /\ call[c].to \notin {"WAITING_RELEASE", "CLOSED"}
    BY <2>1 DEF RaceInv
  <2>3. /\ UNCHANGED <<wpc, wrec, ppc, prec, queue, aged, updates>> /\ status' = call[c].to
        /\ \A d \in (Hosts \cup Operators) \ {c} : call'[d] = call[d]
        /\ call'[c] = [NoCall EXCEPT !.step = "done"]
        /\ Unclaims(call[c].to) \/ UNCHANGED claimVars
    BY <1>0, <1>3 DEF TransitionWrites, TxWrite, workVars, boundVars
  <2>4. call[c] \in Call /\ call'[c].step = "done"
    BY <1>0, <2>3 DEF NoCall
  <2>5. status' \in Status /\ status' # None
    BY <1>0, <2>3, <2>4 DEF Call
  <2>6. \A d \in Hosts \cup Operators : ~Active(d)' /\ (d \in Operators => call'[d].step # "read")
    <3>1. \A d \in Operators \ {c} : ~Active(d)
      BY <2>1 DEF RaceInv
    <3>2. \A d \in Hosts : ~Active(d)
      BY DEF RaceInv
    <3>3. QED
      BY <2>3, <2>4, <3>1, <3>2 DEF Active
  <2>7. \A h \in Hosts : BeforeReply(h) => claimOwner = h /\ lease > 0
    BY <1>0, <2>2 DEF RaceInv
  <2>8. Unclaims(call[c].to) => status' \in TERMINAL_STATUSES
    BY <2>2, <2>3 DEF Unclaims
  <2>9. \A h \in Hosts : BeforeReply(h) => (claimOwner' = h /\ lease' > 0 /\ status' # None) \/ status' \in TERMINAL_STATUSES
    BY <2>3, <2>5, <2>7, <2>8 DEF claimVars
  <2>10. QED
    BY <2>2, <2>3, <2>6, <2>9, RaceTicket DEF RaceInv
<1>4. ASSUME NEW o \in Operators, NEW u \in Updates, OperatorUpdates(o, u) PROVE RaceInv'
  <2>1. /\ UNCHANGED <<wpc, wrec, ppc, prec, queue, aged, status, claimOwner, lease>> /\ updates' = updates + 1
        /\ status # None /\ \A d \in (Hosts \cup Operators) \ {o} : call'[d] = call[d]
        /\ call'[o] = [NoCall EXCEPT !.step = "begin", !.to = u.to, !.input = u.input]
    BY <1>0, <1>4 DEF OperatorUpdates, BeginUpdate, Begin, workVars, claimVars
  <2>2. updates = 0 /\ updates' = 1
    BY <1>0, <2>1
  <2>3. status = "RECEIVED"
    BY <2>1, <2>2 DEF RaceInv
  <2>4. \A d \in Hosts \cup Operators : ~Active(d)
    BY <2>2 DEF RaceInv
  <2>5. \A d \in Hosts \cup Operators : Active(d)' => d = o
    BY <2>1, <2>4 DEF Active
  <2>6. o \notin Hosts
    BY <1>0
  <2>7. call'[o].step = "begin" /\ \A p \in Operators : call'[p].step # "read"
    <3>1. call'[o].step = "begin"
      BY <2>1 DEF NoCall
    <3>2. \A p \in Operators : call'[p].step = "read" => p = o
      BY <2>5 DEF Active
    <3>3. QED
      BY <3>1, <3>2
  <2>8. QED
    BY <2>1, <2>2, <2>3, <2>5, <2>6, <2>7, RaceTicket DEF RaceInv
<1>5. CASE Tick
  <2>1. /\ UNCHANGED <<wpc, wrec, ppc, prec, queue, updates, status, claimOwner, call>>
        /\ aged' = {h \in Hosts : queue[h] # None}
        /\ \A h \in Hosts : wpc[h] \in {"idle", "running", "down"} /\ ppc[h] \in {"watch", "idle"}
    BY <1>5 DEF Tick, LeaseTick, boundVars
  <2>2. \A h \in Hosts : ~PassLive(h)' /\ ~RestLive(h)' /\ ~PollLive(h)'
    BY <2>1 DEF PassLive, RestLive, PollLive
  <2>3. \A h \in Hosts : ~BeforeReply(h)'
    BY <2>2 DEF BeforeReply
  <2>4. \A h \in Hosts : Copies(h)' = Copies(h)
    BY <2>1 DEF Copies
  <2>5. \A c : Active(c)' <=> Active(c)
    BY <2>1 DEF Active
  <2>6. QED
    BY <2>1, <2>3, <2>4, <2>5 DEF RaceInv
<1>6. ~ForegroundReplies
  BY DEF ForegroundReplies, Replied
<1>7. CASE UNCHANGED monitorVars
  <2>1. /\ UNCHANGED <<wpc, wrec, ppc, prec, queue, aged, updates, status, claimOwner, lease, call>>
    BY <1>7 DEF monitorVars, workVars, ticketVars, claimVars, boundVars
  <2>2. \A c : Active(c)' <=> Active(c)
    BY <2>1 DEF Active
  <2>3. QED
    BY <2>1, <2>2, RaceTicket DEF RaceInv
<1>8. QED
  <2>1. \A c \in Callers : RequestReturns(c) \/ TransitionReads(c, TRUE) \/ TransitionWrites(c) => c \in Hosts \cup Operators
    BY <1>a DEF RequestReturns, Returns, TransitionReads, TxRead, TransitionWrites, TxWrite
  <2>2. \A h \in Hosts : ~LateIntake(h)
    BY DEF LateIntake, NothingLate
  <2>3. \A c \in Operators \cup Late : RequestReturns(c) => RaceInv'
    BY <1>1, <2>1 DEF RequestReturns, Callers, worldVars
  <2>4. \A c \in Hosts \cup Late : TransitionReads(c, TRUE) => RaceInv'
    BY <1>2, <2>1 DEF Callers
  <2>5. \A o \in Operators : (\E note \in BOOLEAN : TransitionReads(o, note)) \/ (\E u \in Updates : OperatorUpdates(o, u)) => RaceInv'
    BY <1>2, <1>4
  <2>6. \A c \in Callers : TransitionWrites(c) => RaceInv'
    BY <1>3, <2>1
  <2>7. QED
    BY <1>5, <1>6, <1>7, <2>2, <2>3, <2>4, <2>5, <2>6 DEF MonitorNext

\* RaceInv holds as long as it is meant to.
LEMMA RaceNext ==
  ASSUME TicketInv, MonitorInv, RunsInv, faults + crashes = 0 => NothingLate,
         updates <= 1 /\ faults + crashes + overlaps = 0 /\ ~Replied => RaceInv,
         [MonitorNext]_monitorVars, updates' <= 1, faults' + crashes' + overlaps' = 0, ~Replied'
  PROVE  /\ RaceInv /\ RaceInv' /\ ~Replied /\ updates <= 1 /\ faults' = faults
<1>1. ~Replied
  BY RepliedStays
<1>2. /\ faults \in Nat /\ crashes \in Nat /\ updates \in Nat /\ overlaps \in Nat
      /\ faults' \in {faults, faults + 1} /\ crashes' \in {crashes, crashes + 1}
      /\ updates' \in {updates, updates + 1} /\ overlaps' \in {overlaps, overlaps + 1}
  BY BoundsGrow
<1>3. /\ updates <= 1 /\ faults + crashes + overlaps = 0 /\ faults + crashes = 0
      /\ faults' = faults /\ crashes' = crashes
  <2>1. updates' >= updates /\ faults' >= faults /\ crashes' >= crashes /\ overlaps' >= overlaps
    BY <1>2
  <2>2. faults' \in Nat /\ crashes' \in Nat /\ overlaps' \in Nat /\ updates' \in Nat
    BY <1>2
  <2>3. \A a, b, c \in Nat : a + b + c = 0 => a = 0 /\ b = 0 /\ c = 0
    OBVIOUS
  <2>4. faults' = 0 /\ crashes' = 0 /\ overlaps' = 0
    BY <2>2, <2>3
  <2>5. QED
    BY <1>2, <2>1, <2>2, <2>4
<1>4. RaceInv /\ NothingLate
  BY <1>1, <1>3
<1>5. \A h \in Hosts : ~Crash(h)
  BY <1>2, <1>3 DEF Crash
<1>6. QED
  BY <1>1, <1>3, <1>4, <1>5, RaceWork, RacePoll, RaceWorld

-----------------------------------------------------------------------------
(***************************************************************************)
(* While nothing disturbs the monitors, whoever may start Codex has the    *)
(* claim.                                                                  *)
(***************************************************************************)

\* What ClaimKept says of the records alone.
LEMMA ClaimFacts ==
  ASSUME MonitorInv, RunsInv, NEW h \in Hosts, HostKept(h), ClaimKept(h)
  PROVE  /\ wrec[h] \in Record /\ prec[h] \in Record /\ (queue[h] # None => queue[h] \in Record)
         /\ wpc[h] \notin {"idle", "down"} => queue[h] \in Record
         /\ \A r \in Record : r # None
         /\ wpc[h] \notin {"pend", "pendWait"} =>
              wrec[h].pending # "IN_PROGRESS" /\ (queue[h] # None => queue[h].pending # "IN_PROGRESS")
         /\ prec[h].pending # "IN_PROGRESS"
         /\ ppc[h] \in {"intake", "desk"} => wpc[h] = "idle"
         /\ wpc[h] \notin {"ackWait", "bootWait", "resumeWait", "pendWait"} => ~Active(h)
<1>1. /\ wrec[h] \in Record /\ prec[h] \in Record /\ (queue[h] # None => queue[h] \in Record)
      /\ wpc[h] \notin {"idle", "down"} => queue[h] \in Record
      /\ \A r \in Record : r # None
  BY PassHas DEF MonitorInv, MonitorTypeOK
<1>2. wpc[h] \notin {"pend", "pendWait"} =>
        wrec[h].pending # "IN_PROGRESS" /\ (queue[h] # None => queue[h].pending # "IN_PROGRESS")
  BY DEF ClaimKept
<1>3. prec[h].pending # "IN_PROGRESS"
  BY CopiesOf DEF RunsInv, CopyRuns, CopyReady
<1>4. /\ ppc[h] \in {"intake", "desk"} => wpc[h] = "idle"
      /\ wpc[h] \notin {"ackWait", "bootWait", "resumeWait", "pendWait"} => ~Active(h)
  BY DEF HostKept, ThreadsKept, ClaimKept, Active
<1>5. QED
  BY <1>1, <1>2, <1>3, <1>4

\* The claim of a host that takes no part in a step.
LEMMA ClaimStays ==
  ASSUME NEW g \in Hosts, ClaimKept(g), UNCHANGED <<claimOwner, lease, status>>,
         wpc'[g] = wpc[g], wrec'[g] = wrec[g], queue'[g] = queue[g], ppc'[g] = ppc[g], prec'[g] = prec[g],
         call'[g] = call[g], g \in aged' <=> g \in aged, g \in refreshDue' <=> g \in refreshDue
  PROVE  ClaimKept(g)'
<1>1. (PassLive(g)' <=> PassLive(g)) /\ (RestLive(g)' <=> RestLive(g)) /\ (PollLive(g)' <=> PollLive(g))
  BY DEF PassLive, RestLive, PollLive
<1>2. (Whole(g)' <=> Whole(g)) /\ \A pc : At(g, pc)' <=> At(g, pc)
  BY DEF Whole, At
<1>3. QED
  BY <1>1, <1>2 DEF ClaimKept

\* PassLive for a position and a copy.
Lively(pc, w) ==
  \/ pc \in {"reconcile", "reply", "ackSync", "ackWait", "next", "start"}
  \/ pc \in {"route", "desk"} /\ w.granted
  \/ pc \in {"pend", "pendWait"} /\ w.pending = "IN_PROGRESS"

\* A step of one worker that keeps the claim it works with.
LEMMA ClaimMoves ==
  ASSUME MonitorInv, \A g \in Hosts : ClaimKept(g), NEW h \in Hosts, ppc[h] # "desk",
         NEW pc, NEW w, NEW q, Steps(h, pc, w, q), Beside(h),
         \A g \in Hosts \ {h} : (g \in aged' <=> g \in aged) /\ (g \in refreshDue' <=> g \in refreshDue),
         Lively(pc, w) => Whole(h) /\ h \notin aged' /\ w.latest /\ q.latest,
         pc \in {"idle", "down"} /\ h \notin aged' /\ q # None /\ q.granted /\ q.pending = "none" => Whole(h) /\ q.latest,
         pc = "running" => claimOwner = h /\ lease = Lease /\ h \notin aged' /\ q.latest,
         pc # "lost", w.pending = "IN_PROGRESS" => pc \in {"pend", "pendWait"},
         q # None /\ q.pending = "IN_PROGRESS" => w.pending = "IN_PROGRESS",
         pc = "pendWait" /\ w.pending = "IN_PROGRESS" => call'[h].step \in {"begin", "read", "done"},
         Active(h)' => claimOwner = h /\ lease > 0 /\ pc \in {"ackWait", "bootWait", "resumeWait", "pendWait"},
         Active(h)' /\ pc = "ackWait" => call'[h].to = "ACKNOWLEDGED"
  PROVE  \A g \in Hosts : ClaimKept(g)'
<1>1. /\ wpc'[h] = pc /\ wrec'[h] = w /\ queue'[h] = q /\ UNCHANGED <<ppc, prec, status, claimOwner, lease>>
      /\ \A g \in Hosts \ {h} : wpc'[g] = wpc[g] /\ wrec'[g] = wrec[g] /\ queue'[g] = queue[g]
      /\ \A g \in Hosts \ {h} : call'[g] = call[g]
  BY DEF Steps, Beside
<1>2. \A g \in Hosts \ {h} : ClaimKept(g)'
  BY <1>1, ClaimStays
<1>3. (PassLive(h)' <=> Lively(pc, w)) /\ (Whole(h)' <=> Whole(h)) /\ ~PollLive(h)'
  BY <1>1 DEF PassLive, Lively, Whole, PollLive
<1>4. RestLive(h)' <=> pc \in {"idle", "down"} /\ h \notin aged' /\ q # None /\ q.granted /\ q.pending = "none"
  BY <1>1 DEF RestLive
<1>5. \A p : At(h, p)' <=> pc = p
  BY <1>1 DEF At
<1>6. claimOwner = h => status # None
  BY DEF ClaimKept
<1>7. ClaimKept(h)'
  BY <1>1, <1>3, <1>4, <1>5, <1>6 DEF ClaimKept, Active
<1>8. QED
  BY <1>2, <1>7

\* A pass without a disturbance.
LEMMA ClaimWork ==
  ASSUME TicketInv, MonitorInv, RunsInv, \A g \in Hosts : HostKept(g), \A g \in Hosts : ClaimKept(g),
         Lease > 1, UNCHANGED <<faults, overlaps>>, NEW h \in Hosts, WorkerStep(h), ~WorkerIntake(h), ~Refresh(h)
  PROVE  \A g \in Hosts : ClaimKept(g)'
<1> DEFINE Goal == \A g \in Hosts : ClaimKept(g)'
<1>1. /\ wrec[h] \in Record /\ prec[h] \in Record /\ (queue[h] # None => queue[h] \in Record)
      /\ wpc[h] \notin {"idle", "down"} => queue[h] \in Record
      /\ \A r \in Record : r # None
      /\ wpc[h] \notin {"pend", "pendWait"} =>
           wrec[h].pending # "IN_PROGRESS" /\ (queue[h] # None => queue[h].pending # "IN_PROGRESS")
      /\ ppc[h] \in {"intake", "desk"} => wpc[h] = "idle"
      /\ wpc[h] \notin {"ackWait", "bootWait", "resumeWait", "pendWait"} => ~Active(h)
  BY ClaimFacts
<1>2. /\ Lively(wpc[h], wrec[h]) => Whole(h) /\ h \notin aged /\ wrec[h].latest /\ queue[h].latest
      /\ RestLive(h) => Whole(h) /\ queue[h].latest
      /\ wpc[h] = "running" =>
           /\ claimOwner = h /\ queue[h].latest
           /\ (h \notin aged /\ lease = Lease) \/ (h \in aged)
      /\ wpc[h] # "lost"
      /\ wpc[h] = "pendWait" /\ wrec[h].pending = "IN_PROGRESS" => call[h].step \in {"begin", "read", "done"}
  BY DEF ClaimKept, Lively, PassLive, At
<1>3. NewRecord.pending = "none" /\ ~NewRecord.granted
  BY NewIsBlank DEF Blank, Unmarked
<1>4. ~Fault
  BY NoFault
<1>5. ASSUME NEW pc, NEW w, NEW q, Steps(h, pc, w, q), Beside(h), ppc[h] # "desk",
         aged' \in {aged, aged \ {h}}, refreshDue' \in {refreshDue, refreshDue \ {h}}, pc # "lost",
         Lively(pc, w) => Whole(h) /\ h \notin aged' /\ w.latest /\ q.latest,
         pc \in {"idle", "down"} => (h \notin aged' /\ q # None /\ q.granted /\ q.pending = "none" => Whole(h) /\ q.latest),
         pc = "running" => claimOwner = h /\ lease = Lease /\ h \notin aged' /\ q.latest,
         w.pending # "IN_PROGRESS", q # None => q.pending # "IN_PROGRESS", ~Active(h)'
      PROVE  Goal
  BY <1>5, ClaimMoves
<1> SUFFICES Goal
  OBVIOUS
<1> HIDE DEF Goal
<1>6. ASSUME NEW q, Steps(h, "unlink", NewRecord, q), Beside(h), ppc[h] # "desk",
             aged' \in {aged, aged \ {h}}, UNCHANGED refreshDue, q.pending # "IN_PROGRESS", ~Active(h)'
      PROVE  Goal
  <2>1. ~Lively("unlink", NewRecord)
    BY DEF Lively
  <2>2. QED
    BY <1>3, <1>5, <1>6, <2>1
<1>7. CASE StartPass(h)
  <2>1. /\ Beside(h) /\ UNCHANGED <<call, aged, refreshDue>> /\ wpc[h] = "idle" /\ queue[h] # None
    BY <1>7, StartGoes
  <2>2. PICK pc \in {"resume", "intake", "route"} :
          /\ Steps(h, pc, queue[h], queue[h]) /\ (pc = "resume" <=> queue[h].pending # "none")
          /\ pc = "route" => h \notin aged
    BY <1>7, StartGoes
  <2>3. ppc[h] = "idle"
    BY <1>7 DEF StartPass, MonitorInv, MonitorTypeOK
  <2>4. Lively(pc, queue[h]) => RestLive(h) /\ h \notin aged
    BY <2>1, <2>2 DEF Lively, RestLive
  <2>5. ~Active(h)'
    BY <1>1, <2>1 DEF Active
  <2>6. Lively(pc, queue[h]) => Whole(h) /\ h \notin aged /\ queue[h].latest
    BY <1>2, <2>4
  <2>7. queue[h].pending # "IN_PROGRESS" /\ pc \notin {"idle", "down", "running", "lost"}
    BY <1>1, <2>1, <2>2
  <2>8. QED
    BY <1>5, <2>1, <2>2, <2>3, <2>5, <2>6, <2>7
<1>8. CASE Route(h)
  <2>1. /\ Beside(h) /\ UNCHANGED <<call, aged, refreshDue>> /\ wpc[h] = "route"
    BY <1>8, RouteGoes
  <2>2. ~Active(h)' /\ ppc[h] # "desk"
    BY <1>1, <2>1 DEF Active
  <2>3. CASE Steps(h, "unlink", NewRecord, queue[h])
    BY <1>1, <1>6, <2>1, <2>2, <2>3
  <2>4. ASSUME NEW pc \in {"desk", "next", "reconcile"}, Steps(h, pc, wrec[h], queue[h]), pc # "desk" => wrec[h].granted
        PROVE  Goal
    <3>1. Lively(pc, wrec[h]) => Lively(wpc[h], wrec[h])
      BY <2>1, <2>4 DEF Lively
    <3>2. QED
      BY <1>1, <1>2, <1>5, <2>1, <2>2, <2>4, <3>1
  <2>5. QED
    BY <1>8, <2>3, <2>4, RouteGoes
<1>9. CASE WorkerDesk(h)
  <2>1. /\ Beside(h) /\ UNCHANGED <<call, aged, refreshDue>> /\ wpc[h] = "desk"
    BY <1>9, DeskGoes
  <2>2. PICK w \in Record : Same(w, wrec[h]) /\ Steps(h, "route", w, w)
    BY <1>4, <1>9, DeskGoes
  <2>3. ~Active(h)' /\ ppc[h] # "desk"
    BY <1>1, <2>1 DEF Active
  <2>4. (Lively("route", w) => Lively(wpc[h], wrec[h])) /\ w.latest = wrec[h].latest /\ w.pending = wrec[h].pending
    BY <2>1, <2>2 DEF Lively, Same, Rights
  <2>5. QED
    BY <1>1, <1>2, <1>5, <2>1, <2>2, <2>3, <2>4
<1>10. CASE Reconcile(h)
  <2>1. /\ Beside(h) /\ UNCHANGED <<call, aged, refreshDue>> /\ wpc[h] = "reconcile"
    BY <1>10, ReconcileGoes
  <2>2. ~Active(h)' /\ ppc[h] # "desk" /\ Lively(wpc[h], wrec[h])
    BY <1>1, <2>1 DEF Active, Lively
  <2>3. ASSUME NEW w \in Record, Answered(w, wrec[h], ~wrec[h].inFlight), Steps(h, "ackSync", w, queue[h]) PROVE Goal
    <3>1. w.latest = wrec[h].latest /\ w.pending = wrec[h].pending
      BY <2>3 DEF Answered, Rights
    <3>2. QED
      BY <1>1, <1>2, <1>5, <2>1, <2>2, <2>3, <3>1
  <2>4. ASSUME NEW w \in Record, Sending(w, wrec[h], TRUE), Steps(h, "reply", w, w) PROVE Goal
    <3>1. w.latest = wrec[h].latest /\ w.pending = wrec[h].pending
      BY <2>4 DEF Sending, Rights
    <3>2. QED
      BY <1>1, <1>2, <1>5, <2>1, <2>2, <2>4, <3>1
  <2>5. QED
    BY <1>4, <1>10, <2>3, <2>4, ReconcileGoes
<1>11. CASE Reply(h)
  <2>1. /\ Beside(h) /\ UNCHANGED <<call, aged, refreshDue>> /\ wpc[h] = "reply"
    BY <1>11, ReplyGoes
  <2>2. ~Active(h)' /\ ppc[h] # "desk" /\ Lively(wpc[h], wrec[h])
    BY <1>1, <2>1 DEF Active, Lively
  <2>3. PICK w \in Record : Answered(w, wrec[h], wrec[h].existing) /\ Steps(h, "ackSync", w, queue[h])
    BY <1>4, <1>11, ReplyGoes
  <2>4. w.latest = wrec[h].latest /\ w.pending = wrec[h].pending
    BY <2>3 DEF Answered, Rights
  <2>5. QED
    BY <1>1, <1>2, <1>5, <2>1, <2>2, <2>3, <2>4
<1>12. CASE Patch(h)
  <2>1. /\ Beside(h) /\ UNCHANGED <<aged, refreshDue>> /\ Steps(h, WaitOf[wpc[h]], wrec[h], queue[h])
        /\ \/ wpc[h] = "ackSync" /\ WaitOf[wpc[h]] = "ackWait" /\ Target(h) = "ACKNOWLEDGED"
           \/ wpc[h] = "boot" /\ WaitOf[wpc[h]] = "bootWait"
           \/ wpc[h] = "resume" /\ WaitOf[wpc[h]] = "resumeWait"
           \/ wpc[h] = "pend" /\ WaitOf[wpc[h]] = "pendWait"
        /\ \/ call'[h].step = "begin" /\ call'[h].to = Target(h) /\ Claimed(wrec[h].latest)
           \/ call'[h].step = "refused" /\ ~Claimed(wrec[h].latest)
    BY <1>4, <1>12, PatchGoes
  <2>a. Claimed(wrec[h].latest) => claimOwner = h /\ lease > 0
    BY CopiesOf DEF Claimed, HostKept, CopyKept
  <2>2. Lively(WaitOf[wpc[h]], wrec[h]) => Lively(wpc[h], wrec[h])
    BY <2>1 DEF Lively
  <2>3. Lively(wpc[h], wrec[h]) => Claimed(wrec[h].latest)
    BY <1>2, TicketAssumption DEF Claimed, Whole
  <2>4. ppc[h] # "desk"
    BY <1>1, <2>1
  <2>5. queue[h] # None /\ queue[h].pending = "IN_PROGRESS" => wrec[h].pending = "IN_PROGRESS"
    BY DEF ClaimKept
  <2>6. Active(h)' <=> call'[h].step \in {"begin", "read"}
    BY DEF Active
  <2>7. WaitOf[wpc[h]] = "pendWait" /\ wrec[h].pending = "IN_PROGRESS" => Lively(wpc[h], wrec[h])
    BY <2>1 DEF Lively
  <2>8. PICK pc : pc = WaitOf[wpc[h]]
    OBVIOUS
  <2>9. Goal
    BY <1>1, <1>2, <2>1, <2>2, <2>3, <2>4, <2>5, <2>6, <2>7, <2>8, <2>a, ClaimMoves DEF Goal
  <2>10. QED
    BY <2>9
<1>13. ASSUME NEW ok \in BOOLEAN, Ends(h, ok)
       PROVE  ~Active(h)' /\ call[h].step = (IF ok THEN "done" ELSE "refused")
  BY <1>4, <1>13 DEF Ends, Active, NoCall
<1>14. CASE AckDone(h)
  <2>1. /\ Beside(h) /\ UNCHANGED refreshDue /\ wpc[h] = "ackWait" /\ aged' \in {aged, aged \ {h}}
        /\ ~Active(h)'
    BY <1>13, <1>14, AckDoneGoes
  <2>2. PICK w \in Record : Same(w, wrec[h]) /\ Steps(h, "next", w, w)
    BY <1>14, AckDoneGoes
  <2>3. Lively(wpc[h], wrec[h]) /\ w.latest = wrec[h].latest /\ w.pending = wrec[h].pending /\ ppc[h] # "desk"
    BY <1>1, <2>1, <2>2 DEF Lively, Same, Rights
  <2>4. QED
    BY <1>1, <1>2, <1>5, <2>1, <2>2, <2>3
<1>15. CASE PendingApplied(h)
  <2>1. /\ Beside(h) /\ UNCHANGED refreshDue /\ wpc[h] \in {"resumeWait", "pendWait"} /\ aged' = aged \ {h}
        /\ ~Active(h)'
    BY <1>13, <1>15, AppliedGoes
  <2>2. ppc[h] # "desk" /\ (wrec[h].pending # "IN_PROGRESS" => queue[h].pending # "IN_PROGRESS")
    BY <1>1, <2>1 DEF ClaimKept
  <2>3. CASE wrec[h].pending # "IN_PROGRESS" /\ Steps(h, "unlink", NewRecord, queue[h])
    BY <1>1, <1>6, <2>1, <2>2, <2>3
  <2>4. ASSUME wrec[h].pending = "IN_PROGRESS", wpc[h] = "pendWait",
               NEW w \in Record, Recorded(w, wrec[h]), Steps(h, "start", w, w)
        PROVE  Goal
    <3>1. Lively(wpc[h], wrec[h]) /\ w.latest = wrec[h].latest /\ w.pending = "none"
      BY <2>4 DEF Lively, Recorded, Rights
    <3>2. QED
      BY <1>1, <1>2, <1>5, <2>1, <2>2, <2>4, <3>1
  <2>5. QED
    BY <1>1, <1>15, <2>3, <2>4, AppliedGoes
<1>16. CASE PendingWaits(h)
  <2>1. /\ Beside(h) /\ UNCHANGED refreshDue /\ wpc[h] \in {"resumeWait", "pendWait"}
        /\ aged' \in {aged, aged \ {h}} /\ ~Active(h)' /\ call[h].step = "refused"
    BY <1>4, <1>13, <1>16, WaitsGoes
  <2>2. PICK q \in Record : Same(q, wrec[h]) /\ Steps(h, "idle", NewRecord, q)
    BY <1>16, WaitsGoes
  <2>3. wrec[h].pending # "none" /\ ppc[h] # "desk"
    BY <1>1, <2>1 DEF MonitorInv, PassOK
  <2>4. wrec[h].pending # "IN_PROGRESS"
    BY <1>1, <1>2, <2>1
  <2>5. q.pending = wrec[h].pending
    BY <2>2 DEF Same
  <2>6. ~Lively("idle", NewRecord)
    BY DEF Lively
  <2>7. QED
    BY <1>1, <1>3, <1>5, <2>1, <2>2, <2>3, <2>4, <2>5, <2>6
<1>17. CASE Quarantine(h)
  <2>1. /\ Beside(h) /\ UNCHANGED refreshDue /\ wpc[h] = "bootWait" /\ aged' \in {aged, aged \ {h}}
        /\ Steps(h, "unlink", NewRecord, queue[h]) /\ ~Active(h)'
    BY <1>13, <1>17, QuarantineGoes
  <2>2. QED
    BY <1>1, <1>6, <2>1
<1>18. CASE AfterAck(h)
  <2>1. /\ Beside(h) /\ UNCHANGED <<call, aged, refreshDue>> /\ wpc[h] = "next"
    BY <1>18, AfterAckGoes
  <2>2. ~Active(h)' /\ ppc[h] # "desk" /\ Lively(wpc[h], wrec[h])
    BY <1>1, <2>1 DEF Active, Lively
  <2>3. CASE Steps(h, "unlink", NewRecord, queue[h])
    BY <1>1, <1>6, <2>1, <2>2, <2>3
  <2>4. ASSUME NEW w \in Record, Queued(w, wrec[h], "REJECTED"), Steps(h, "pend", w, w) PROVE Goal
    <3>1. w.pending = "REJECTED" /\ ~Lively("pend", w)
      BY <2>4 DEF Queued, Lively
    <3>2. QED
      BY <1>1, <1>5, <2>1, <2>2, <2>4, <3>1
  <2>5. ASSUME NEW w \in Record, Queued(w, wrec[h], "IN_PROGRESS"), Steps(h, "pend", w, w) PROVE Goal
    <3>1. w.pending = "IN_PROGRESS" /\ w.latest = wrec[h].latest
      BY <2>5 DEF Queued, Rights
    <3>2. Goal
      BY <1>1, <1>2, <2>1, <2>2, <2>5, <3>1, ClaimMoves DEF Goal
    <3>3. QED
      BY <3>2
  <2>6. ASSUME NEW w \in Record, Attempted(w, wrec[h]), Steps(h, "running", w, w) PROVE Goal
    <3>1. w.pending = wrec[h].pending /\ w.latest = wrec[h].latest /\ ~Lively("running", w)
      BY <2>6 DEF Attempted, Rights, Lively
    <3>2. claimOwner = h /\ lease = Lease
      BY <1>2, <2>2 DEF Whole
    <3>3. QED
      BY <1>1, <1>2, <1>5, <2>1, <2>2, <2>6, <3>1, <3>2
  <2>7. QED
    BY <1>18, <2>3, <2>4, <2>5, <2>6, AfterAckGoes
<1>19. CASE StartWorker(h)
  <2>1. /\ Beside(h) /\ UNCHANGED <<call, aged, refreshDue>> /\ wpc[h] = "start"
    BY <1>19, StartWorkerGoes
  <2>2. ~Active(h)' /\ ppc[h] # "desk" /\ Lively(wpc[h], wrec[h])
    BY <1>1, <2>1 DEF Active, Lively
  <2>3. CASE Steps(h, "unlink", NewRecord, queue[h])
    BY <1>1, <1>6, <2>1, <2>2, <2>3
  <2>4. ASSUME NEW w \in Record, Attempted(w, queue[h]), Steps(h, "running", w, w) PROVE Goal
    <3>1. w.pending = queue[h].pending /\ w.latest = queue[h].latest /\ ~Lively("running", w)
      BY <2>4 DEF Attempted, Rights, Lively
    <3>2. claimOwner = h /\ lease = Lease
      BY <1>2, <2>2 DEF Whole
    <3>3. QED
      BY <1>1, <1>2, <1>5, <2>1, <2>2, <2>4, <3>1, <3>2
  <2>5. QED
    BY <1>19, <2>3, <2>4, StartWorkerGoes
<1>20. ASSUME NEW ok \in BOOLEAN, CodexExit(h, ok) PROVE Goal
  <2>1. /\ Beside(h) /\ UNCHANGED <<call, aged>> /\ wpc[h] = "running" /\ refreshDue' = refreshDue \ {h}
    BY <1>2, <1>20, ExitGoes
  <2>2. ~Active(h)' /\ ppc[h] # "desk"
    BY <1>1, <2>1 DEF Active
  <2>3. CASE Steps(h, "idle", NewRecord, queue[h])
    <3>1. ~Lively("idle", NewRecord)
      BY DEF Lively
    <3>2. h \notin aged => Whole(h) /\ queue[h].latest
      BY <1>2, <2>1 DEF Whole
    <3>3. QED
      BY <1>1, <1>3, <1>5, <2>1, <2>2, <2>3, <3>1, <3>2
  <2>4. ASSUME NEW t \in {"WAITING_RELEASE", "BLOCKED"}, NEW w \in Record, Queued(w, queue[h], t), Steps(h, "pend", w, w)
        PROVE  Goal
    <3>1. w.pending = t /\ ~Lively("pend", w)
      BY <2>4 DEF Queued, Lively
    <3>2. QED
      BY <1>1, <1>5, <2>1, <2>2, <2>4, <3>1
  <2>5. QED
    BY <1>20, <2>3, <2>4, ExitGoes
<1>21. ASSUME NEW stale \in BOOLEAN, Boot(h, stale) PROVE Goal
  <2>1. /\ Beside(h) /\ UNCHANGED <<call, aged, refreshDue>> /\ wpc[h] = "down"
    BY <1>21, BootGoes
  <2>2. ~Active(h)' /\ ppc[h] # "desk"
    BY <1>1, <2>1 DEF Active
  <2>3. CASE Steps(h, "idle", wrec[h], queue[h])
    <3>1. ~Lively("idle", wrec[h])
      BY DEF Lively
    <3>2. h \notin aged /\ queue[h] # None /\ queue[h].granted /\ queue[h].pending = "none" => RestLive(h)
      BY <2>1 DEF RestLive
    <3>3. QED
      BY <1>1, <1>2, <1>5, <2>1, <2>2, <2>3, <3>1, <3>2
  <2>4. CASE Steps(h, "boot", queue[h], queue[h]) /\ queue[h] # None
    <3>1. ~Lively("boot", queue[h])
      BY DEF Lively
    <3>2. QED
      BY <1>1, <1>5, <2>1, <2>2, <2>4, <3>1
  <2>5. CASE Steps(h, "unlink", NewRecord, queue[h]) /\ queue[h] # None
    BY <1>1, <1>6, <2>1, <2>2, <2>5
  <2>6. QED
    BY <1>21, <2>3, <2>4, <2>5, BootGoes
<1>22. CASE Unlink(h)
  <2>1. /\ Beside(h) /\ UNCHANGED <<call, refreshDue>> /\ wpc[h] = "unlink"
        /\ aged' = aged \ {h} /\ Steps(h, "idle", wrec[h], None)
    BY <1>22, UnlinkGoes
  <2>2. ~Active(h)' /\ ppc[h] # "desk" /\ ~Lively("idle", wrec[h])
    BY <1>1, <2>1 DEF Active, Lively
  <2>3. QED
    BY <1>1, <1>5, <2>1, <2>2
<1>23. QED
  BY <1>7, <1>8, <1>9, <1>10, <1>11, <1>12, <1>14, <1>15, <1>16, <1>17, <1>18, <1>19, <1>20, <1>21, <1>22
     DEF WorkerStep

\* A grant to h: none of its fellows had the claim, so none of them may start Codex.
LEMMA ClaimFellows ==
  ASSUME TicketInv, MonitorInv, \A g \in Hosts : ClaimKept(g), Lease > 1, NEW h \in Hosts, Intake(h), Fellows(h),
         UNCHANGED refreshDue \/ refreshDue' = refreshDue \ {h},
         \A g \in Hosts \ {h} : ppc'[g] = ppc[g], aged' = aged \ {h}
  PROVE  /\ \A g \in Hosts \ {h} : ClaimKept(g)'
         /\ Grantable(h) => Whole(h)' /\ status' # None
         /\ ~Grantable(h) => UNCHANGED <<status, claimOwner, lease>>
         /\ call' = call
<1>1. /\ lease \in Nat /\ Lease \in Nat /\ None \notin Hosts /\ None # "RECEIVED"
      /\ Grantable(h) => /\ claimOwner' = h /\ lease' = Lease
                         /\ status' = IF status = None THEN "RECEIVED" ELSE status
      /\ ~Grantable(h) => UNCHANGED <<status, claimOwner, lease>>
      /\ call' = call
  BY TicketAssumption, StatusNames DEF Intake, TicketInv, TicketTypeOK, claimVars
<1>2. Grantable(h) => Whole(h)' /\ status' # None
  BY <1>1 DEF Whole
<1>3. ASSUME ~Grantable(h), NEW g \in Hosts \ {h} PROVE ClaimKept(g)'
  <2>1. /\ wpc'[g] = wpc[g] /\ wrec'[g] = wrec[g] /\ prec'[g] = prec[g] /\ queue'[g] = queue[g]
        /\ g \in aged' <=> g \in aged
        /\ g \in refreshDue' <=> g \in refreshDue
    BY <1>3 DEF Fellows
  <2>2. QED
    BY <1>1, <1>3, <2>1, ClaimStays
<1>4. ASSUME Grantable(h), NEW g \in Hosts \ {h} PROVE ClaimKept(g)'
  <2>1. Apart(g)
    BY FellowsApart
  <2>2. (PassLive(g)' => PassLive(g)) /\ (RestLive(g)' => RestLive(g)) /\ (PollLive(g)' => PollLive(g))
    BY <2>1, ApartIsLive
  <2>3. ~(claimOwner = g /\ lease > 0)
    BY <1>1, <1>4 DEF ClaimKept, Grantable
  <2>4. /\ ~PassLive(g) /\ ~RestLive(g) /\ ~PollLive(g) /\ ~At(g, "running")
        /\ call[g].step \notin {"begin", "read"}
    BY <1>1, <2>3 DEF ClaimKept, Whole
  <2>5. /\ wpc'[g] = wpc[g] /\ wrec'[g].pending = wrec[g].pending
        /\ queue'[g] # None => queue[g] # None /\ queue'[g].pending = queue[g].pending
    BY <2>1 DEF Apart, Outlives, FileOutlives
  <2>6. QED
    BY <1>1, <1>4, <2>2, <2>4, <2>5 DEF ClaimKept, At
<1>5. QED
  BY <1>1, <1>2, <1>3, <1>4

\* The worker asks for the claim, or renews it.
LEMMA ClaimIntake ==
  ASSUME TicketInv, MonitorInv, RunsInv, \A g \in Hosts : HostKept(g), \A g \in Hosts : ClaimKept(g),
         Lease > 1, faults' = faults, NEW h \in Hosts, WorkerIntake(h) \/ Refresh(h)
  PROVE  \A g \in Hosts : ClaimKept(g)'
<1>1. /\ wrec[h].pending # "IN_PROGRESS" /\ ppc[h] # "desk" /\ ~Active(h) /\ wpc[h] \in {"intake", "running"}
  BY ClaimFacts DEF WorkerIntake, Refresh, At
<1>2. Refresh(h) => Grantable(h) /\ wpc[h] = "running"
  <2>1. At(h, "running") => claimOwner = h /\ status # None /\ h # None
    BY TicketAssumption DEF ClaimKept
  <2>2. At(h, "running") => status \notin TERMINAL_STATUSES
    BY <2>1 DEF TicketInv, SettledTicket
  <2>3. QED
    BY <2>1, <2>2 DEF Grantable, Refresh, At
<1>3. PICK pc \in {"route", "running"} :
        /\ WorkerTakes(h) /\ Goto(h, pc) /\ UNCHANGED ppc /\ (pc = "running" => Grantable(h))
        /\ UNCHANGED refreshDue \/ refreshDue' = refreshDue \ {h}
  BY <1>2, NoFault DEF WorkerIntake, Refresh, IntakeUnanswered
<1>4. /\ Intake(h) /\ aged' = aged \ {h} /\ Fellows(h) /\ wpc'[h] = pc
  BY <1>3, TakesGoes
<1>5. PICK t : Taken(h, t, wrec[h]) /\ wrec'[h] = t /\ queue'[h] = t
  BY <1>3, TakesGoes
<1>6. /\ \A g \in Hosts \ {h} : ClaimKept(g)'
      /\ Grantable(h) => Whole(h)' /\ status' # None
      /\ ~Grantable(h) => UNCHANGED <<status, claimOwner, lease>>
      /\ call' = call
  BY <1>3, <1>4, ClaimFellows
<1>7. t.granted = Grantable(h) /\ t.latest = Grantable(h) /\ t.pending # "IN_PROGRESS"
  BY <1>1, <1>5 DEF Taken
<1>8. /\ PassLive(h)' => Grantable(h)
      /\ ~RestLive(h)' /\ ~PollLive(h)'
  BY <1>1, <1>3, <1>4, <1>5, <1>7 DEF PassLive, RestLive, PollLive
<1>9. ~Active(h)' /\ h \notin aged'
  BY <1>1, <1>4, <1>6 DEF Active
<1>10. \A p : At(h, p)' <=> pc = p
  BY <1>4 DEF At
<1>11. claimOwner' = h => status' # None
  BY <1>6 DEF ClaimKept
<1>12. Grantable(h) => claimOwner' = h /\ lease' = Lease
  BY <1>6 DEF Whole
<1>13. ClaimKept(h)'
  BY <1>3, <1>4, <1>5, <1>6, <1>7, <1>8, <1>9, <1>10, <1>11, <1>12 DEF ClaimKept, Active
<1>14. QED
  BY <1>6, <1>13

\* The poll thread without a disturbance.
LEMMA ClaimPoll ==
  ASSUME TicketInv, MonitorInv, RunsInv, \A g \in Hosts : HostKept(g), \A g \in Hosts : ClaimKept(g),
         Lease > 1, faults' = faults, NEW h \in Hosts, PollStep(h)
  PROVE  \A g \in Hosts : ClaimKept(g)'
<1>1. /\ ppc \in [Hosts -> {"watch", "intake", "desk", "idle"}]
      /\ wrec \in [Hosts -> Record] /\ prec \in [Hosts -> Record] /\ queue \in [Hosts -> Record \cup {None}]
      /\ NewRecord.pending = "none" /\ ~NewRecord.granted /\ NewRecord \in Record
  BY NewIsBlank DEF Blank, Unmarked, MonitorInv, MonitorTypeOK
<1>2. /\ wpc[h] \in {"idle", "down"} /\ wrec[h].pending # "IN_PROGRESS" /\ prec[h].pending # "IN_PROGRESS" /\ ~Active(h)
      /\ queue[h] # None => queue[h].pending # "IN_PROGRESS"
      /\ ppc[h] \in {"intake", "desk"} => wpc[h] = "idle"
  <2>1. wpc[h] \in {"idle", "down"}
    BY DEF PollStep, PollIntake, PollDesk, Watch, HostKept, ThreadsKept
  <2>2. QED
    BY <2>1, ClaimFacts
<1>3. ASSUME NEW q, UNCHANGED <<wpc, wrec, aged, refreshDue, status, claimOwner, lease, call>>,
             queue'[h] = q, q # None => q.pending # "IN_PROGRESS", ppc'[h] # "desk",
             q # None /\ q.granted /\ q.pending = "none" /\ h \notin aged => Whole(h) /\ q.latest,
             \A g \in Hosts \ {h} : ppc'[g] = ppc[g] /\ prec'[g] = prec[g] /\ queue'[g] = queue[g]
      PROVE  \A g \in Hosts : ClaimKept(g)'
  <2>1. \A g \in Hosts \ {h} : ClaimKept(g)'
    BY <1>3, ClaimStays
  <2>2. ~PassLive(h)' /\ ~PollLive(h)' /\ (Whole(h)' <=> Whole(h)) /\ ~Active(h)'
    BY <1>2, <1>3 DEF PassLive, PollLive, Whole, Active
  <2>3. RestLive(h)' => Whole(h) /\ q.latest
    BY <1>3 DEF RestLive
  <2>4. \A p : At(h, p)' => p \in {"idle", "down"}
    BY <1>2, <1>3 DEF At
  <2>5. claimOwner = h => status # None
    BY DEF ClaimKept
  <2>6. ClaimKept(h)'
    BY <1>2, <1>3, <2>2, <2>3, <2>4, <2>5 DEF ClaimKept, Active
  <2>7. QED
    BY <2>1, <2>6
<1>4. ASSUME NEW stale \in BOOLEAN, Watch(h, stale) PROVE \A g \in Hosts : ClaimKept(g)'
  <2>1. /\ UNCHANGED <<wpc, wrec, prec, aged, refreshDue, status, claimOwner, lease, call>>
        /\ queue' \in {queue, [queue EXCEPT ![h] = NewRecord]} /\ ppc[h] = "watch"
        /\ \E pc \in {"idle", "intake"} : ppc' = [ppc EXCEPT ![h] = pc]
    BY <1>4 DEF Watch, ticketVars, claimVars
  <2>2. queue[h] = None
    BY <2>1 DEF HostKept, ThreadsKept
  <2>3. /\ ppc'[h] # "desk" /\ queue'[h] \in {None, NewRecord}
        /\ \A g \in Hosts \ {h} : queue'[g] = queue[g] /\ ppc'[g] = ppc[g]
    BY <1>1, <2>1, <2>2
  <2>4. PICK q : q = queue'[h]
    OBVIOUS
  <2>5. QED
    BY <1>1, <1>3, <2>1, <2>3, <2>4
<1>5. CASE PollDesk(h)
  <2>1. PICK d \in {"task", "fingerprint"} : queue' = [queue EXCEPT ![h] = [prec[h] EXCEPT !.desk = d]]
    BY <1>5, NoFault DEF PollDesk
  <2>2. /\ UNCHANGED <<wpc, wrec, aged, refreshDue, status, claimOwner, lease, call>> /\ ppc[h] = "desk"
        /\ ppc' = [ppc EXCEPT ![h] = "idle"] /\ prec' = [prec EXCEPT ![h] = NewRecord]
    BY <1>5 DEF PollDesk, ticketVars, claimVars
  <2>3. PICK q : q = [prec[h] EXCEPT !.desk = d]
    OBVIOUS
  <2>4. q.granted = prec[h].granted /\ q.latest = prec[h].latest /\ q.pending = prec[h].pending
    <3>1. Same(q, prec[h])
      BY <1>1, <2>3, EditsAre
    <3>2. QED
      BY <3>1 DEF Same, Rights
  <2>5. /\ ppc'[h] = "idle" /\ queue'[h] = q
        /\ \A g \in Hosts \ {h} : queue'[g] = queue[g] /\ ppc'[g] = ppc[g] /\ prec'[g] = prec[g]
    BY <1>1, <2>1, <2>2, <2>3
  <2>6. q.granted => Whole(h) /\ q.latest
    BY <2>2, <2>4 DEF ClaimKept, PollLive
  <2>7. QED
    BY <1>2, <1>3, <2>2, <2>4, <2>5, <2>6
<1>6. CASE PollIntake(h)
  <2>1. /\ Intake(h) /\ aged' = aged \ {h} /\ UNCHANGED <<wpc, refreshDue>> /\ ppc' = [ppc EXCEPT ![h] = "desk"]
        /\ prec' = [AfterIntake(h, prec) EXCEPT ![h] = TakeIntake(h, NewRecord)] /\ ppc[h] = "intake"
        /\ wrec' = AfterIntake(h, wrec) /\ queue' = [AfterIntake(h, queue) EXCEPT ![h] = prec'[h]]
    BY <1>6, NoFault DEF PollIntake, IntakeUnanswered
  <2>2. Fellows(h) /\ Outlives(wrec'[h], wrec[h])
    BY <2>1, PollTakesGoes
  <2>3. PICK t : Taken(h, t, NewRecord) /\ prec'[h] = t /\ queue'[h] = t
    BY <2>1, PollTakesGoes
  <2>4. \A g \in Hosts \ {h} : ppc'[g] = ppc[g]
    BY <1>1, <2>1
  <2>5. /\ \A g \in Hosts \ {h} : ClaimKept(g)'
        /\ Grantable(h) => Whole(h)' /\ status' # None
        /\ ~Grantable(h) => UNCHANGED <<status, claimOwner, lease>>
        /\ call' = call
    BY <2>1, <2>2, <2>4, ClaimFellows
  <2>6. t.granted = Grantable(h) /\ t.latest = Grantable(h) /\ t.pending = "none" /\ wrec'[h].pending # "IN_PROGRESS"
    BY <1>1, <1>2, <2>2, <2>3 DEF Taken, Outlives
  <2>7. wpc'[h] = "idle" /\ ~PassLive(h)' /\ ~Active(h)' /\ h \notin aged'
    BY <1>2, <2>1, <2>5 DEF PassLive, Active
  <2>8. (RestLive(h)' => Grantable(h)) /\ (PollLive(h)' => Grantable(h))
    BY <2>3, <2>6 DEF RestLive, PollLive
  <2>9. \A p : At(h, p)' <=> p = "idle"
    BY <2>7 DEF At
  <2>10. claimOwner' = h => status' # None
    BY <2>5 DEF ClaimKept
  <2>11. ClaimKept(h)'
    BY <2>3, <2>5, <2>6, <2>7, <2>8, <2>9, <2>10 DEF ClaimKept, Active
  <2>12. QED
    BY <2>5, <2>11
<1>7. QED
  BY <1>4, <1>5, <1>6 DEF PollStep

\* Control without a disturbance: a transition of the claim's owner leaves the claim to whoever needs it.
LEMMA ClaimWrites ==
  ASSUME TicketInv, MonitorInv, \A g \in Hosts : HostKept(g), \A g \in Hosts : ClaimKept(g),
         Lease > 1, NEW h \in Hosts, TransitionWrites(h)
  PROVE  \A g \in Hosts : ClaimKept(g)'
<1>1. /\ UNCHANGED <<wpc, wrec, ppc, prec, queue, aged, refreshDue>>
      /\ call[h].step = "read" /\ status' = call[h].to
      /\ call' = [call EXCEPT ![h] = [NoCall EXCEPT !.step = "done"]]
      /\ Unclaims(call[h].to) \/ UNCHANGED <<claimOwner, lease>>
      /\ Unclaims(call[h].to) => claimOwner' = None
  BY DEF TransitionWrites, TxWrite, workVars, claimVars
<1>2. call \in [Callers -> Call] /\ Hosts \subseteq Callers /\ None \notin Hosts /\ None \notin Status
  BY TicketAssumption DEF TicketInv, TicketTypeOK, Callers
<1>3. /\ \A g \in Hosts \ {h} : call'[g] = call[g]
      /\ call'[h] = [NoCall EXCEPT !.step = "done"]
  BY <1>1, <1>2
<1>4. call'[h].step = "done" /\ status' # None
  BY <1>1, <1>2, <1>3 DEF NoCall, Call
<1>5. /\ claimOwner = h /\ (wpc[h] = "pendWait" => call[h].to = wrec[h].pending)
      /\ wpc[h] \in {"ackWait", "bootWait", "resumeWait", "pendWait"}
      /\ wpc[h] = "ackWait" => call[h].to = "ACKNOWLEDGED"
      /\ ppc[h] # "desk"
  BY <1>1 DEF HostKept, RequestKept, Awaited, Active, ThreadsKept, ClaimKept, At
<1>6. \A g \in Hosts : /\ (PassLive(g)' <=> PassLive(g)) /\ (RestLive(g)' <=> RestLive(g))
                       /\ (PollLive(g)' <=> PollLive(g)) /\ \A pc : At(g, pc)' <=> At(g, pc)
  BY <1>1 DEF PassLive, RestLive, PollLive, At
<1>7. ~RestLive(h) /\ ~PollLive(h) /\ ~At(h, "running")
  BY <1>5 DEF RestLive, PollLive, At
<1>8. PassLive(h) => ~Unclaims(call[h].to)
  BY <1>5 DEF PassLive, Unclaims, TERMINAL_STATUSES
<1>9. ClaimKept(h)'
  <2>1. Whole(h) /\ ~Unclaims(call[h].to) => Whole(h)'
    BY <1>1 DEF Whole
  <2>2. PassLive(h) => Whole(h)'
    BY <1>8, <2>1 DEF ClaimKept
  <2>3. QED
    BY <1>1, <1>4, <1>6, <1>7, <2>2 DEF ClaimKept
<1>10. ASSUME NEW g \in Hosts \ {h} PROVE ClaimKept(g)'
  <2>1. /\ ~PassLive(g) /\ ~RestLive(g) /\ ~PollLive(g) /\ ~At(g, "running") /\ claimOwner' # g
        /\ call[g].step \notin {"begin", "read"}
    BY <1>1, <1>2, <1>5 DEF ClaimKept, Whole
  <2>2. QED
    BY <1>1, <1>3, <1>4, <1>6, <2>1 DEF ClaimKept
<1>11. QED
  BY <1>9, <1>10

\* Control's other steps, time, and a foreground reply keep ClaimKept.
LEMMA ClaimWorld ==
  ASSUME TicketInv, MonitorInv, \A g \in Hosts : HostKept(g), \A g \in Hosts : ClaimKept(g),
         \A o \in Operators : call[o] = NoCall, NothingLate, Lease > 1, UNCHANGED updates, [MonitorNext]_monitorVars,
         ~\E h \in Hosts : WorkerStep(h) \/ PollStep(h) \/ Crash(h)
  PROVE  \A g \in Hosts : ClaimKept(g)'
<1>1. /\ call \in [Callers -> Call] /\ Hosts \subseteq Callers /\ updates \in Nat /\ Lease \in Nat
      /\ lease \in Nat /\ NoCall.step = "idle"
  BY TicketAssumption DEF TicketInv, TicketTypeOK, MonitorInv, MonitorTypeOK, NoCall, Callers
<1>2. ASSUME NEW h \in Hosts, UNCHANGED <<workVars, status, claimOwner, lease>>,
             \A g \in Hosts \ {h} : call'[g] = call[g],
             call'[h].step = "read" => Active(h) /\ call'[h].to = call[h].to,
             At(h, "pendWait") /\ wrec[h].pending = "IN_PROGRESS" => call'[h].step \in {"begin", "read", "done"},
             call'[h].step # "begin"
      PROVE  \A g \in Hosts : ClaimKept(g)'
  <2>1. \A g \in Hosts \ {h} : ClaimKept(g)'
    BY <1>2, ClaimStays DEF workVars
  <2>2. /\ (PassLive(h)' <=> PassLive(h)) /\ (RestLive(h)' <=> RestLive(h)) /\ (Whole(h)' <=> Whole(h))
        /\ (PollLive(h)' <=> PollLive(h)) /\ \A pc : At(h, pc)' <=> At(h, pc)
    BY <1>2 DEF PassLive, RestLive, PollLive, At, workVars, Whole
  <2>3. ClaimKept(h)'
    BY <1>2, <2>2 DEF ClaimKept, Active, workVars
  <2>4. QED
    BY <2>1, <2>3
<1>4. ASSUME NEW h \in Hosts, TransitionReads(h, TRUE) PROVE \A g \in Hosts : ClaimKept(g)'
  <2>1. /\ UNCHANGED <<workVars, status, claimOwner, lease>> /\ call[h].step = "begin" /\ status # None
        /\ \A g \in Hosts \ {h} : call'[g] = call[g]
        /\ call'[h] = IF Valid(h, TRUE) THEN [call[h] EXCEPT !.step = "read", !.from = status, !.fix = FixAfter(h)]
                      ELSE [NoCall EXCEPT !.step = "refused"]
    BY <1>1, <1>4 DEF TransitionReads, TxRead, claimVars, TicketInv, CallsAreChecked
  <2>2. call[h] \in Call /\ status \in Status
    BY <1>1, <2>1 DEF TicketInv, TicketTypeOK
  <2>3. \/ call'[h].step = "read" /\ call'[h].to = call[h].to
        \/ call'[h].step = "refused" /\ ~Valid(h, TRUE)
    BY <2>1, <2>2 DEF Call, NoCall
  <2>4. call[h].to = "IN_PROGRESS" => Valid(h, TRUE)
    BY <2>2 DEF Valid, Status, ALLOWED_TRANSITIONS
  <2>5. At(h, "pendWait") /\ wrec[h].pending = "IN_PROGRESS" => call[h].to = "IN_PROGRESS"
    BY <2>1 DEF HostKept, RequestKept, Awaited, Active, At
  <2>6. QED
    BY <1>2, <2>1, <2>3, <2>4, <2>5 DEF Active
<1>3. \A h \in Hosts : ~LateIntake(h)
  BY DEF LateIntake, NothingLate
<1>5. ASSUME NEW o \in Operators \cup Late
      PROVE  ~RequestReturns(o) /\ ~TransitionWrites(o) /\ \A note \in BOOLEAN : ~TransitionReads(o, note)
  <2>1. call[o].step = "idle"
    BY <1>1 DEF NothingLate
  <2>2. QED
    BY <2>1 DEF RequestReturns, Returns, TransitionWrites, TxWrite, TransitionReads, TxRead
<1>6. \A o \in Operators, u \in Updates : ~OperatorUpdates(o, u)
  BY <1>1 DEF OperatorUpdates
<1>7. CASE Tick
  <2>1. /\ UNCHANGED <<wpc, wrec, ppc, prec, queue, status, claimOwner, call>>
        /\ aged' = {h \in Hosts : queue[h] # None} /\ refreshDue = {} /\ refreshDue' = {h \in Hosts : At(h, "running")}
        /\ lease' = IF lease = 0 THEN 0 ELSE lease - 1
        /\ \A h \in Hosts : wpc[h] \in {"idle", "running", "down"} /\ ppc[h] \in {"watch", "idle"}
        /\ \A h \in Hosts : call[h].step = "idle"
    BY <1>1, <1>7 DEF Tick, LeaseTick
  <2>2. ASSUME NEW h \in Hosts PROVE ClaimKept(h)'
    <3>1. ~PassLive(h)' /\ ~RestLive(h)' /\ ~PollLive(h)' /\ \A pc : At(h, pc)' <=> At(h, pc)
      BY <2>1 DEF PassLive, RestLive, PollLive, At
    <3>2. At(h, "running") => claimOwner = h /\ queue[h].latest /\ lease = Lease
      BY <2>1 DEF ClaimKept
    <3>3. At(h, "running") => h \in aged' \cap refreshDue' /\ lease' + 1 = Lease
      BY <1>1, <2>1, <3>2 DEF MonitorInv, PassOK, At
    <3>4. QED
      BY <2>1, <3>1, <3>2, <3>3 DEF ClaimKept
  <2>3. QED
    BY <2>2
<1>8. CASE ForegroundReplies \/ UNCHANGED monitorVars
  <2>1. UNCHANGED <<wpc, wrec, ppc, prec, queue, aged, refreshDue, status, claimOwner, lease, call>>
    BY <1>8 DEF ForegroundReplies, monitorVars, workVars, ticketVars, claimVars
  <2>2. QED
    BY <2>1, ClaimStays
<1>9. QED
  BY <1>3, <1>4, <1>5, <1>6, <1>7, <1>8, ClaimWrites DEF MonitorNext, Callers

\* Every step that disturbs nothing.
LEMMA ClaimNext ==
  ASSUME TicketInv, MonitorInv, RunsInv, FinalInv, NothingLate, updates = 0, overlaps = 0, \A g \in Hosts : ClaimKept(g),
         Lease > 1, UNCHANGED boundVars, [MonitorNext]_monitorVars
  PROVE  \A g \in Hosts : ClaimKept(g)'
<1>1. (\A o \in Operators : call[o] = NoCall) /\ \A g \in Hosts : HostKept(g)
  BY DEF FinalInv, NothingLate
<1>2. UNCHANGED <<faults, crashes, updates, overlaps>> /\ crashes \in Nat
  BY DEF boundVars, MonitorInv, MonitorTypeOK
<1>3. \A h \in Hosts : ~Crash(h)
  BY <1>2 DEF Crash
<1>4. ASSUME NEW h \in Hosts, WorkerStep(h) PROVE \A g \in Hosts : ClaimKept(g)'
  BY <1>1, <1>2, <1>4, ClaimWork, ClaimIntake
<1>5. ASSUME NEW h \in Hosts, PollStep(h) PROVE \A g \in Hosts : ClaimKept(g)'
  BY <1>1, <1>2, <1>5, ClaimPoll
<1>6. QED
  BY <1>1, <1>2, <1>3, <1>4, <1>5, ClaimWorld

\* The send fails, or the process dies while it sends: the claim it was sent with is still there.
LEMMA ClaimSend ==
  ASSUME TicketInv, MonitorInv, RunsInv, FinalInv, NothingLate, updates = 0, overlaps = 0, \A g \in Hosts : ClaimKept(g),
         NEW h \in Hosts, At(h, "reply"), Crash(h) \/ (Reply(h) /\ Fault)
  PROVE  NothingLate' /\ \A g \in Hosts : ClaimKept(g)'
<1>1. \A g \in Hosts : HostKept(g)
  BY DEF FinalInv, NothingLate
<1>2. /\ wrec[h].pending # "IN_PROGRESS" /\ queue[h] # None /\ queue[h].pending # "IN_PROGRESS"
      /\ ppc[h] # "desk" /\ ~Active(h) /\ wpc[h] = "reply"
  BY <1>1, ClaimFacts DEF At
<1>3. Whole(h) /\ wrec[h].latest /\ queue[h].latest
  BY <1>2 DEF ClaimKept, PassLive
<1>4. NewRecord.pending = "none" /\ ~Lively("idle", NewRecord) /\ ~Lively("down", NewRecord)
  BY NewIsBlank DEF Blank, Unmarked, Lively
<1>5. ASSUME Reply(h) /\ Fault PROVE \A g \in Hosts : ClaimKept(g)'
  <2>1. Beside(h) /\ UNCHANGED <<call, aged, refreshDue>>
    BY <1>5, ReplyGoes
  <2>2. ~Active(h)'
    BY <1>2, <2>1 DEF Active
  <2>3. ASSUME NEW q, Steps(h, "idle", NewRecord, q), q.latest, q.pending # "IN_PROGRESS"
        PROVE  \A g \in Hosts : ClaimKept(g)'
    BY <1>2, <1>3, <1>4, <2>1, <2>2, <2>3, ClaimMoves
  <2>4. CASE Steps(h, "idle", NewRecord, queue[h])
    BY <1>2, <1>3, <2>3, <2>4
  <2>5. ASSUME NEW q \in Record, Sending(q, wrec[h], FALSE), Steps(h, "idle", NewRecord, q)
        PROVE  \A g \in Hosts : ClaimKept(g)'
    <3>1. q.latest = wrec[h].latest /\ q.pending = wrec[h].pending
      BY <2>5 DEF Sending, Rights
    <3>2. QED
      BY <1>2, <1>3, <2>3, <2>5, <3>1
  <2>6. ~UNCHANGED boundVars \/ ~Fault
    BY DEF boundVars, Fault, MonitorInv, MonitorTypeOK
  <2>7. QED
    BY <1>5, <2>4, <2>5, <2>6, ReplyGoes
<1>6. ASSUME Crash(h) PROVE \A g \in Hosts : ClaimKept(g)'
  <2>1. /\ UNCHANGED <<status, claimOwner, lease, aged>> /\ Steps(h, "down", NewRecord, queue[h])
        /\ call'[h] = NoCall /\ \A g \in Hosts \ {h} : call'[g] = call[g]
        /\ \A g \in Hosts \ {h} : ppc'[g] = ppc[g] /\ prec'[g] = prec[g] /\ (g \in refreshDue' <=> g \in refreshDue)
        /\ ppc'[h] # "desk"
    BY <1>6, CrashGoes
  <2>2. \A g \in Hosts \ {h} : ClaimKept(g)'
    BY <2>1, ClaimStays DEF Steps
  <2>3. /\ wpc'[h] = "down" /\ wrec'[h] = NewRecord /\ queue'[h] = queue[h]
    BY <2>1 DEF Steps
  <2>4. ~PassLive(h)' /\ ~PollLive(h)' /\ Whole(h)' /\ ~Active(h)' /\ \A p : At(h, p)' => p = "down"
    BY <1>2, <1>3, <1>4, <2>1, <2>3 DEF PassLive, PollLive, Whole, Active, At, NoCall
  <2>5. claimOwner' = h => status' # None
    BY <2>1 DEF ClaimKept
  <2>6. ClaimKept(h)'
    BY <1>2, <1>3, <1>4, <2>3, <2>4, <2>5 DEF ClaimKept, Active
  <2>7. QED
    BY <2>2, <2>6
<1>7. NothingLate'
  <2>1. /\ call \in [Callers -> Call] /\ h \in Callers /\ h \notin Late /\ Late \subseteq Callers
    BY TicketAssumption DEF TicketInv, TicketTypeOK, Callers, Late
  <2>2. delayed' = delayed /\ takenBack' = takenBack
    BY DEF Crash, Reply, worldVars, threadVars
  <2>3. call' = call \/ call' = [call EXCEPT ![h] = NoCall]
    BY <1>2 DEF Crash, Reply, Abandon, Active, ticketVars
  <2>4. \A l \in Late : call'[l] = call[l]
    BY <2>1, <2>3
  <2>5. QED
    BY <2>2, <2>4 DEF NothingLate
<1>8. QED
  BY <1>5, <1>6, <1>7

-----------------------------------------------------------------------------
(***************************************************************************)
(* One owner, one claim: one worker.                                       *)
(***************************************************************************)

\* A worker leaves the reply by sending it, or by dying.
LEMMA ReplyLeft ==
  ASSUME MonitorInv, [MonitorNext]_monitorVars, NEW g \in Hosts, At(g, "reply"), ~At(g, "reply")'
  PROVE  Reply(g) \/ Crash(g)
<1> USE DEF At, Goto, Save, Forget, Pause, Archive, Queue, Run
<1>0. wpc \in [Hosts -> WorkerSteps]
  BY DEF MonitorInv, MonitorTypeOK
<1>1. ASSUME NEW h \in Hosts, WorkerStep(h), ~Reply(h)
      PROVE  wpc[h] # "reply" /\ \E pc : wpc' = [wpc EXCEPT ![h] = pc]
  <2>1. CASE Patch(h)
    BY <2>1 DEF Patch, WaitOf
  <2>2. CASE StartPass(h) \/ WorkerIntake(h) \/ Route(h) \/ WorkerDesk(h) \/ Unlink(h) \/ Quarantine(h) \/ Reconcile(h)
    BY <2>2 DEF StartPass, WorkerIntake, Route, WorkerDesk, Unlink, Quarantine, Reconcile
  <2>3. CASE AckDone(h) \/ PendingApplied(h) \/ PendingWaits(h) \/ AfterAck(h) \/ StartWorker(h) \/ Refresh(h)
    BY <2>3 DEF AckDone, PendingApplied, PendingWaits, AfterAck, StartWorker, Refresh
  <2>4. CASE (\E ok \in BOOLEAN : CodexExit(h, ok)) \/ \E stale \in BOOLEAN : Boot(h, stale)
    BY <2>4 DEF CodexExit, Boot
  <2>5. QED
    BY <1>1, <2>1, <2>2, <2>3, <2>4 DEF WorkerStep
<1>2. ASSUME NEW h \in Hosts, WorkerStep(h) PROVE Reply(g)
  <2>1. CASE Reply(h)
    BY <1>0, <2>1 DEF Reply
  <2>2. CASE ~Reply(h)
    BY <1>0, <1>1, <1>2, <2>2
  <2>3. QED
    BY <2>1, <2>2
<1>3. ASSUME NEW h \in Hosts, Crash(h) PROVE Crash(g)
  BY <1>0, <1>3 DEF Crash
<1>4. \A h \in Hosts : ~PollStep(h)
  BY DEF PollStep, Watch, PollIntake, PollDesk
<1>5. QED
  BY <1>2, <1>3, <1>4 DEF MonitorNext, LateIntake, RequestReturns, TransitionReads, TransitionWrites, OperatorUpdates,
     ForegroundReplies, Tick, workVars, monitorVars

\* How many disturbances there have been, and what one at most of them means.
LEMMA FewDisturbances ==
  ASSUME MonitorInv, [MonitorNext]_monitorVars, Disturbed' <= 1
  PROVE  /\ Disturbed \in Nat /\ Disturbed' \in Nat /\ Disturbed <= Disturbed'
         /\ updates = 0 \/ (updates = 1 /\ faults + crashes + overlaps = 0)
         /\ Disturbed = Disturbed' => UNCHANGED boundVars
         /\ faults' = faults + 1 \/ crashes' = crashes + 1 =>
              updates = 0 /\ overlaps = 0 /\ updates' = 0 /\ overlaps' = 0 /\ Disturbed = 0
         /\ Disturbed = 0 => faults = 0 /\ crashes = 0 /\ updates = 0 /\ overlaps = 0
<1>1. /\ faults \in Nat /\ crashes \in Nat /\ updates \in Nat /\ overlaps \in Nat
      /\ faults' \in {faults, faults + 1} /\ crashes' \in {crashes, crashes + 1}
      /\ updates' \in {updates, updates + 1} /\ overlaps' \in {overlaps, overlaps + 1}
  BY BoundsGrow
<1>2. \A f, c, u, o, f1, c1, u1, o1 \in Nat :
        /\ f1 \in {f, f + 1} /\ c1 \in {c, c + 1} /\ u1 \in {u, u + 1} /\ o1 \in {o, o + 1}
        /\ f1 + c1 + u1 + o1 <= 1
        => /\ f + c + u + o \in Nat /\ f1 + c1 + u1 + o1 \in Nat
           /\ f + c + u + o <= f1 + c1 + u1 + o1
           /\ u = 0 \/ (u = 1 /\ f + c + o = 0)
           /\ f + c + u + o = f1 + c1 + u1 + o1 => f1 = f /\ c1 = c /\ u1 = u /\ o1 = o
           /\ f1 = f + 1 \/ c1 = c + 1 => u = 0 /\ o = 0 /\ u1 = 0 /\ o1 = 0 /\ f + c + u + o = 0
           /\ f + c + u + o = 0 => f = 0 /\ c = 0 /\ u = 0 /\ o = 0
  OBVIOUS
<1>3. faults' \in Nat /\ crashes' \in Nat /\ updates' \in Nat /\ overlaps' \in Nat
  BY <1>1
<1>4. PICK f1, c1, u1, o1 : f1 = faults' /\ c1 = crashes' /\ u1 = updates' /\ o1 = overlaps'
  OBVIOUS
<1>5. f1 + c1 + u1 + o1 <= 1 /\ Disturbed' = f1 + c1 + u1 + o1 /\ Disturbed = faults + crashes + updates + overlaps
  BY <1>4, Zenon DEF Disturbed
<1>6. /\ f1 \in Nat /\ c1 \in Nat /\ u1 \in Nat /\ o1 \in Nat
      /\ f1 \in {faults, faults + 1} /\ c1 \in {crashes, crashes + 1}
      /\ u1 \in {updates, updates + 1} /\ o1 \in {overlaps, overlaps + 1}
  BY <1>1, <1>3, <1>4
<1>7. /\ Disturbed \in Nat /\ f1 + c1 + u1 + o1 \in Nat
      /\ Disturbed <= f1 + c1 + u1 + o1
      /\ updates = 0 \/ (updates = 1 /\ faults + crashes + overlaps = 0)
      /\ Disturbed = f1 + c1 + u1 + o1 => f1 = faults /\ c1 = crashes /\ u1 = updates /\ o1 = overlaps
      /\ f1 = faults + 1 \/ c1 = crashes + 1 => updates = 0 /\ overlaps = 0 /\ u1 = 0 /\ o1 = 0 /\ Disturbed = 0
      /\ Disturbed = 0 => faults = 0 /\ crashes = 0 /\ updates = 0 /\ overlaps = 0
  BY <1>1, <1>2, <1>5, <1>6
<1>8. QED
  BY <1>4, <1>5, <1>7 DEF boundVars

\* Nobody else is about to reply when h reads a thread without a reply.
LEMMA OneClaims ==
  ASSUME AckInv, updates = 0 \/ RaceInv, ~Replied, acks \in Nat, NEW g \in Hosts, NEW h \in Hosts,
         At(g, "reconcile") \/ At(g, "reply"), At(h, "reconcile") \/ At(h, "reply")
  PROVE  g = h
<1>1. CASE updates = 0
  <2>1. acks = 0 /\ ~foreground
    BY DEF Replied
  <2>2. Unreplied
    BY <1>1, <2>1 DEF AckInv
  <2>3. \A k \in Hosts : At(k, "reply") \/ At(k, "reconcile") => Entitled(k)
    BY <2>2, CopiesOf DEF Unreplied, CopiesOK, Entitled, At
  <2>4. QED
    BY <2>2, <2>3 DEF Unreplied
<1>2. CASE RaceInv
  BY <1>2 DEF RaceInv, BeforeReply, PassLive, At
<1>3. QED
  BY <1>1, <1>2

\* An owner stays the only one, unless its send fails.
LEMMA OwnerStep ==
  ASSUME MonitorInv, OneOwner, AckInv, ~Replied => updates = 0 \/ RaceInv, Replied => Replied',
         \A g \in Hosts : Owns(g)' => Owns(g) \/ Claims(g),
         \A g \in Hosts : At(g, "reply") => At(g, "reply")' \/ Replied'
  PROVE  OneOwner'
<1>1. ASSUME NEW g \in Hosts, NEW h \in Hosts, Owns(g)', Owns(h)' PROVE g = h
  <2>1. CASE Owns(g) /\ Owns(h)
    BY <2>1 DEF OneOwner
  <2>2. CASE Claims(g) \/ Claims(h)
    <3>1. ~Replied /\ acks \in Nat
      BY <2>2 DEF Claims, MonitorInv, MonitorTypeOK
    <3>2. \A k \in {g, h} : At(k, "reconcile") \/ At(k, "reply")
      BY <1>1, <3>1 DEF Claims, OneOwner
    <3>3. QED
      BY <3>1, <3>2, OneClaims
  <2>3. QED
    BY <1>1, <2>1, <2>2
<1>2. ASSUME ~Replied', NEW h \in Hosts, Owns(h)' PROVE At(h, "reply")'
  <2>1. CASE Owns(h)
    BY <1>2, <2>1 DEF OneOwner
  <2>2. CASE Claims(h)
    BY <2>2 DEF Claims
  <2>3. QED
    BY <1>2, <2>1, <2>2
<1>3. QED
  BY <1>1, <1>2 DEF OneOwner

\* Initially nobody owns the message or claims the ticket.
LEMMA WorkerInitially == MonitorInit => WorkerInv
<1> SUFFICES ASSUME MonitorInit PROVE WorkerInv
  OBVIOUS
<1>1. /\ \A c \in Callers : call[c] = NoCall /\ ~Active(c) /\ call[c].step = "idle"
      /\ Hosts \cup Operators \subseteq Callers /\ Late \subseteq Callers /\ delayed = {} /\ ~takenBack
      /\ status = None /\ claimOwner = None /\ None \notin Hosts /\ updates = 0 /\ overlaps = 0
      /\ \A h \in Hosts : wpc[h] = "idle" /\ ppc[h] = "watch" /\ queue[h] = None /\ wrec[h] = NewRecord /\ prec[h] = NewRecord
  BY TicketAssumption DEF MonitorInit, TicketInit, NoCall, Active, Callers
<1>2. Unmarked(NewRecord) /\ \A h \in Hosts : \A r \in Copies(h) : r = NewRecord
  BY <1>1, CopiesOf, NewIsBlank DEF Blank
<1>3. CopyReady(NewRecord) /\ ~OwnsCopy(NewRecord) /\ Stands("idle", NewRecord) /\ NewRecord.pending = "none"
      /\ ~NewRecord.acked /\ ~NewRecord.inFlight
  BY <1>2 DEF Unmarked, CopyReady, OwnsCopy, Stands
<1>4. RunsInv
  BY <1>1, <1>2, <1>3 DEF RunsInv, CopyRuns
<1>5. \A h \in Hosts : ~PassLive(h) /\ ~RestLive(h) /\ ~PollLive(h) /\ ~BeforeReply(h) /\ ~Owns(h)
  BY <1>1, <1>2, <1>3 DEF PassLive, RestLive, PollLive, BeforeReply, Owns
<1>6. RaceInv
  BY <1>1, <1>2, <1>3, <1>5 DEF RaceInv
<1>7. OneOwner
  BY <1>5 DEF OneOwner
<1>8. \A h \in Hosts : ClaimKept(h)
  BY <1>1, <1>3, <1>5 DEF ClaimKept, At
<1>9. NothingLate
  BY <1>1 DEF NothingLate
<1>10. QED
  BY <1>1, <1>4, <1>6, <1>7, <1>8, <1>9 DEF WorkerInv

\* Every step keeps WorkerInv.
LEMMA WorkerNext ==
  ASSUME Lease > 1, TicketInv, MonitorInv, AckInv, FinalInv, WorkerInv, [MonitorNext]_monitorVars
  PROVE  WorkerInv'
<1>1. /\ RunsInv' /\ (Replied => Replied')
      /\ \A g \in Hosts : Owns(g)' => Owns(g) \/ Claims(g)
  BY RunsNext DEF WorkerInv
<1>2. updates' <= 1 /\ faults' + crashes' + overlaps' = 0 /\ ~Replied' => RaceInv'
  BY RaceNext DEF WorkerInv
<1>a. faults' + crashes' = 0 => NothingLate'
  <2>1. /\ faults \in Nat /\ crashes \in Nat /\ faults' \in {faults, faults + 1} /\ crashes' \in {crashes, crashes + 1}
    BY BoundsGrow
  <2>2. \A a, b \in Nat : a + b = 0 => a = 0 /\ b = 0
    OBVIOUS
  <2>3. faults' \in Nat /\ crashes' \in Nat
    BY <2>1
  <2>4. faults' + crashes' = 0 => faults' = faults /\ crashes' = crashes /\ faults + crashes = 0
    <3>1. faults' + crashes' = 0 => faults' = 0 /\ crashes' = 0
      BY <2>2, <2>3
    <3>2. faults' = 0 /\ crashes' = 0 => faults' = faults /\ crashes' = crashes /\ faults = 0 /\ crashes = 0
      BY <2>1
    <3>3. QED
      BY <3>1, <3>2
  <2>5. faults + crashes = 0 => NothingLate
    BY DEF WorkerInv
  <2>6. QED
    BY <2>4, <2>5, NothingLateStays
<1>3. ASSUME Disturbed' <= 1
      PROVE  /\ Disturbed' = 0 => OneOwner' /\ \A h \in Hosts : ClaimKept(h)'
             /\ Disturbed' = 1 => \/ OneOwner'
                                  \/ updates' = 0 /\ overlaps' = 0 /\ NothingLate' /\ \A h \in Hosts : ClaimKept(h)'
  <2>1. /\ Disturbed \in Nat /\ Disturbed' \in Nat /\ Disturbed <= Disturbed'
        /\ updates = 0 \/ (updates = 1 /\ faults + crashes + overlaps = 0)
        /\ Disturbed = Disturbed' => UNCHANGED boundVars
        /\ faults' = faults + 1 \/ crashes' = crashes + 1 =>
             updates = 0 /\ overlaps = 0 /\ updates' = 0 /\ overlaps' = 0 /\ Disturbed = 0
        /\ Disturbed = 0 => faults = 0 /\ crashes = 0 /\ updates = 0 /\ overlaps = 0
    BY <1>3, FewDisturbances
  <2>2. ~Replied => updates = 0 \/ RaceInv
    BY <2>1 DEF WorkerInv
  <2>3. /\ Disturbed = 0 => OneOwner /\ \A h \in Hosts : ClaimKept(h)
        /\ Disturbed = 0 => NothingLate
        /\ Disturbed = 1 => OneOwner \/ (updates = 0 /\ overlaps = 0 /\ NothingLate /\ \A h \in Hosts : ClaimKept(h))
    BY <2>1 DEF WorkerInv
  <2>4. acks \in Nat /\ faults \in Nat /\ crashes \in Nat /\ RunsInv
    BY DEF MonitorInv, MonitorTypeOK, WorkerInv
  <2>5. ASSUME NEW g \in Hosts, At(g, "reply"), ~At(g, "reply")', ~Replied'
        PROVE  Crash(g) \/ (Reply(g) /\ Fault)
    <3>1. acks' = acks + 1 => Replied'
      BY <2>4 DEF Replied
    <3>2. QED
      BY <2>5, <3>1, ReplyLeft, ReplyGoes
  <2>6. (\A g \in Hosts : At(g, "reply") => At(g, "reply")' \/ Replied') /\ OneOwner => OneOwner'
    BY <1>1, <2>2, OwnerStep
  <2>7. CASE Disturbed = Disturbed'
    <3>1. \A g \in Hosts : ~Crash(g) /\ ~Fault
      BY <2>1, <2>4, <2>7 DEF Crash, Fault, boundVars
    <3>2. OneOwner => OneOwner'
      BY <2>5, <2>6, <3>1
    <3>3. updates = 0 /\ overlaps = 0 /\ NothingLate /\ (\A h \in Hosts : ClaimKept(h))
            => NothingLate' /\ \A h \in Hosts : ClaimKept(h)'
      BY <2>1, <2>4, <2>7, ClaimNext, NothingLateStays DEF boundVars
    <3>4. updates' = updates /\ overlaps' = overlaps
      BY <2>1, <2>7 DEF boundVars
    <3>5. QED
      BY <2>1, <2>3, <2>7, <3>2, <3>3, <3>4
  <2>8. CASE Disturbed # Disturbed'
    <3>1. Disturbed = 0 /\ Disturbed' = 1
      BY <1>3, <2>1, <2>8
    <3>2. OneOwner /\ NothingLate /\ (\A h \in Hosts : ClaimKept(h)) /\ updates = 0 /\ overlaps = 0
      BY <2>1, <2>3, <3>1
    <3>3. CASE \A g \in Hosts : At(g, "reply") => At(g, "reply")' \/ Replied'
      BY <2>6, <3>1, <3>2, <3>3
    <3>4. ASSUME NEW g \in Hosts, At(g, "reply"), ~At(g, "reply")', ~Replied'
          PROVE  updates' = 0 /\ overlaps' = 0 /\ NothingLate' /\ \A h \in Hosts : ClaimKept(h)'
      <4>1. Crash(g) \/ (Reply(g) /\ Fault)
        BY <2>5, <3>4
      <4>2. NothingLate' /\ \A h \in Hosts : ClaimKept(h)'
        BY <2>4, <3>2, <3>4, <4>1, ClaimSend
      <4>3. faults' = faults + 1 \/ crashes' = crashes + 1
        BY <4>1 DEF Crash, Fault
      <4>4. QED
        BY <2>1, <4>2, <4>3
    <3>5. QED
      BY <3>1, <3>3, <3>4
  <2>9. QED
    BY <2>7, <2>8
<1>4. Disturbed' = 0 \/ Disturbed' = 1 => Disturbed' <= 1
  OBVIOUS
<1>5. QED
  BY <1>1, <1>2, <1>3, <1>4, <1>a DEF WorkerInv

\* At most one host runs Codex where WorkerInv holds.
LEMMA WorkerIsOne ==
  ASSUME MonitorInv, WorkerInv PROVE OneWorker
<1> DEFINE Running == {h \in Hosts : At(h, "running")}
<1> SUFFICES ASSUME Disturbed <= 1 PROVE Cardinality(Running) <= 1
  BY DEF OneWorker, Disturbed
<1>1. Disturbed = 0 \/ Disturbed = 1
  <2>1. Disturbed \in Nat
    BY DEF MonitorInv, MonitorTypeOK, Disturbed
  <2>2. QED
    BY <2>1
<1>2. \A g, h \in Running : g = h
  <2>1. CASE OneOwner
    <3>1. \A h \in Running : Owns(h)
      BY CopiesOf DEF WorkerInv, RunsInv, Stands, At, Owns, OwnsCopy
    <3>2. QED
      BY <2>1, <3>1 DEF OneOwner
  <2>2. CASE \A h \in Hosts : ClaimKept(h)
    BY <2>2 DEF ClaimKept
  <2>3. QED
    BY <1>1, <2>1, <2>2 DEF WorkerInv
<1>3. CASE Running = {}
  BY <1>3, FS_EmptySet
<1>4. ASSUME NEW h \in Running PROVE Cardinality(Running) <= 1
  <2>1. Running = {h}
    BY <1>2
  <2>2. QED
    BY <2>1, FS_Singleton
<1>5. QED
  BY <1>3, <1>4

\* The processing lease and the acknowledgment together: no single failure, restart, foreground reply,
\* operator's update or overlapping pass lets Codex run on two hosts at a time.  The lease must outlast
\* the five minutes between two renewals, as CLAIM_LEASE_MS does three times over.
THEOREM OneWorkerAtATime == ASSUME Lease > 1 PROVE MonitorSpec => []OneWorker
<1>1. MonitorInv /\ WorkerInv => OneWorker
  BY WorkerIsOne
<1>2. TicketInv /\ MonitorInv /\ AckInv /\ FinalInv /\ WorkerInv /\ [MonitorNext]_monitorVars => WorkerInv'
  BY WorkerNext
<1>3. QED
  BY <1>1, <1>2, WorkerInitially, AckInitially, AckStep, KeptInitially, KeptNext, MonitorInvariant, PTL DEF MonitorSpec
==============================================================================
