-------------------------- MODULE MonitorInvariants --------------------------
(***************************************************************************)
(* The inductive invariants behind FeishuMonitor's safety properties: the  *)
(* types, what a pass may rely on at each of its positions, while the      *)
(* thread holds no reply, who may still send one, what the copies and      *)
(* requests still around know of a ticket that is finished, and who may    *)
(* start Codex: the one owner of the message, or the holder of the claim.  *)
(***************************************************************************)
EXTENDS FeishuMonitor

WorkerSteps == {"idle", "down", "boot", "bootWait", "intake", "route", "desk", "reconcile", "reply",
                "ackSync", "ackWait", "next", "resume", "resumeWait", "pend", "pendWait", "start",
                "running", "lost", "unlink"}

Outcomes == {"skipped", "settled", "claimed", "existing", "invalid", "completed", "exhausted", "duplicate"}

MonitorTypeOK ==
  /\ queue \in [Hosts -> Record \cup {None}] /\ ended \in [Hosts -> SUBSET Outcomes]
  /\ wpc \in [Hosts -> WorkerSteps] /\ wrec \in [Hosts -> Record]
  /\ ppc \in [Hosts -> {"watch", "intake", "desk", "idle"}] /\ prec \in [Hosts -> Record]
  /\ aged \subseteq Hosts /\ refreshDue \subseteq Hosts
  /\ acks \in Nat /\ worked \subseteq Hosts
  /\ delayed \subseteq Hosts /\ expired \subseteq Hosts /\ takenBack \in BOOLEAN
  /\ faults \in Nat /\ crashes \in Nat /\ updates \in Nat /\ overlaps \in Nat

\* The request of c is at Control.
Active(c) == call[c].step \in {"begin", "read"}

\* What the worker of h may rely on at its position: its file, its archive, its pending transition.
PassOK ==
  \A h \in Hosts :
    /\ wpc[h] \notin {"idle", "down"} => queue[h] # None
    /\ wpc[h] = "unlink" => ended[h] # {}
    /\ wpc[h] \in {"resume", "resumeWait", "pend", "pendWait"} => wrec[h].pending # "none"

MonitorInv == MonitorTypeOK /\ PassOK /\ RecordSurvives

-----------------------------------------------------------------------------
\* The copies of the record on host h.
Copies(h) == {wrec[h], prec[h]} \cup ({queue[h]} \ {None})

\* Grants outdate: a token that is the latest belongs to the owner of the claim, if there is one.
TokensOK ==
  \A h \in Hosts : \A r \in Copies(h) : r.latest /\ claimOwner # None => claimOwner = h

\* A thread that is not in a pass keeps no granted copy; five minutes age only a finished enqueue.
CopiesOK ==
  \A h \in Hosts :
    /\ wpc[h] \in {"idle", "down", "unlink"} => ~wrec[h].granted
    /\ ppc[h] # "desk" => ~prec[h].granted
    /\ ppc[h] = "watch" => queue[h] = None
    /\ h \in aged => ppc[h] = "idle"
    /\ wpc[h] \in {"route", "desk", "reconcile", "reply"} => h \notin aged
    /\ wpc[h] \in {"reconcile", "reply"} => wrec[h].granted

\* h has a request at Control, or a grant of the current five minutes on record.
Entitled(h) ==
  \/ call[h].step \in {"begin", "read", "done"}
  \/ h \notin aged /\ \E r \in Copies(h) : r.granted

\* All that monitors have at Control is the quarantine's.
OnlyRejections == \A c \in Hosts \cup Late : Active(c) => call[c].to = "REJECTED"

\* Before the first reply no copy is past the acknowledgment, the only requests at Control come
\* from the quarantine, and one host at most is entitled: the owner of a running claim, or the one
\* whose quarantine has rejected the ticket for good.
Unreplied ==
  /\ TokensOK /\ CopiesOK
  /\ status \in {None, "RECEIVED", "REJECTED"}
  /\ \A h \in Hosts :
       /\ wpc[h] \in {"idle", "down", "boot", "bootWait", "intake", "route", "desk", "reconcile",
                      "reply", "unlink"}
       /\ \A r \in Copies(h) : ~r.acked /\ r.pending = "none" /\ r.cst \in {"RECEIVED", "REJECTED"}
       /\ Entitled(h) => (status = "RECEIVED" /\ claimOwner = h /\ lease > 0) \/ status = "REJECTED"
  /\ OnlyRejections
  /\ \A g, h \in Hosts : Entitled(g) /\ Entitled(h) => g = h

\* As long as no operator moves the ticket, at most one host is about to send the first reply.
AckInv ==
  updates = 0 =>
    /\ \A o \in Operators : call[o] = NoCall
    /\ acks <= 1
    /\ \A h \in Hosts : At(h, "reply") => acks = 0
    /\ \A g, h \in Hosts : At(g, "reply") /\ At(h, "reply") => g = h
    /\ acks = 0 /\ ~foreground => Unreplied
-----------------------------------------------------------------------------
\* The statuses a monitor ends its work with; Control has one of them, or the quarantine's.
Finished == {"WAITING_RELEASE", "BLOCKED"}
Settled == Finished \cup {"REJECTED"}
FinalStatus == status \in Finished \/ (status = "REJECTED" /\ crashes > 0)

\* The requests of h: the one it waits for and those it has given up on.
Requests(h) == {h} \cup ({h} \X Places)

\* A request at Control is about to finish the ticket.
FinishUnderway == \E c \in Hosts \cup Late : Active(c) /\ call[c].to \in Finished

\* A copy whose token is the latest knows that the ticket is finished, or is about to finish it.
CopyKept(h, r) ==
  /\ r.pending \in {"IN_PROGRESS", "REJECTED"} => r.cst \notin Finished
  /\ r.latest /\ claimOwner # None =>
       /\ claimOwner = h
       /\ status \in Finished => r.cst \in Finished \/ r.pending \in Finished

\* Enqueue comes before the first pass; a pass that goes on has read an unfinished status.
ThreadsKept(h) ==
  /\ ppc[h] \in {"intake", "desk"} => wpc[h] = "idle"
  /\ ppc[h] = "watch" => wpc[h] \in {"idle", "down"} /\ queue[h] = None
  /\ ppc[h] # "idle" => h \notin expired /\ \A c \in Requests(h) : call[c] = NoCall
  /\ h \in expired => /\ wpc[h] \in {"idle", "down", "boot", "bootWait", "unlink"} /\ crashes > 0
                      /\ At(h, "idle") => queue[h] = None
  /\ wpc[h] \in {"boot", "bootWait"} => h \in expired
  /\ ppc[h] # "desk" => ~prec[h].latest
  /\ wpc[h] \in {"idle", "down", "unlink"} => ~wrec[h].latest
  /\ wpc[h] \in {"down", "boot", "bootWait"} => crashes > 0
  /\ wpc[h] \in {"intake", "route", "desk", "reconcile", "reply", "ackSync", "ackWait", "next", "start",
                 "running", "lost"} => wrec[h].pending = "none"
  /\ wpc[h] \in {"desk", "reconcile", "reply", "ackSync", "ackWait", "next"} => wrec[h].cst \notin Finished
  /\ wpc[h] = "start" => queue[h].pending = "none"
  /\ wpc[h] \in {"resume", "pend"} => queue[h].pending = wrec[h].pending

\* Every file and copy of h that a pass may go on with waits for the transition to t.
Closing(h, t) ==
  /\ queue[h] # None => queue[h].pending = t
  /\ wpc[h] \in {"idle", "down", "unlink"} \/ wrec[h].pending = t

\* Control has the claim of h, or the ticket is settled.
Due(h) == (claimOwner = h /\ lease > 0) \/ status \in Settled

\* What a monitor asks for: the acknowledgment, or its pending transition.
Targets == {"ACKNOWLEDGED", "IN_PROGRESS"} \cup Settled

\* A request of h at Control, waited for or given up on, is the claim owner's or comes too late.  One
\* that ends the work of h is what its record waits for, or the quarantine's, and it finishes the
\* ticket, or nothing else does.
Allowed(h, c) ==
  /\ call[c].to \in Targets
  /\ Due(h)
  /\ call[c].to \in Settled => Closing(h, call[c].to) \/ (call[c].to = "REJECTED" /\ h \in expired)
  /\ call[c].to = "REJECTED" => crashes > 0 \/ (status \notin Finished /\ ~FinishUnderway)

\* The request h waits for is that of its position, and takes no finished ticket back.
Awaited(h) ==
  /\ wpc[h] \in {"ackWait", "bootWait", "resumeWait", "pendWait"}
  /\ wpc[h] \in {"resumeWait", "pendWait"} => call[h].to = wrec[h].pending
  /\ At(h, "bootWait") => call[h].to = "REJECTED"
  /\ call[h].to \notin Settled => status \notin Settled

RequestKept(h) ==
  /\ \A c \in Requests(h) : Active(c) => Allowed(h, c)
  /\ Active(h) => Awaited(h)
  /\ call[h].step = "done" /\ wpc[h] \in {"resumeWait", "pendWait"} /\ wrec[h].pending \in Finished
       => FinalStatus

\* As long as no operator moves the ticket and no pass overlaps enqueue, a finished ticket stays so.
HostKept(h) ==
  /\ \A r \in Copies(h) : CopyKept(h, r)
  /\ ThreadsKept(h) /\ RequestKept(h)
  /\ ended[h] \cap {"completed", "exhausted"} # {} => FinalStatus

FinalInv ==
  updates = 0 /\ overlaps = 0 /\ ~takenBack =>
    (\A o \in Operators : call[o] = NoCall) /\ \A h \in Hosts : HostKept(h)
-----------------------------------------------------------------------------
Disturbed == faults + crashes + updates + overlaps
Replied == acks > 0 \/ foreground

\* Codex is started on a record whose acknowledgment was this host's own; a record that says so has
\* one in the thread.
CopyReady(r) == r.pending = "IN_PROGRESS" \/ r.ready => r.acked /\ ~r.existing
CopyRuns(r) == CopyReady(r) /\ (r.acked => Replied)

\* What a worker at pc knows of its acknowledgment from its copy w.
Stands(pc, w) ==
  /\ pc \in {"idle", "down", "unlink"} => ~w.acked /\ ~w.inFlight
  /\ pc \in {"reconcile", "reply"} => ~w.acked
  /\ pc = "reply" => w.inFlight
  /\ pc \in {"ackSync", "ackWait", "next", "start", "running", "lost"} => w.acked
  /\ pc \in {"start", "running", "lost"} => ~w.existing

RunsInv ==
  \A h \in Hosts : /\ Stands(wpc[h], wrec[h]) /\ ~prec[h].acked /\ ~prec[h].inFlight
                  /\ \A r \in Copies(h) : CopyRuns(r)

\* h has acknowledged the message, or may have: one of its copies says so or has a send in flight.
OwnsCopy(r) == r.inFlight \/ (r.acked /\ ~r.existing)
Owns(h) == \E r \in Copies(h) : OwnsCopy(r)

\* One host owns the message, and before the reply is in the thread it is about to send it.
OneOwner ==
  /\ \A g, h \in Hosts : Owns(g) /\ Owns(h) => g = h
  /\ ~Replied => \A h \in Hosts : Owns(h) => At(h, "reply")

\* h may start Codex without asking Control for the claim again: in a pass, between two, or with the
\* answer its poll thread has.
PassLive(h) ==
  \/ wpc[h] \in {"reconcile", "reply", "ackSync", "ackWait", "next", "start"}
  \/ wpc[h] \in {"route", "desk"} /\ wrec[h].granted
  \/ wpc[h] \in {"pend", "pendWait"} /\ wrec[h].pending = "IN_PROGRESS"
RestLive(h) ==
  /\ wpc[h] \in {"idle", "down"} /\ h \notin aged /\ queue[h] # None
  /\ queue[h].granted /\ queue[h].pending = "none"
PollLive(h) == ppc[h] = "desk" /\ prec[h].granted

\* A whole lease is left of h's claim.
Whole(h) == claimOwner = h /\ lease = Lease

\* No request runs on, or has run on, that its monitor has given up on.
NothingLate == delayed = {} /\ ~takenBack /\ \A l \in Late : call[l] = NoCall

\* Without a disturbance, whoever may start Codex has a claim of the current five minutes, and Codex
\* runs on a claim that is renewed before it ends.
ClaimKept(h) ==
  /\ PassLive(h) => Whole(h) /\ h \notin aged /\ wrec[h].latest /\ queue[h].latest
  /\ RestLive(h) => Whole(h) /\ queue[h].latest
  /\ PollLive(h) => Whole(h) /\ h \notin aged /\ prec[h].latest
  /\ At(h, "running") => /\ claimOwner = h /\ queue[h].latest
                         /\ \/ h \notin aged /\ lease = Lease
                            \/ h \in aged \cap refreshDue /\ lease + 1 = Lease
  /\ ~At(h, "lost")
  /\ wrec[h].pending = "IN_PROGRESS" => wpc[h] \in {"pend", "pendWait"}
  /\ queue[h] # None /\ queue[h].pending = "IN_PROGRESS" => wrec[h].pending = "IN_PROGRESS"
  /\ At(h, "pendWait") /\ wrec[h].pending = "IN_PROGRESS" => call[h].step \in {"begin", "read", "done"}
  /\ call[h].step \in {"begin", "read"} => /\ claimOwner = h /\ lease > 0
                                           /\ wpc[h] \in {"ackWait", "bootWait", "resumeWait", "pendWait"}
                                           /\ At(h, "ackWait") => call[h].to = "ACKNOWLEDGED"
  /\ claimOwner = h => status # None

\* Before the first reply, with one update at most and nothing else: one host at most may reply.
BeforeReply(h) == PassLive(h) \/ RestLive(h) \/ PollLive(h)
RaceInv ==
  /\ updates = 0 => status \in {None, "RECEIVED"}
  /\ \A h \in Hosts :
       /\ wpc[h] \in {"idle", "intake", "route", "desk", "reconcile", "reply", "unlink"}
       /\ \A r \in Copies(h) : r.pending = "none"
       /\ ~Active(h)
       /\ BeforeReply(h) => (claimOwner = h /\ lease > 0 /\ status # None) \/ status \in TERMINAL_STATUSES
  /\ \A g, h \in Hosts : BeforeReply(g) /\ BeforeReply(h) => g = h
  /\ \A o \in Operators : /\ Active(o) => updates = 1 /\ status = "RECEIVED"
                          /\ call[o].step = "read" => call[o].to \notin {"WAITING_RELEASE", "CLOSED"}
  /\ \A o, p \in Operators : Active(o) /\ Active(p) => o = p

WorkerInv ==
  /\ RunsInv
  /\ faults + crashes = 0 => NothingLate
  /\ updates <= 1 /\ faults + crashes + overlaps = 0 /\ ~Replied => RaceInv
  /\ Disturbed = 0 => OneOwner /\ \A h \in Hosts : ClaimKept(h)
  /\ Disturbed = 1 => \/ OneOwner
                      \/ updates = 0 /\ overlaps = 0 /\ NothingLate /\ \A h \in Hosts : ClaimKept(h)
=============================================================================
