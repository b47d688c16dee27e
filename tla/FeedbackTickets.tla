---------------------------- MODULE FeedbackTickets --------------------------
(***************************************************************************)
(* The Control ticket of one Feishu message (feedback-tickets.service.ts): *)
(* its status machine, its time-bounded processing claim and the           *)
(* transitions that monitors and operators run against it.  A transition   *)
(* reads the row and writes it back in a READ COMMITTED transaction, so    *)
(* two of them can base their writes on the same old row; the claim of a   *)
(* monitor's transition is checked before the transaction begins.  A       *)
(* request whose monitor has given up on it (control_request: a time-out   *)
(* or a dropped connection) runs on in a place of its own, next to what    *)
(* the same monitor asks for afterwards.                                   *)
(*                                                                         *)
(* Time is counted in units of five minutes, a third of CLAIM_LEASE_MS.    *)
(* Every grant makes a new random token, so a token is represented by      *)
(* whether it is that of the latest grant.                                 *)
(***************************************************************************)
EXTENDS Naturals, Null

CONSTANTS
  Hosts,       \* monitors, each with its own consumer id
  Operators,   \* concurrent console updates
  Places,      \* of each monitor, for requests that run on after it has stopped waiting for them
  Updates,     \* what operators ask for: a status and what they do to version and steps
  Lease        \* CLAIM_LEASE_MS

VARIABLES
  status, released, closedAt,     \* row: status, fixVersion with verificationSteps, closedAt
  claimOwner, lease,              \* row: the claim and the time left until claimExpiresAt
  call                            \* caller -> the transition it runs

claimVars == <<claimOwner, lease>>
ticketVars == <<status, released, closedAt, claimVars, call>>

TERMINAL_STATUSES == {"CLOSED", "REJECTED"}

ALLOWED_TRANSITIONS ==
  [RECEIVED             |-> {"ACKNOWLEDGED", "IN_PROGRESS", "BLOCKED", "REJECTED"},
   ACKNOWLEDGED         |-> {"IN_PROGRESS", "BLOCKED", "REJECTED"},
   IN_PROGRESS          |-> {"WAITING_RELEASE", "BLOCKED", "REJECTED"},
   WAITING_RELEASE      |-> {"IN_PROGRESS", "WAITING_VERIFICATION", "BLOCKED"},
   WAITING_VERIFICATION |-> {"IN_PROGRESS", "CLOSED", "BLOCKED"},
   CLOSED               |-> {"IN_PROGRESS"},
   BLOCKED              |-> {"IN_PROGRESS", "REJECTED"},
   REJECTED             |-> {"IN_PROGRESS"}]

Status == DOMAIN ALLOWED_TRANSITIONS

\* dto.fixVersion and dto.verificationSteps: left out, given, or given empty.
FixInput == {"keep", "set", "clear"}

ASSUME TicketAssumption ==
  /\ Updates \subseteq [to : Status, input : FixInput]
  /\ Lease \in Nat \ {0} /\ None \notin Hosts \cup Status
  /\ Hosts \cap Operators = {}
  /\ (Hosts \X Places) \cap (Hosts \cup Operators) = {}

\* The requests that monitors have given up on, and all that may run a transition.
Late == Hosts \X Places
Callers == Hosts \cup Operators \cup Late

NoCall == [step |-> "idle", to |-> "RECEIVED", fix |-> FALSE, input |-> "keep", from |-> "RECEIVED"]

Call == [step : {"idle", "begin", "read", "done", "refused"},
         to : Status, from : Status, fix : BOOLEAN, input : FixInput]

TicketInit ==
  /\ status = None /\ released = FALSE /\ closedAt = FALSE
  /\ claimOwner = None /\ lease = 0
  /\ call = [c \in Callers |-> NoCall]
-----------------------------------------------------------------------------
\* Mutant of Grantable: the claim is taken by id, whatever became of the ticket since it was read.
GrantableByOwner(h) == status = None \/ lease = 0 \/ claimOwner = h

\* create, or updateMany: not terminal, and unclaimed, expired or already this consumer's.
Grantable(h) ==
  \/ status = None
  \/ status \notin TERMINAL_STATUSES /\ (lease = 0 \/ claimOwner = h)

\* intake: a new ticket, a renewed claim with a new token, or the ticket without a claim.
Intake(h) ==
  /\ IF Grantable(h)
     THEN /\ status' = IF status = None THEN "RECEIVED" ELSE status
          /\ claimOwner' = h /\ lease' = Lease
     ELSE UNCHANGED <<status, claimVars>>
  /\ UNCHANGED <<released, closedAt, call>>

\* updateClaimed: the token is that of the row and the lease still runs.
Claimed(latest) == latest /\ claimOwner # None /\ lease > 0

Begin(c, to, input) ==
  /\ call[c] = NoCall /\ status # None
  /\ call' = [call EXCEPT ![c] = [NoCall EXCEPT !.step = "begin", !.to = to, !.input = input]]
  /\ UNCHANGED <<status, released, closedAt, claimVars>>

\* updateClaimed after its check, outside the transaction.
BeginClaimed(h, to, latest) == Claimed(latest) /\ Begin(h, to, "keep")

\* updateClaimed refuses, or the request never arrives.
RefuseClaimed(h) ==
  /\ call[h] = NoCall
  /\ call' = [call EXCEPT ![h] = [NoCall EXCEPT !.step = "refused"]]
  /\ UNCHANGED <<status, released, closedAt, claimVars>>

\* update: an operator asks for a transition.
BeginUpdate(o, u) == Begin(o, u.to, u.input)

FixAfter(c) == call[c].input = "set" \/ (call[c].input = "keep" /\ released)

\* The checks of transition against the row it has read.
Valid(c, note) ==
  /\ call[c].to = status \/ call[c].to \in ALLOWED_TRANSITIONS[status]
  /\ call[c].to = "BLOCKED" => note
  /\ call[c].to \in {"WAITING_VERIFICATION", "CLOSED"} => FixAfter(c)

\* The transaction reads the row and checks the request against it.
TxRead(c, note) ==
  /\ call[c].step = "begin"
  /\ call' = [call EXCEPT ![c] =
                IF Valid(c, note) THEN [@ EXCEPT !.step = "read", !.from = status, !.fix = FixAfter(c)]
                ELSE [NoCall EXCEPT !.step = "refused"]]
  /\ UNCHANGED <<status, released, closedAt, claimVars>>

\* The statuses whose write gives the claim up.
Unclaims(to) == to \in {"WAITING_RELEASE"} \cup TERMINAL_STATUSES

\* The transaction writes what it derived from the row it read.
TxWrite(c) ==
  /\ call[c].step = "read"
  /\ status' = call[c].to /\ released' = call[c].fix
  /\ closedAt' = (call[c].to = "CLOSED" \/ (closedAt /\ call[c].from # "CLOSED"))
  /\ IF Unclaims(call[c].to)
     THEN claimOwner' = None /\ lease' = 0
     ELSE UNCHANGED claimVars
  /\ call' = [call EXCEPT ![c] = [NoCall EXCEPT !.step = "done"]]

\* The request returns.
Returns(c) ==
  /\ call[c].step \in {"done", "refused"}
  /\ call' = [call EXCEPT ![c] = NoCall]
  /\ UNCHANGED <<status, released, closedAt, claimVars>>

\* The monitor stops waiting: what has not answered yet runs on, if there is a place for it.
Abandon(h) ==
  /\ IF call[h].step \in {"begin", "read"}
     THEN \E p \in Places :
            call[<<h, p>>] = NoCall /\ call' = [call EXCEPT ![<<h, p>>] = call[h], ![h] = NoCall]
     ELSE call' = [call EXCEPT ![h] = NoCall]
  /\ UNCHANGED <<status, released, closedAt, claimVars>>

\* Five minutes pass: the claim's expiry comes nearer.
LeaseTick ==
  /\ lease' = IF lease = 0 THEN 0 ELSE lease - 1
  /\ UNCHANGED <<status, released, closedAt, claimOwner, call>>

\* The service, whatever monitors and operators ask of it.
TicketNext ==
  \/ \E h \in Hosts :
       \/ Intake(h) \/ RefuseClaimed(h) \/ Abandon(h)
       \/ \E to \in Status : BeginClaimed(h, to, TRUE)
  \/ \E o \in Operators, u \in Updates : BeginUpdate(o, u)
  \/ \E c \in Callers :
       TxWrite(c) \/ Returns(c) \/ \E note \in BOOLEAN : TxRead(c, note)
  \/ LeaseTick

TicketSpec == TicketInit /\ [][TicketNext]_ticketVars
-----------------------------------------------------------------------------
TicketTypeOK ==
  /\ status \in Status \cup {None} /\ released \in BOOLEAN /\ closedAt \in BOOLEAN
  /\ claimOwner \in Hosts \cup {None} /\ lease \in 0 .. Lease
  /\ call \in [Callers -> Call]

\* What a transition that is under way relies on: the ticket exists, and a write to a released
\* status was checked to carry version and steps.
CallsAreChecked ==
  \A c \in Callers :
    /\ call[c].step \in {"begin", "read"} => status # None
    /\ call[c].step = "read" /\ call[c].to \in {"WAITING_VERIFICATION", "CLOSED"} => call[c].fix

(***************************************************************************)
(* However transitions and intakes overlap, and although one transition    *)
(* may overwrite another: a ticket that waits for verification or is       *)
(* closed has a version and verification steps, a closed ticket its        *)
(* closing time, and a terminal ticket no claim a worker could start on.   *)
(***************************************************************************)
SettledTicket ==
  /\ status \in {"WAITING_VERIFICATION", "CLOSED"} => released
  /\ status = "CLOSED" => closedAt
  /\ status \in TERMINAL_STATUSES => claimOwner = None /\ lease = 0

\* The inductive invariant.
TicketInv == TicketTypeOK /\ CallsAreChecked /\ SettledTicket
=============================================================================
