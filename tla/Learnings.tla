------------------------------ MODULE Learnings ------------------------------
(***************************************************************************)
(* Organization learnings (learnings.service.ts): devices submit           *)
(* proposals with evidence, administrators review them, and devices fetch  *)
(* the approved bundle.  One organization.                                 *)
(*                                                                         *)
(* A proposal's text is its summary with its rationale.  A submission and  *)
(* a review are each one serializable transaction, modelled by the         *)
(* snapshot it reads and the commit that Postgres allows when the snapshot *)
(* is still current.                                                       *)
(***************************************************************************)
EXTENDS Naturals, FiniteSets, Null

CONSTANTS
    Patterns,      \* (patternKey, kind): at most one candidate row each
    Texts,         \* proposals a device may submit
    Evidence,      \* (deviceId, clientId, fingerprint): the unique key of an observation
    Devices,       \* submitting devices
    Reviewers,     \* administrators
    MaxEvidence,   \* MAX_OBSERVATIONS_PER_CANDIDATE
    MaxTries,      \* attempts of `serializable`
    MaxSubmits,    \* bound: submissions
    MaxReviews     \* bound: lists an administrator reads

(* A row of the table, and the tables of the organization. *)
Candidate ==
    [status : {"PENDING", "APPROVED", "REJECTED", "REVOKED"}, summary : Texts, pending : Texts \cup {None},
     revision : Nat, occurrences : Nat]

LearningTables ==
    [cand : [Patterns -> Candidate \cup {None}], obs : [Evidence -> Patterns \cup {None}], version : Nat]

ASSUME LearningAssumption ==
    /\ None \notin Patterns \cup Texts \cup Devices \cup Reviewers \cup Candidate
    /\ IsFiniteSet(Evidence)
    /\ Devices \cap Reviewers = {}
    /\ {MaxEvidence, MaxTries, MaxSubmits, MaxReviews} \subseteq Nat

VARIABLES
    db,         \* the tables: cand (candidate rows), obs (who owns an observation), version
    aged,       \* observations outside the recurrence window
    tx,       \* a device's or an administrator's running transaction
    shown,      \* the list row an administrator has on the screen
    submits,    \* submissions begun
    lists,      \* lists read
    reviewed    \* history: the texts an approval put into the bundle, with what was shown

learningVars == <<db, aged, tx, shown, submits, lists, reviewed>>

Idle == [op |-> "idle"]

NewCandidate(text) ==
    [status |-> "PENDING", summary |-> text, pending |-> None, revision |-> 1, occurrences |-> 0]

Owned(d, p) == {e \in Evidence : d.obs[e] = p}

(* What `bundle` returns of the candidates: the approved ones with their text. *)
Active(d) == {<<p, d.cand[p].summary>> :
                 p \in {q \in Patterns : d.cand[q] # None /\ d.cand[q].status = "APPROVED"}}

LearningInit ==
    /\ db = [cand |-> [p \in Patterns |-> None], obs |-> [e \in Evidence |-> None], version |-> 0]
    /\ aged = {}
    /\ tx = [c \in Devices \cup Reviewers |-> Idle]
    /\ shown = [r \in Reviewers |-> None]
    /\ submits = 0
    /\ lists = 0
    /\ reviewed = {}

-----------------------------------------------------------------------------
(* Transactions *)

(* The transaction of c would be serialized where it is: nothing it has read has changed. *)
StillCurrent(c) == tx[c].snap = db

(* A conflict (P2034) runs the transaction again on a new snapshot, at most MaxTries times. *)
TxRetries(c) ==
    /\ tx[c] # Idle /\ ~StillCurrent(c)
    /\ tx[c].tries < MaxTries
    /\ tx' = [tx EXCEPT ![c].snap = db, ![c].tries = @ + 1]
    /\ UNCHANGED <<db, aged, shown, submits, lists, reviewed>>

TxGivesUp(c) ==
    /\ tx[c] # Idle /\ ~StillCurrent(c)
    /\ tx[c].tries = MaxTries \/ tx[c].snap.cand[tx[c].p] = None
    /\ tx' = [tx EXCEPT ![c] = Idle]
    /\ UNCHANGED <<db, aged, shown, submits, lists, reviewed>>

-----------------------------------------------------------------------------
(* submit *)

SubmitLearning(d, p, text, items) ==
    /\ tx[d] = Idle
    /\ submits < MaxSubmits
    /\ submits' = submits + 1
    /\ tx' = [tx EXCEPT ![d] = [op |-> "submit", p |-> p, text |-> text, items |-> items,
                                    tries |-> 1, snap |-> db]]
    /\ UNCHANGED <<db, aged, shown, lists, reviewed>>

(* Mutant of Proposed: the changed proposal replaces the active one. *)
ProposedInPlace(row, text) == [row EXCEPT !.summary = text]

(* A changed proposal replaces the text of a row nobody has reviewed and waits beside any other. *)
Proposed(row, text) ==
    IF row.summary = text THEN row
    ELSE IF row.status = "PENDING" THEN [row EXCEPT !.summary = text]
    ELSE [row EXCEPT !.pending = text]

(* slice(0, MAX - existingCount), before duplicates are skipped *)
Room(d, p) == MaxEvidence - Cardinality(Owned(d, p))

(* createMany skips an observation that any candidate already owns. *)
SubmitCommits(d) ==
    LET c == tx[d]
        row == Proposed(IF c.snap.cand[c.p] = None THEN NewCandidate(c.text) ELSE c.snap.cand[c.p],
                        c.text)
    IN /\ c # Idle /\ StillCurrent(d)
       /\ Room(c.snap, c.p) > 0
       /\ \E kept \in SUBSET c.items :
             /\ \/ kept = c.items /\ Cardinality(kept) <= Room(c.snap, c.p)
                \/ kept # c.items /\ Cardinality(kept) = Room(c.snap, c.p)
             /\ LET obs == [e \in Evidence |-> IF e \in kept /\ c.snap.obs[e] = None
                                               THEN c.p ELSE c.snap.obs[e]]
                    recent == {e \in Evidence \ aged : obs[e] = c.p}
                IN db' = [cand |-> [c.snap.cand EXCEPT
                                      ![c.p] = [row EXCEPT !.occurrences = Cardinality(recent)]],
                          obs |-> obs,
                          version |-> c.snap.version]
       /\ tx' = [tx EXCEPT ![d] = Idle]
       /\ UNCHANGED <<aged, shown, submits, lists, reviewed>>

(* At capacity the transaction throws, and the changed proposal is rolled back with it. *)
SubmitRefused(d) ==
    /\ tx[d] # Idle
    /\ Room(tx[d].snap, tx[d].p) = 0
    /\ tx' = [tx EXCEPT ![d] = Idle]
    /\ UNCHANGED <<db, aged, shown, submits, lists, reviewed>>

(* Thirty days pass for an observation; counts are only recomputed by the next submission. *)
Ages(e) ==
    /\ e \notin aged /\ db.obs[e] # None
    /\ aged' = aged \cup {e}
    /\ UNCHANGED <<db, tx, shown, submits, lists, reviewed>>

-----------------------------------------------------------------------------
(* list, review *)

(* What an administrator sees of a candidate: the text that an approval would adopt. *)
Adopted(row) == IF row.pending # None THEN row.pending ELSE row.summary

ListLearnings(r, p) ==
    /\ tx[r] = Idle
    /\ lists < MaxReviews
    /\ db.cand[p] # None
    /\ shown' = [shown EXCEPT ![r] = [p |-> p, revision |-> db.cand[p].revision,
                                      text |-> Adopted(db.cand[p])]]
    /\ lists' = lists + 1
    /\ UNCHANGED <<db, aged, tx, submits, reviewed>>

Decide(r, decision) ==
    /\ tx[r] = Idle
    /\ shown[r] # None
    /\ tx' = [tx EXCEPT ![r] = [op |-> decision, p |-> shown[r].p, tries |-> 1, snap |-> db]]
    /\ UNCHANGED <<db, aged, shown, submits, lists, reviewed>>

(* expected_revision, and the decisions a status refuses *)
ReviewAllowed(r) ==
    LET row == tx[r].snap.cand[tx[r].p]
    IN /\ row.revision = shown[r].revision
       /\ tx[r].op = "reject" => row.status # "APPROVED" \/ row.pending # None
       /\ tx[r].op = "revoke" => row.status = "APPROVED"

DecisionOn(row, decision) ==
    CASE decision = "approve" -> [row EXCEPT !.status = "APPROVED", !.summary = Adopted(row)]
      [] decision = "reject"  -> IF row.status = "APPROVED" THEN row
                                 ELSE [row EXCEPT !.status = "REJECTED"]
      [] decision = "revoke"  -> [row EXCEPT !.status = "REVOKED"]

(* Mutant of ActiveChanged: only a change of status counts. *)
ActiveChangedByStatus(row, decision) ==
    \/ decision = "approve" /\ row.status # "APPROVED"
    \/ decision = "revoke"

(* activeChanged: whether the decision changes what devices are given *)
ActiveChanged(row, decision) ==
    \/ decision = "approve" /\ (row.status # "APPROVED" \/ Adopted(row) # row.summary)
    \/ decision = "revoke"

ReviewCommits(r) ==
    LET c == tx[r]
        row == c.snap.cand[c.p]
        next == [DecisionOn(row, c.op) EXCEPT !.pending = None, !.revision = @ + 1]
    IN /\ c # Idle /\ StillCurrent(r)
       /\ ReviewAllowed(r)
       /\ db' = [c.snap EXCEPT !.cand[c.p] = next,
                               !.version = IF ActiveChanged(row, c.op) THEN @ + 1 ELSE @]
       /\ reviewed' = IF c.op = "approve"
                      THEN reviewed \cup {[p |-> c.p, text |-> next.summary, shown |-> shown[r].text]}
                      ELSE reviewed
       /\ tx' = [tx EXCEPT ![r] = Idle]
       /\ shown' = [shown EXCEPT ![r] = None]
       /\ UNCHANGED <<aged, submits, lists>>

ReviewRefused(r) ==
    /\ tx[r] # Idle
    /\ ~ReviewAllowed(r)
    /\ tx' = [tx EXCEPT ![r] = Idle]
    /\ shown' = [shown EXCEPT ![r] = None]
    /\ UNCHANGED <<db, aged, submits, lists, reviewed>>

-----------------------------------------------------------------------------
LearningNext ==
    \/ \E d \in Devices :
          \/ \E p \in Patterns, t \in Texts, items \in SUBSET Evidence \ {{}} :
                SubmitLearning(d, p, t, items)
          \/ SubmitCommits(d)
          \/ SubmitRefused(d)
          \/ TxRetries(d)
          \/ TxGivesUp(d)
    \/ \E r \in Reviewers :
          \/ \E p \in Patterns : ListLearnings(r, p)
          \/ \E decision \in {"approve", "reject", "revoke"} : Decide(r, decision)
          \/ ReviewCommits(r)
          \/ ReviewRefused(r)
          \/ TxRetries(r)
          \/ TxGivesUp(r)
    \/ \E e \in Evidence : Ages(e)

LearningSpec == LearningInit /\ [][LearningNext]_learningVars

-----------------------------------------------------------------------------
(* Properties *)

(* What a device can be given was put there by an approval: no submission, in whatever order it
   meets reviews and other submissions, changes an approved text (submit, 165-183). *)
ActiveIsApproved ==
    \A a \in Active(db) : \E v \in reviewed : v.p = a[1] /\ v.text = a[2]

(* The organization's watermark names the bundle: whenever the texts in it change, so does the
   version (review, 317-319, 342, 360-369). *)
VersionCoversBundle ==
    [][Active(db') # Active(db) => db'.version > db.version]_learningVars

(* Expected to fail: "keeps new or changed proposals outside the active bundle until an
   administrator reviews them" (CHANGELOG.md, 159-160).  A submission changes the text that waits
   for review without a new revision, so the approval of the revision that was on the screen
   adopts a text the administrator was never shown. *)
ApprovedWasShown == \A v \in reviewed : v.text = v.shown

-----------------------------------------------------------------------------
(* The inductive invariant *)

Submission ==
    [op : {"submit"}, p : Patterns, text : Texts, items : SUBSET Evidence, tries : Nat, snap : LearningTables]

Decision ==
    [op : {"approve", "reject", "revoke"}, p : Patterns, tries : Nat, snap : LearningTables]

LearningTypeOK ==
    /\ db \in LearningTables /\ aged \subseteq Evidence
    /\ tx \in [Devices \cup Reviewers -> {Idle} \cup Submission \cup Decision]
    /\ \A d \in Devices : tx[d] \in {Idle} \cup Submission
    /\ \A r \in Reviewers : tx[r] \in {Idle} \cup Decision
    /\ shown \in [Reviewers -> {None} \cup [p : Patterns, revision : Nat, text : Texts]]

(* What is reviewed was listed, and candidates are never deleted. *)
ReviewedExists ==
    /\ \A r \in Reviewers : shown[r] # None => db.cand[shown[r].p] # None
    /\ \A r \in Reviewers : tx[r] # Idle =>
          tx[r].snap.cand[tx[r].p] # None /\ db.cand[tx[r].p] # None

LearningInv == LearningTypeOK /\ ReviewedExists /\ ActiveIsApproved
=============================================================================
