---------------------------- MODULE WorkSessions ----------------------------
(***************************************************************************)
(* Ingest of completed work sessions (work.service.ts), for one device:    *)
(* each session row is linked to the row before it by prevHash.            *)
(*                                                                         *)
(* A row hash is the row it was computed from, named by its sequence       *)
(* number, which is unique per device; the empty hash is 0.                *)
(***************************************************************************)
EXTENDS Naturals, FiniteSets, FiniteSetsExt

CONSTANTS
    Uploads,      \* requests of the device
    LastSeq,      \* bound: sessions 1 .. LastSeq
    MaxUploads    \* bound: uploads, retries included

ASSUME WorkAssumption == {LastSeq, MaxUploads} \subseteq Nat

Seqs == 1 .. LastSeq

VARIABLES
    prevHash,     \* the stored rows: sequence number to the row it is linked to
    upload,       \* a running ingest: sessions left to do, and the link it has read
    uploads,      \* uploads begun
    answered,     \* history: sessions reported as ingested or skipped
    disordered    \* history: an upload overlapped another or brought an older session

workVars == <<prevHash, upload, uploads, answered, disordered>>

Stored == DOMAIN prevHash
NoUpload == [left |-> {}, batch |-> {}, link |-> 0, at |-> "idle"]
Highest == IF Stored = {} THEN 0 ELSE Max(Stored)

WorkInit ==
    /\ prevHash = <<>>
    /\ upload = [u \in Uploads |-> NoUpload]
    /\ uploads = 0
    /\ answered = {}
    /\ disordered = FALSE

(* A client uploads what it has not seen acknowledged, also while an earlier request still runs. *)
Ingest(u, batch) ==
    /\ upload[u].at = "idle"
    /\ uploads < MaxUploads
    /\ uploads' = uploads + 1
    /\ upload' = [upload EXCEPT ![u] = [left |-> batch, batch |-> batch, link |-> 0, at |-> "exists"]]
    /\ disordered' = (disordered \/ (\E v \in Uploads : upload[v].at # "idle")
                                 \/ (\E s \in batch \ Stored : s < Highest))
    /\ UNCHANGED <<prevHash, answered>>

(* Mutant of NextSeqs: the batch is not sorted. *)
AnyOrder(left) == left

(* sort((a, b) => a.seq - b.seq) *)
NextSeqs(left) == {Min(left)}

Left(u, s) == upload[u].left \ {s}

(* findUnique(deviceId, seq): a stored session is skipped. *)
SkipStored(u, s) ==
    /\ upload[u].at = "exists" /\ upload[u].left # {} /\ s \in NextSeqs(upload[u].left)
    /\ s \in Stored
    /\ upload' = [upload EXCEPT ![u].left = Left(u, s)]
    /\ UNCHANGED <<prevHash, uploads, answered, disordered>>

NotStored(u, s) ==
    /\ upload[u].at = "exists" /\ upload[u].left # {} /\ s \in NextSeqs(upload[u].left)
    /\ s \notin Stored
    /\ upload' = [upload EXCEPT ![u].at = "prev"]
    /\ UNCHANGED <<prevHash, uploads, answered, disordered>>

(* findFirst, orderBy seq desc *)
ReadsPrev(u) ==
    /\ upload[u].at = "prev"
    /\ upload' = [upload EXCEPT ![u].at = "create", ![u].link = Highest]
    /\ UNCHANGED <<prevHash, uploads, answered, disordered>>

CreatesRow(u, s) ==
    /\ upload[u].at = "create" /\ s \in NextSeqs(upload[u].left)
    /\ s \notin Stored
    /\ prevHash' = [t \in Stored \cup {s} |-> IF t = s THEN upload[u].link ELSE prevHash[t]]
    /\ upload' = [upload EXCEPT ![u].at = "exists", ![u].left = Left(u, s)]
    /\ UNCHANGED <<uploads, answered, disordered>>

(* A unique violation, a failed statement or a crash ends the request; rows so far stay. *)
IngestFails(u) ==
    /\ upload[u].at # "idle"
    /\ upload' = [upload EXCEPT ![u] = NoUpload]
    /\ UNCHANGED <<prevHash, uploads, answered, disordered>>

IngestAnswers(u) ==
    /\ upload[u].at = "exists" /\ upload[u].left = {}
    /\ answered' = answered \cup upload[u].batch
    /\ upload' = [upload EXCEPT ![u] = NoUpload]
    /\ UNCHANGED <<prevHash, uploads, disordered>>

WorkNext ==
    \E u \in Uploads :
        \/ \E batch \in SUBSET Seqs \ {{}} : Ingest(u, batch)
        \/ \E s \in Seqs : SkipStored(u, s) \/ NotStored(u, s) \/ CreatesRow(u, s)
        \/ ReadsPrev(u)
        \/ IngestFails(u)
        \/ IngestAnswers(u)

WorkSpec == WorkInit /\ [][WorkNext]_workVars

-----------------------------------------------------------------------------
(* Properties *)

LinkedOnce == \A s, t \in Stored : prevHash[s] = prevHash[t] => s = t

(* The chain does not fork as long as the device uploads one batch after the other and newer
   sessions after older ones, however often a request fails half-way and is repeated (ingest,
   61-104); and what was answered is stored. *)
InOrderChain ==
    /\ ~disordered => LinkedOnce
    /\ answered \subseteq Stored

-----------------------------------------------------------------------------
(* The inductive invariant *)

WorkTypeOK ==
    /\ Stored \subseteq Seqs /\ prevHash \in [Stored -> 0 .. LastSeq]
    /\ upload \in [Uploads -> [left : SUBSET Seqs, batch : SUBSET Seqs, link : 0 .. LastSeq,
                               at : {"idle", "exists", "prev", "create"}]]
    /\ uploads \in Nat /\ answered \subseteq Stored /\ disordered \in BOOLEAN

(* An upload has a session before it when it looks for its link, and what it has done is stored. *)
UploadsOK ==
    \A u \in Uploads :
        /\ upload[u].at \in {"prev", "create"} => upload[u].left # {}
        /\ upload[u].batch \ upload[u].left \subseteq Stored

(* In order: one upload at a time, whose sessions are newer than every stored one, and every row
   linked to the last one before it. *)
OrderOK ==
    ~disordered =>
        /\ \A u, v \in Uploads : upload[u].at # "idle" /\ upload[v].at # "idle" => u = v
        /\ \A u \in Uploads : \A s \in upload[u].left \ Stored, t \in Stored : t < s
        /\ \A u \in Uploads : upload[u].at = "create" =>
              \A t \in Stored : t <= upload[u].link
        /\ \A u \in Uploads : upload[u].at \in {"prev", "create"} => Min(upload[u].left) \notin Stored
        /\ \A u \in Uploads : upload[u].at = "create" =>
              \A s \in upload[u].left \ Stored : upload[u].link < s
        /\ \A s \in Stored : prevHash[s] < s /\ \A t \in Stored : t < s => t <= prevHash[s]

WorkInv == WorkTypeOK /\ UploadsOK /\ OrderOK
=============================================================================
