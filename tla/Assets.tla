------------------------------- MODULE Assets -------------------------------
(***************************************************************************)
(* Shared assets (assets.service.ts, skill-capabilities.ts): devices       *)
(* contribute versions and ask for published ones, administrators review,  *)
(* promote and deprecate.                                                  *)
(*                                                                         *)
(* A row's updatedAt is `stamp`, the number of writes to it: the code only *)
(* asks whether it is still the one it read.  A version is the             *)
(* capabilities it declares, those granted, and whether it was reviewed;   *)
(* the latest one is the last.  Bodies are screened on every path and      *)
(* abstracted to the fact that a contribution can be refused.              *)
(***************************************************************************)
EXTENDS Naturals, Sequences, FiniteSets, Null

CONSTANTS
    AssetIds,       \* primary keys
    AssetKeys,           \* (scope, teamId, kind, slug)
    TeamKeys,       \* the keys with a team: only these are covered by the unique index
    Capabilities,   \* exact capability names
    Contributors,        \* contributors
    AssetAdmins,      \* administrators
    Readers,        \* requests of devices for an asset
    MaxWrites       \* bound: writes to the asset table

Lifecycle == {"DRAFT", "IN_REVIEW", "PUBLISHED", "DEPRECATED"}
AssetRow == [key : AssetKeys, origin : {"AUTHORED", "PROMOTED"}, life : Lifecycle, stamp : Nat]

ASSUME AssetAssumption ==
    /\ TeamKeys \subseteq AssetKeys
    /\ None \notin AssetIds \cup AssetKeys
    /\ Contributors \cap AssetAdmins = {}
    /\ Readers \cap (Contributors \cup AssetAdmins) = {}
    /\ MaxWrites \in Nat
    /\ None \notin Nat \cup AssetRow

VARIABLES
    asset,      \* the asset rows: key, origin, lifecycle, stamp
    versions,   \* the version rows of an asset, oldest first
    task,       \* what a running call has read
    decided     \* history: the reviews, with the version read and the latest one

assetVars == <<asset, versions, task, decided>>

NoTask == [op |-> "idle"]
Rows == {a \in AssetIds : asset[a] # None}
Latest(a) == Len(versions[a])
Published == {a \in Rows : asset[a].life = "PUBLISHED"}
AssetCallers == Contributors \cup AssetAdmins \cup Readers
Writes == {w \in AssetIds \X (1 .. MaxWrites) : asset[w[1]] # None /\ w[2] <= asset[w[1]].stamp}

AssetInit ==
    /\ asset = [a \in AssetIds |-> None]
    /\ versions = [a \in AssetIds |-> <<>>]
    /\ task = [c \in AssetCallers |-> NoTask]
    /\ decided = {}

(* Every write stamps the row anew. *)
Touched(row, life) == [key |-> row.key, origin |-> row.origin, life |-> life, stamp |-> row.stamp + 1]
Touch(a, life) == [asset EXCEPT ![a] = Touched(@, life)]

Created(a, k, origin) ==
    [asset EXCEPT ![a] = [key |-> k, origin |-> origin, life |-> "IN_REVIEW", stamp |-> 1]]

(* The unique index does not compare rows whose team is null. *)
MayCreate(k) == k \notin TeamKeys \/ \A a \in Rows : asset[a].key # k

Bounded == Cardinality(Writes) < MaxWrites

NewVersion(required) == [required |-> required, granted |-> {}, reviewed |-> FALSE]

Ends(c) == task' = [task EXCEPT ![c] = NoTask]

-----------------------------------------------------------------------------
(* contribute: one READ COMMITTED transaction that looks for the asset and then writes *)

ContributeFinds(d, k, required) ==
    /\ task[d] = NoTask /\ Bounded
    /\ \E found \in Rows \cup {None} :
          /\ found = None <=> \A a \in Rows : asset[a].key # k
          /\ found # None => asset[found].key = k
          /\ task' = [task EXCEPT ![d] = [op |-> "contribute", key |-> k, required |-> required,
                                          found |-> found]]
    /\ UNCHANGED <<asset, versions, decided>>

(* Mutant of ContributedLife: the asset stays what it was. *)
StillPublished(a) == asset[a].life

(* A contribution to an existing asset withdraws it from use until it is reviewed again. *)
ContributedLife(a) == "IN_REVIEW"

ContributeWrites(d) ==
    LET t == task[d]
    IN /\ t.op = "contribute" /\ Bounded
       /\ \E a \in AssetIds :
             /\ \/ t.found = a /\ asset' = Touch(a, ContributedLife(a))
                \/ /\ t.found = None /\ a \notin Rows /\ MayCreate(t.key)
                   /\ asset' = Created(a, t.key, "AUTHORED")
             /\ versions' = [versions EXCEPT ![a] = Append(@, NewVersion(t.required))]
       /\ Ends(d)
       /\ UNCHANGED decided

(* The unique index refuses the second creation; the transaction is rolled back. *)
ContributeRefused(d) ==
    /\ task[d].op = "contribute"
    /\ task[d].found = None /\ ~MayCreate(task[d].key)
    /\ Ends(d)
    /\ UNCHANGED <<asset, versions, decided>>

-----------------------------------------------------------------------------
(* review, promote, deprecate: read the asset, then (but deprecate) its latest version, then write *)

ReadsAsset(r, a, op, life) ==
    /\ task[r] = NoTask
    /\ asset[a] # None /\ asset[a].life = life
    /\ task' = [task EXCEPT ![r] = [op |-> op, a |-> a, stamp |-> asset[a].stamp, latest |-> None]]
    /\ UNCHANGED <<asset, versions, decided>>

ReviewReads(r, a) == ReadsAsset(r, a, "review", "IN_REVIEW")
PromoteReads(r, a) == ReadsAsset(r, a, "promote", "PUBLISHED")
DeprecateReads(r, a) == ReadsAsset(r, a, "deprecate", "PUBLISHED")

(* The include of findUnique is a statement of its own. *)
ReadsVersion(r) ==
    /\ task[r].op \in {"review", "promote"} /\ task[r].latest = None
    /\ task' = [task EXCEPT ![r].latest = Latest(task[r].a)]
    /\ UNCHANGED <<asset, versions, decided>>

(* Mutant of UnchangedSince: updatedAt is not compared. *)
UnchangedUnchecked(r, life) == asset[task[r].a].life = life

(* updateMany matches only the row as it was read. *)
UnchangedSince(r, life) ==
    /\ asset[task[r].a].life = life
    /\ asset[task[r].a].stamp = task[r].stamp

Decides(r, what) ==
    decided' = decided \cup {[what |-> what, a |-> task[r].a, read |-> task[r].latest,
                            latest |-> Latest(task[r].a)]}

(* normalizeGrantedCapabilities: a reviewer grants only what the version declares. *)
Grants(required) == SUBSET required

Reviewed(v, granted) == [v EXCEPT !.granted = granted, !.reviewed = TRUE]

Approve(r, granted) ==
    LET t == task[r]
    IN /\ t.op = "review" /\ t.latest # None /\ t.latest # 0 /\ Bounded
       /\ granted \in Grants(versions[t.a][t.latest].required)
       /\ UnchangedSince(r, "IN_REVIEW")
       /\ ~versions[t.a][t.latest].reviewed
       /\ asset' = Touch(t.a, "PUBLISHED")
       /\ versions' = [versions EXCEPT ![t.a][t.latest] = Reviewed(@, granted)]
       /\ Decides(r, "approve")
       /\ Ends(r)

Reject(r) ==
    /\ task[r].op = "review" /\ task[r].latest # None /\ Bounded
    /\ UnchangedSince(r, "IN_REVIEW")
    /\ asset' = Touch(task[r].a, "DRAFT")
    /\ Decides(r, "reject")
    /\ Ends(r)
    /\ UNCHANGED versions

Deprecate(r) ==
    /\ task[r].op = "deprecate" /\ Bounded
    /\ UnchangedSince(r, "PUBLISHED")
    /\ asset' = Touch(task[r].a, "DEPRECATED")
    /\ Ends(r)
    /\ UNCHANGED <<versions, decided>>

(* The copy is created first and its version by a second statement, without a transaction. *)
PromoteCreates(r, a, k) ==
    LET t == task[r]
    IN /\ t.op = "promote" /\ t.latest # None /\ t.latest # 0 /\ Bounded
       /\ a \notin Rows /\ MayCreate(k)
       /\ asset' = Created(a, k, "PROMOTED")
       /\ task' = [task EXCEPT ![r] = [op |-> "copy", a |-> a,
                                       required |-> versions[t.a][t.latest].required]]
       /\ UNCHANGED <<versions, decided>>

PromoteCopies(r) ==
    LET t == task[r]
    IN /\ t.op = "copy"
       /\ versions' = [versions EXCEPT ![t.a] = Append(@, NewVersion(t.required))]
       /\ Ends(r)
       /\ UNCHANGED <<asset, decided>>

(* manifest and getAsset: the published row, then its latest version. *)

ServeFinds(d, a) ==
    /\ task[d] = NoTask
    /\ a \in Published
    /\ task' = [task EXCEPT ![d] = [op |-> "serve", a |-> a, stamp |-> asset[a].stamp]]
    /\ UNCHANGED <<asset, versions, decided>>

(* The include is a statement of its own again, and the row is not looked at any more: the answer
   carries whatever version is the latest now. `overlapped` is history, the row was written since. *)
ServeReads(d) ==
    LET t == task[d]
    IN /\ t.op = "serve" /\ versions[t.a] # <<>>
       /\ task' = [task EXCEPT ![d] = [op |-> "served", a |-> t.a, version |-> versions[t.a][Latest(t.a)],
                                       overlapped |-> asset[t.a].stamp # t.stamp]]
       /\ UNCHANGED <<asset, versions, decided>>

-----------------------------------------------------------------------------
(* Conflict, refusal, failure or crash, or the answer has been sent: the call ends where it stands. *)
AssetCallFails(c) ==
    /\ task[c] # NoTask
    /\ Ends(c)
    /\ UNCHANGED <<asset, versions, decided>>

-----------------------------------------------------------------------------
AssetNext ==
    \/ \E d \in Contributors :
          \/ \E k \in AssetKeys, required \in SUBSET Capabilities : ContributeFinds(d, k, required)
          \/ ContributeWrites(d)
          \/ ContributeRefused(d)
    \/ \E r \in AssetAdmins :
          \/ \E a \in AssetIds :
                ReviewReads(r, a) \/ PromoteReads(r, a) \/ DeprecateReads(r, a)
          \/ ReadsVersion(r)
          \/ \E granted \in SUBSET Capabilities : Approve(r, granted)
          \/ Reject(r)
          \/ Deprecate(r)
          \/ \E a \in AssetIds, k \in AssetKeys : PromoteCreates(r, a, k)
          \/ PromoteCopies(r)
    \/ \E d \in Readers : ServeReads(d) \/ \E a \in AssetIds : ServeFinds(d, a)
    \/ \E c \in AssetCallers : AssetCallFails(c)

AssetSpec == AssetInit /\ [][AssetNext]_assetVars

-----------------------------------------------------------------------------
(* Properties *)

Version == [required : SUBSET Capabilities, granted : SUBSET Capabilities, reviewed : BOOLEAN]

(* What a call holds: a contribution, an asset it has read, a copy it has to complete, an asset to
   be served and the answer made of it. *)
Contribution == [op : {"contribute"}, key : AssetKeys, required : SUBSET Capabilities,
                 found : AssetIds \cup {None}]
Reading == [op : {"review", "promote", "deprecate"}, a : AssetIds, stamp : Nat, latest : Nat \cup {None}]
Copying == [op : {"copy"}, a : AssetIds, required : SUBSET Capabilities]
Serving == [op : {"serve"}, a : AssetIds, stamp : Nat]
Served == [op : {"served"}, a : AssetIds, version : Version, overlapped : BOOLEAN]

Task == {NoTask} \cup Contribution \cup Reading \cup Copying \cup Serving \cup Served

AssetTypeOK ==
    /\ asset \in [AssetIds -> AssetRow \cup {None}]
    /\ versions \in [AssetIds -> Seq(Version)]
    /\ task \in [AssetCallers -> Task]
    /\ decided \subseteq [what : {"approve", "reject"}, a : AssetIds, read : Nat, latest : Nat]

IsReviewed(v) == v.reviewed /\ v.granted \subseteq v.required
LatestIsReviewed(a) == versions[a] # <<>> /\ IsReviewed(versions[a][Latest(a)])
AnswerIsReviewed(t) ==
    t.op = "served" /\ ~t.overlapped /\ asset[t.a].origin = "AUTHORED" => IsReviewed(t.version)

(* A call works on a row that exists, and has read the latest version of a contributed asset whose
   stamp is still the one it read; only promoted copies get versions without a new stamp. *)
TaskIsCurrent(t) ==
    /\ t.op = "contribute" /\ t.found # None => asset[t.found] # None
    /\ t.op = "copy" => asset[t.a] # None /\ asset[t.a].origin = "PROMOTED"
    /\ t.op = "served" => asset[t.a] # None /\ AnswerIsReviewed(t)
    /\ t.op = "serve" =>
          /\ asset[t.a] # None /\ t.stamp <= asset[t.a].stamp
          /\ t.stamp = asset[t.a].stamp => asset[t.a].life = "PUBLISHED"
    /\ t.op \in {"review", "promote", "deprecate"} =>
          /\ asset[t.a] # None /\ t.stamp <= asset[t.a].stamp
          /\ t.latest # None => t.latest <= Latest(t.a)
          /\ t.latest # None /\ asset[t.a].stamp = t.stamp /\ asset[t.a].origin = "AUTHORED"
                => t.latest = Latest(t.a)

TasksAreCurrent == \A c \in AssetCallers : TaskIsCurrent(task[c])

(* In the tables, the latest version of a published asset has been reviewed and grants nothing it
   does not declare, whatever contributions and reviews overlapped (contribute 74-99, review
   267-292); so has what a device is answered, if the asset was not written between the two
   statements of manifest and getAsset (114-123, 134-137).  Promoted copies are excepted: promote
   creates the row and copies the version into it later, without a transaction and whatever was
   contributed or reviewed meanwhile. *)
PublishedIsReviewed ==
    /\ \A a \in Published : asset[a].origin = "AUTHORED" => LatestIsReviewed(a)
    /\ \A d \in Readers : AnswerIsReviewed(task[d])

(* A decision about a contributed asset falls on the version the deciding call has read itself: no
   contribution and no other decision comes between its read and its write (231-243, 268-291). *)
DecidedOnLatest ==
    \A d \in decided : asset[d.a].origin = "AUTHORED" => d.read = d.latest

(* The device's side of the lifecycle as the code's comments state it: "device: manifest / get /
   search (published only, org-scoped)" (111), contribute "NEVER auto-publishes" (55).  No body that
   nobody has reviewed reaches a device, also not of an asset written while it is being read. *)
ServedIsReviewed ==
    \A d \in Readers : task[d].op = "served" /\ asset[task[d].a].origin = "AUTHORED"
                          => task[d].version.reviewed

(* The inductive invariant. *)
AssetInv ==
    /\ AssetTypeOK /\ TasksAreCurrent /\ PublishedIsReviewed /\ DecidedOnLatest
    /\ \A d \in decided : asset[d.a] # None
=============================================================================
