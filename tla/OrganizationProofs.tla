-------------------------- MODULE OrganizationProofs -------------------------
(***************************************************************************)
(* What an organization's members and devices share, for every number of   *)
(* them.                                                                   *)
(*                                                                         *)
(* Assets: AssetInv is inductive.  The core of it is TasksAreCurrent, that *)
(* an unchanged stamp means an unchanged latest version: from it a review  *)
(* falls on the version that was read, and a published asset is one whose  *)
(* latest version was reviewed.                                            *)
(*                                                                         *)
(* Learnings: LearningInv is inductive, and every step that changes the    *)
(* bundle is a review that raises its version.                             *)
(*                                                                         *)
(* Work sessions: WorkInv orders the stored rows, their links and the      *)
(* sessions an upload has left, so that uploads in order build one chain.  *)
(*                                                                         *)
(* Roles: mergePolicy narrows every layer, by induction on the number of   *)
(* layers; RolesInv adds that a version names one content of a role for    *)
(* as long as any bundle, finished or running, was read from it.           *)
(***************************************************************************)
EXTENDS Assets, Learnings, WorkSessions, Roles, NatInduction, SequenceTheorems, FiniteSetTheorems, TLAPS

-----------------------------------------------------------------------------
(***************************************************************************)
(* Shared assets                                                           *)
(***************************************************************************)

\* No asset exists.
LEMMA AssetInitially == AssetInit => AssetInv
<1> SUFFICES ASSUME AssetInit PROVE AssetInv
  OBVIOUS
<1>1. AssetTypeOK
  BY DEF AssetInit, AssetTypeOK, Task
<1>2. TasksAreCurrent
  BY DEF AssetInit, TasksAreCurrent, TaskIsCurrent, NoTask
<1>3. PublishedIsReviewed /\ DecidedOnLatest /\ \A d \in decided : asset[d.a] # None
  BY DEF AssetInit, PublishedIsReviewed, AnswerIsReviewed, NoTask, AssetCallers, DecidedOnLatest, Rows, Published
<1> QED BY <1>1, <1>2, <1>3 DEF AssetInv

\* What a call holds is told by its operation.
LEMMA TaskKinds ==
  ASSUME NEW t \in Task
  PROVE  /\ t.op = "contribute" => t \in Contribution
         /\ t.op \in {"review", "promote", "deprecate"} => t \in Reading
         /\ t.op = "copy" => t \in Copying
         /\ t.op = "serve" => t \in Serving
         /\ t.op = "served" => t \in Served
BY DEF Task, NoTask, Contribution, Reading, Copying, Serving, Served

\* An answer to a device is one of the tasks.
LEMMA AnswersAreTasks == TasksAreCurrent => \A d \in Readers : AnswerIsReviewed(task[d])
BY DEF TasksAreCurrent, TaskIsCurrent, AnswerIsReviewed, AssetCallers

\* The same of the next state.
LEMMA AnswersAreTasksNext == TasksAreCurrent' => (\A d \in Readers : AnswerIsReviewed(task[d]))'
BY DEF TasksAreCurrent, TaskIsCurrent, AnswerIsReviewed, AssetCallers

\* A step that changes no row.
LEMMA TaskChange ==
  ASSUME AssetInv, NEW c \in AssetCallers, NEW k \in Task, TaskIsCurrent(k),
         task' = [task EXCEPT ![c] = k], UNCHANGED <<asset, versions, decided>>
  PROVE  AssetInv'
<1>1. AssetTypeOK'
  BY DEF AssetInv, AssetTypeOK, AssetCallers, Task
<1>2. TasksAreCurrent'
  BY DEF AssetInv, AssetTypeOK, TasksAreCurrent, TaskIsCurrent, AnswerIsReviewed, Latest, AssetCallers
<1>3. PublishedIsReviewed' /\ DecidedOnLatest' /\ (\A d \in decided : asset[d.a] # None)'
  BY <1>2, AnswersAreTasksNext
     DEF AssetInv, PublishedIsReviewed, LatestIsReviewed, Latest, DecidedOnLatest, Rows, Published
<1> QED BY <1>1, <1>2, <1>3 DEF AssetInv

\* A call that is over is concerned with no row.
LEMMA NoTaskIsCurrent == NoTask \in Task /\ TaskIsCurrent(NoTask)
BY DEF Task, NoTask, TaskIsCurrent

\* updatedAt moves with every write, the origin with none.
LEMMA TouchedRow ==
  ASSUME NEW row \in AssetRow, NEW life \in Lifecycle
  PROVE  /\ Touched(row, life) \in AssetRow /\ Touched(row, life).stamp = row.stamp + 1
         /\ Touched(row, life).origin = row.origin /\ Touched(row, life).life = life
BY DEF Touched, AssetRow

\* A reviewed version grants what the reviewer granted.
LEMMA ReviewedVersion ==
  ASSUME NEW v \in Version, NEW granted \in SUBSET v.required
  PROVE  /\ Reviewed(v, granted) \in Version /\ Reviewed(v, granted).reviewed = TRUE
         /\ Reviewed(v, granted).granted \subseteq Reviewed(v, granted).required
BY DEF Reviewed, Version

\* A write to a row makes every reading of it old.
LEMMA Touching ==
  ASSUME AssetInv, NEW c \in AssetCallers, NEW a \in AssetIds, asset[a] # None, NEW life \in Lifecycle,
         asset' = Touch(a, life), Ends(c),
         versions' \in [AssetIds -> Seq(Version)],
         \A b \in AssetIds \ {a} : versions'[b] = versions[b],
         Len(versions'[a]) >= Len(versions[a]),
         life = "PUBLISHED" /\ asset[a].origin = "AUTHORED" => LatestIsReviewed(a)',
         decided' \subseteq [what : {"approve", "reject"}, a : AssetIds, read : Nat, latest : Nat],
         \A d \in decided' \ decided : d.a = a /\ (asset[a].origin = "AUTHORED" => d.read = d.latest)
  PROVE  AssetInv'
<1>0. /\ asset[a] \in AssetRow
      /\ asset' \in [AssetIds -> AssetRow \cup {None}]
      /\ asset'[a].stamp = asset[a].stamp + 1 /\ asset'[a].origin = asset[a].origin
      /\ asset'[a].life = life /\ asset'[a] \in AssetRow
      /\ \A b \in AssetIds \ {a} : asset'[b] = asset[b]
  <2> DEFINE row == Touched(asset[a], life)
  <2>1. asset[a] \in AssetRow /\ asset \in [AssetIds -> AssetRow \cup {None}]
    BY DEF AssetInv, AssetTypeOK
  <2>2. row \in AssetRow /\ row.stamp = asset[a].stamp + 1 /\ row.origin = asset[a].origin /\ row.life = life
    BY <2>1, TouchedRow
  <2>3. asset' = [asset EXCEPT ![a] = row]
    BY DEF Touch
  <2> HIDE DEF row
  <2> QED BY <2>1, <2>2, <2>3
<1>1. asset'[a] # None
  BY <1>0, AssetAssumption
<1>2. AssetTypeOK'
  BY <1>0, NoTaskIsCurrent DEF AssetInv, AssetTypeOK, Ends, AssetCallers, Task
<1>3. TasksAreCurrent'
  <2> SUFFICES ASSUME NEW e \in AssetCallers PROVE TaskIsCurrent(task[e])'
    BY DEF TasksAreCurrent, AssetCallers
  <2>1. CASE e = c
    BY <2>1, NoTaskIsCurrent DEF AssetInv, AssetTypeOK, Ends, AssetCallers, TaskIsCurrent, NoTask
  <2>2. CASE e # c
    <3>1. task'[e] = task[e] /\ task[e] \in Task /\ TaskIsCurrent(task[e])
      BY <2>2 DEF AssetInv, AssetTypeOK, TasksAreCurrent, Ends, AssetCallers, Task
    <3>2. task[e].op = "contribute" /\ task[e].found # None => asset'[task[e].found] # None
      BY <1>0, <1>1, <3>1, TaskKinds DEF TaskIsCurrent, Contribution
    <3>3. task[e].op = "copy" => asset'[task[e].a] # None /\ asset'[task[e].a].origin = "PROMOTED"
      BY <1>0, <1>1, <3>1, TaskKinds DEF TaskIsCurrent, Copying
    <3>4. ASSUME task[e].op \in {"review", "promote", "deprecate"}, task[e].a = a
          PROVE  /\ task[e].stamp < asset'[a].stamp
                 /\ task[e].latest # None => task[e].latest <= Len(versions'[a])
      <4>1. task[e].stamp \in Nat /\ task[e].stamp <= asset[a].stamp /\ asset[a].stamp \in Nat
        BY <1>0, <3>1, <3>4, TaskKinds DEF TaskIsCurrent, Reading, AssetRow
      <4>2. Len(versions[a]) \in Nat /\ Len(versions'[a]) \in Nat
        BY DEF AssetInv, AssetTypeOK
      <4>3. task[e].latest # None => task[e].latest \in Nat /\ task[e].latest <= Len(versions[a])
        BY <3>1, <3>4, TaskKinds DEF TaskIsCurrent, Reading, Latest
      <4> QED BY <1>0, <4>1, <4>2, <4>3
    <3>5. ASSUME task[e].op \in {"review", "promote", "deprecate"}, task[e].a # a
          PROVE  task[e].a \in AssetIds \ {a}
      BY <3>1, <3>5, TaskKinds DEF Reading
    <3>6. ASSUME task[e].op \in {"review", "promote", "deprecate"}
          PROVE  /\ asset'[task[e].a] # None /\ task[e].stamp <= asset'[task[e].a].stamp
                 /\ task[e].latest # None => task[e].latest <= Len(versions'[task[e].a])
                 /\ task[e].latest # None /\ asset'[task[e].a].stamp = task[e].stamp
                      /\ asset'[task[e].a].origin = "AUTHORED"
                     => task[e].latest = Len(versions'[task[e].a])
      <4>1. CASE task[e].a = a
        <5>1. task[e].stamp \in Nat /\ asset'[a].stamp \in Nat
          BY <1>0, <3>1, <3>6, TaskKinds DEF Reading, AssetRow
        <5> QED BY <1>1, <3>4, <3>6, <4>1, <5>1
      <4>2. CASE task[e].a # a
        BY <1>0, <3>1, <3>5, <3>6, <4>2 DEF TaskIsCurrent, Latest
      <4> QED BY <4>1, <4>2
    <3>7. ASSUME task[e].op = "serve"
          PROVE  /\ asset'[task[e].a] # None /\ task[e].stamp <= asset'[task[e].a].stamp
                 /\ task[e].stamp = asset'[task[e].a].stamp => asset'[task[e].a].life = "PUBLISHED"
      <4>1. task[e].a \in AssetIds /\ task[e].stamp \in Nat /\ asset[a].stamp \in Nat
        BY <1>0, <3>1, <3>7, TaskKinds DEF Serving, AssetRow
      <4>2. CASE task[e].a = a
        <5>1. task[e].stamp <= asset[a].stamp
          BY <3>1, <3>7, <4>2 DEF TaskIsCurrent
        <5> QED BY <1>0, <1>1, <4>1, <4>2, <5>1
      <4>3. CASE task[e].a # a
        BY <1>0, <3>1, <3>7, <4>1, <4>3 DEF TaskIsCurrent
      <4> QED BY <4>2, <4>3
    <3>8. ASSUME task[e].op = "served"
          PROVE  asset'[task[e].a] # None /\ asset'[task[e].a].origin = asset[task[e].a].origin
      BY <1>0, <1>1, <3>1, <3>8, TaskKinds DEF TaskIsCurrent, Served
    <3>9. TaskIsCurrent(task[e]) /\ (task[e].op = "served" => AnswerIsReviewed(task[e])')
      BY <3>1, <3>8 DEF TaskIsCurrent, AnswerIsReviewed
    <3> QED BY <3>1, <3>2, <3>3, <3>6, <3>7, <3>8, <3>9 DEF TaskIsCurrent, Latest
  <2> QED BY <2>1, <2>2
<1>4. PublishedIsReviewed'
  BY <1>0, <1>3, AnswersAreTasksNext DEF AssetInv, PublishedIsReviewed, LatestIsReviewed, Latest, Rows, Published
<1>5. DecidedOnLatest' /\ (\A d \in decided : asset[d.a] # None)'
  <2> SUFFICES ASSUME NEW d \in decided'
               PROVE  asset'[d.a] # None /\ (asset'[d.a].origin = "AUTHORED" => d.read = d.latest)
    BY DEF DecidedOnLatest
  <2>1. d.a \in AssetIds
    OBVIOUS
  <2>2. asset'[d.a].origin = asset[d.a].origin /\ (asset[d.a] # None => asset'[d.a] # None)
    BY <1>0, <1>1, <2>1
  <2>3. CASE d \in decided
    BY <2>2, <2>3 DEF AssetInv, DecidedOnLatest
  <2>4. CASE d \notin decided
    BY <1>1, <2>2, <2>4
  <2> QED BY <2>3, <2>4
<1> QED BY <1>2, <1>3, <1>4, <1>5 DEF AssetInv

\* A new row has a fresh id: no call and no decision is about it.
LEMMA Creating ==
  ASSUME AssetInv, NEW c \in AssetCallers, NEW a \in AssetIds, asset[a] = None, NEW key \in AssetKeys,
         NEW origin \in {"AUTHORED", "PROMOTED"}, asset' = Created(a, key, origin),
         NEW k \in Task, task' = [task EXCEPT ![c] = k],
         k = NoTask \/ (k \in Copying /\ k.a = a /\ origin = "PROMOTED"),
         versions' \in [AssetIds -> Seq(Version)],
         \A b \in AssetIds \ {a} : versions'[b] = versions[b],
         decided' = decided
  PROVE  AssetInv'
<1>0. /\ asset' \in [AssetIds -> AssetRow \cup {None}]
      /\ asset'[a] \in AssetRow /\ asset'[a].origin = origin /\ asset'[a].life = "IN_REVIEW"
      /\ \A b \in AssetIds \ {a} : asset'[b] = asset[b]
  BY DEF AssetInv, AssetTypeOK, Created, AssetRow, Lifecycle
<1>1. asset'[a] # None
  BY <1>0, AssetAssumption
<1>2. AssetTypeOK'
  BY <1>0 DEF AssetInv, AssetTypeOK, AssetCallers, Task
<1>3. TasksAreCurrent'
  <2> SUFFICES ASSUME NEW e \in AssetCallers PROVE TaskIsCurrent(task[e])'
    BY DEF TasksAreCurrent, AssetCallers
  <2>1. CASE e = c
    <3>1. task'[e] = k
      BY <2>1 DEF AssetInv, AssetTypeOK, AssetCallers
    <3> QED BY <1>0, <1>1, <3>1 DEF TaskIsCurrent, NoTask, Copying
  <2>2. CASE e # c
    <3>1. task'[e] = task[e] /\ task[e] \in Task /\ TaskIsCurrent(task[e])
      BY <2>2 DEF AssetInv, AssetTypeOK, TasksAreCurrent, AssetCallers, Task
    <3>2. task[e].op = "contribute" /\ task[e].found # None => asset'[task[e].found] # None
      BY <1>0, <1>1, <3>1, TaskKinds DEF TaskIsCurrent, Contribution
    <3>3. task[e].op \in {"copy", "review", "promote", "deprecate", "serve", "served"}
            => task[e].a \in AssetIds \ {a}
      BY <3>1, TaskKinds DEF TaskIsCurrent, Copying, Reading, Serving, Served
    <3> QED BY <1>0, <3>1, <3>2, <3>3 DEF TaskIsCurrent, AnswerIsReviewed, Latest
  <2> QED BY <2>1, <2>2
<1>4. PublishedIsReviewed'
  BY <1>0, <1>3, AnswersAreTasksNext DEF AssetInv, PublishedIsReviewed, LatestIsReviewed, Latest, Rows, Published
<1>5. DecidedOnLatest' /\ (\A d \in decided : asset[d.a] # None)'
  BY <1>0, <1>1 DEF AssetInv, AssetTypeOK, DecidedOnLatest
<1> QED BY <1>2, <1>3, <1>4, <1>5 DEF AssetInv

\* An appended version is a version.
LEMMA Appending ==
  ASSUME AssetInv, NEW a \in AssetIds, NEW required \in SUBSET Capabilities,
         versions' = [versions EXCEPT ![a] = Append(@, NewVersion(required))]
  PROVE  /\ versions' \in [AssetIds -> Seq(Version)]
         /\ \A b \in AssetIds \ {a} : versions'[b] = versions[b]
         /\ Len(versions'[a]) >= Len(versions[a])
<1>1. versions[a] \in Seq(Version) /\ NewVersion(required) \in Version
  BY DEF AssetInv, AssetTypeOK, NewVersion, Version
<1>2. Append(versions[a], NewVersion(required)) \in Seq(Version)
      /\ Len(Append(versions[a], NewVersion(required))) = Len(versions[a]) + 1
  BY <1>1
<1>3. versions \in [AssetIds -> Seq(Version)] /\ Len(versions[a]) \in Nat
  BY <1>1 DEF AssetInv, AssetTypeOK
<1> QED BY <1>2, <1>3

\* contribute: the lifecycle and the version are written together.
LEMMA ContributeKeepsInv ==
  ASSUME AssetInv, NEW d \in Contributors,
         \/ \E key \in AssetKeys, required \in SUBSET Capabilities : ContributeFinds(d, key, required)
         \/ ContributeWrites(d) \/ ContributeRefused(d)
  PROVE  AssetInv'
<1>0. d \in AssetCallers
  BY DEF AssetCallers
<1>1. ASSUME NEW key \in AssetKeys, NEW required \in SUBSET Capabilities, ContributeFinds(d, key, required)
      PROVE  AssetInv'
  <2>1. PICK found \in Rows \cup {None} :
           task' = [task EXCEPT ![d] = [op |-> "contribute", key |-> key, required |-> required, found |-> found]]
    BY <1>1 DEF ContributeFinds
  <2> DEFINE k == [op |-> "contribute", key |-> key, required |-> required, found |-> found]
  <2>2. k \in Task /\ TaskIsCurrent(k)
    BY <2>1 DEF Task, Contribution, TaskIsCurrent, Rows
  <2> QED BY <1>0, <1>1, <2>1, <2>2, TaskChange DEF ContributeFinds
<1>2. CASE ContributeWrites(d)
  <2>0. task[d] \in Contribution /\ TaskIsCurrent(task[d])
    BY <1>0, <1>2, TaskKinds DEF ContributeWrites, AssetInv, AssetTypeOK, TasksAreCurrent, AssetCallers, Task
  <2>1. PICK a \in AssetIds :
          /\ \/ task[d].found = a /\ asset' = Touch(a, ContributedLife(a))
             \/ /\ task[d].found = None /\ a \notin Rows
                /\ asset' = Created(a, task[d].key, "AUTHORED")
          /\ versions' = [versions EXCEPT ![a] = Append(@, NewVersion(task[d].required))]
    BY <1>2 DEF ContributeWrites
  <2>2. /\ versions' \in [AssetIds -> Seq(Version)]
        /\ \A b \in AssetIds \ {a} : versions'[b] = versions[b]
        /\ Len(versions'[a]) >= Len(versions[a])
    BY <2>0, <2>1, Appending DEF Contribution
  <2>3. Ends(d) /\ decided' = decided
    BY <1>2 DEF ContributeWrites
  <2>4. CASE task[d].found = a /\ asset' = Touch(a, "IN_REVIEW")
    <3>1. asset[a] # None
      BY <2>0, <2>4, AssetAssumption DEF TaskIsCurrent, Contribution
    <3>2. decided' \subseteq [what : {"approve", "reject"}, a : AssetIds, read : Nat, latest : Nat]
      BY <2>3 DEF AssetInv, AssetTypeOK
    <3> QED BY <1>0, <2>2, <2>3, <2>4, <3>1, <3>2, Touching DEF Lifecycle
  <2>5. CASE a \notin Rows /\ asset' = Created(a, task[d].key, "AUTHORED")
    <3>1. asset[a] = None /\ task[d].key \in AssetKeys
      BY <2>0, <2>5 DEF Rows, Contribution
    <3> QED BY <1>0, <2>2, <2>3, <2>5, <3>1, NoTaskIsCurrent, Creating DEF Ends
  <2> QED BY <2>1, <2>4, <2>5 DEF ContributedLife
<1>3. CASE ContributeRefused(d)
  BY <1>0, <1>3, NoTaskIsCurrent, TaskChange DEF ContributeRefused, Ends
<1> QED BY <1>1, <1>2, <1>3

\* review, promote and deprecate read the row and, in another statement, its latest version.
LEMMA ReadingKeepsInv ==
  ASSUME AssetInv, NEW r \in AssetAdmins,
         \/ \E a \in AssetIds : ReviewReads(r, a) \/ PromoteReads(r, a) \/ DeprecateReads(r, a)
         \/ ReadsVersion(r)
  PROVE  AssetInv'
<1>0. r \in AssetCallers
  BY DEF AssetCallers
<1>1. ASSUME NEW a \in AssetIds, NEW op \in {"review", "promote", "deprecate"}, NEW life,
             ReadsAsset(r, a, op, life)
      PROVE  AssetInv'
  <2> DEFINE k == [op |-> op, a |-> a, stamp |-> asset[a].stamp, latest |-> None]
  <2>1. asset[a] \in AssetRow /\ asset[a] # None
    BY <1>1 DEF ReadsAsset, AssetInv, AssetTypeOK
  <2>2. k \in Task /\ TaskIsCurrent(k)
    BY <2>1 DEF Task, Reading, TaskIsCurrent, AssetRow
  <2> QED BY <1>0, <1>1, <2>2, TaskChange DEF ReadsAsset
<1>2. CASE ReadsVersion(r)
  <2> DEFINE k == [task[r] EXCEPT !.latest = Latest(task[r].a)]
  <2>1. task[r] \in Reading /\ TaskIsCurrent(task[r])
    BY <1>0, <1>2, TaskKinds DEF ReadsVersion, AssetInv, AssetTypeOK, TasksAreCurrent, AssetCallers, Task
  <2>2. Latest(task[r].a) \in Nat
    BY <2>1 DEF AssetInv, AssetTypeOK, Reading, Latest
  <2>3. k \in Reading /\ k.a = task[r].a /\ k.latest = Latest(task[r].a) /\ k.stamp = task[r].stamp /\ k.op = task[r].op
    BY <2>1, <2>2 DEF Reading
  <2>4. k \in Task /\ TaskIsCurrent(k)
    BY <2>1, <2>2, <2>3 DEF Task, Reading, TaskIsCurrent
  <2>5. task' = [task EXCEPT ![r] = k]
    BY <1>2 DEF ReadsVersion
  <2> QED BY <1>0, <1>2, <2>4, <2>5, TaskChange DEF ReadsVersion
<1> QED BY <1>1, <1>2 DEF ReviewReads, PromoteReads, DeprecateReads

\* A decision is written only to the row that was read, so it is about the latest version.
LEMMA DecisionKeepsInv ==
  ASSUME AssetInv, NEW r \in AssetAdmins,
         (\E granted \in SUBSET Capabilities : Approve(r, granted)) \/ Reject(r) \/ Deprecate(r)
  PROVE  AssetInv'
<1> DEFINE t == task[r]
           n == task[r].latest
<1>a. r \in AssetCallers /\ t \in Reading /\ TaskIsCurrent(t)
  BY TaskKinds DEF Approve, Reject, Deprecate, AssetInv, AssetTypeOK, TasksAreCurrent, AssetCallers, Task
<1>b. PICK a \in AssetIds : a = task[r].a
  BY <1>a DEF Reading
<1>0. r \in AssetCallers /\ t \in Reading /\ TaskIsCurrent(t) /\ a = task[r].a /\ asset[a] # None
  BY <1>a, <1>b DEF TaskIsCurrent, Reading
<1>1. asset[a].stamp = t.stamp /\ Ends(r)
  BY <1>0 DEF Approve, Reject, Deprecate, UnchangedSince
<1>2. versions \in [AssetIds -> Seq(Version)] /\ Len(versions[a]) \in Nat
  BY <1>0 DEF AssetInv, AssetTypeOK
<1>3. ASSUME n # None PROVE n \in Nat /\ n <= Len(versions[a]) /\ (asset[a].origin = "AUTHORED" => n = Len(versions[a]))
  BY <1>0, <1>1, <1>3 DEF TaskIsCurrent, Reading, Latest
<1>4. ASSUME n # None, NEW what \in {"approve", "reject"}, Decides(r, what)
      PROVE  /\ decided' \subseteq [what : {"approve", "reject"}, a : AssetIds, read : Nat, latest : Nat]
             /\ \A d \in decided' \ decided : d.a = a /\ (asset[a].origin = "AUTHORED" => d.read = d.latest)
  BY <1>0, <1>2, <1>3, <1>4 DEF Decides, Latest, AssetInv, AssetTypeOK
<1>5. ASSUME NEW granted \in SUBSET Capabilities, Approve(r, granted) PROVE AssetInv'
  <2> DEFINE w == Reviewed(versions[a][n], granted)
  <2>1. n \in 1 .. Len(versions[a]) /\ (asset[a].origin = "AUTHORED" => n = Len(versions[a]))
    <3>1. n # None /\ n # 0
      BY <1>0, <1>5 DEF Approve
    <3>2. n \in Nat /\ n <= Len(versions[a]) /\ (asset[a].origin = "AUTHORED" => n = Len(versions[a]))
      BY <1>3, <3>1
    <3> QED BY <1>2, <3>1, <3>2
  <2>2. versions[a][n] \in Version /\ granted \in SUBSET versions[a][n].required
    <3>1. versions[a] \in Seq(Version)
      BY <1>0, <1>2
    <3>2. versions[a][n] \in Version
      BY <2>1, <3>1
    <3>3. granted \in SUBSET versions[a][n].required
      BY <1>0, <1>5 DEF Approve, Grants
    <3> QED BY <3>2, <3>3
  <2>3. w \in Version /\ w.reviewed = TRUE /\ w.granted \subseteq w.required
    BY <2>2, ReviewedVersion
  <2>4. versions' = [versions EXCEPT ![a] = [versions[a] EXCEPT ![n] = w]]
    BY <1>0, <1>5 DEF Approve
  <2>5. [versions[a] EXCEPT ![n] = w] \in Seq(Version) /\ Len([versions[a] EXCEPT ![n] = w]) = Len(versions[a])
        /\ [versions[a] EXCEPT ![n] = w][n] = w
    <3>1. versions[a] \in Seq(Version)
      BY <1>0, <1>2
    <3> QED BY <2>1, <2>3, <3>1, ExceptSeq
  <2>6. /\ versions' \in [AssetIds -> Seq(Version)]
        /\ \A b \in AssetIds \ {a} : versions'[b] = versions[b]
        /\ versions'[a] = [versions[a] EXCEPT ![n] = w]
    BY <1>0, <1>2, <2>4, <2>5
  <2>7. asset[a].origin = "AUTHORED" => LatestIsReviewed(a)'
    <3>1. Len(versions'[a]) = Len(versions[a]) /\ versions'[a][n] = w /\ Len(versions[a]) # 0
      BY <1>2, <2>1, <2>5, <2>6
    <3>2. versions'[a] # <<>>
      BY <3>1
    <3>3. asset[a].origin = "AUTHORED" => versions'[a][Len(versions'[a])] = w
      BY <2>1, <3>1
    <3> HIDE DEF w
    <3> QED BY <2>3, <3>2, <3>3 DEF LatestIsReviewed, IsReviewed, Latest
  <2>8. asset' = Touch(a, "PUBLISHED") /\ n # None /\ Decides(r, "approve")
    BY <1>0, <1>5 DEF Approve
  <2>9. Len(versions'[a]) >= Len(versions[a]) /\ "PUBLISHED" \in Lifecycle
    BY <1>2, <2>5, <2>6 DEF Lifecycle
  <2>10. /\ decided' \subseteq [what : {"approve", "reject"}, a : AssetIds, read : Nat, latest : Nat]
         /\ \A d \in decided' \ decided : d.a = a /\ (asset[a].origin = "AUTHORED" => d.read = d.latest)
    BY <1>4, <2>8
  <2> HIDE DEF w, n
  <2> QED BY <1>0, <1>1, <2>6, <2>7, <2>8, <2>9, <2>10, Touching
<1>6. CASE Reject(r)
  <2>1. asset' = Touch(a, "DRAFT") /\ n # None /\ Decides(r, "reject") /\ versions' = versions
    BY <1>0, <1>6 DEF Reject
  <2> QED BY <1>0, <1>1, <1>2, <1>4, <2>1, Touching DEF Lifecycle
<1>7. CASE Deprecate(r)
  <2>1. asset' = Touch(a, "DEPRECATED") /\ versions' = versions /\ decided' = decided
    BY <1>0, <1>7 DEF Deprecate
  <2>2. decided' \subseteq [what : {"approve", "reject"}, a : AssetIds, read : Nat, latest : Nat]
    BY <2>1 DEF AssetInv, AssetTypeOK
  <2> QED BY <1>0, <1>1, <1>2, <2>1, <2>2, Touching DEF Lifecycle
<1> QED BY <1>5, <1>6, <1>7

\* promote: a version that is appended without a stamp belongs to a promoted copy.
LEMMA PromoteKeepsInv ==
  ASSUME AssetInv, NEW r \in AssetAdmins,
         (\E a \in AssetIds, key \in AssetKeys : PromoteCreates(r, a, key)) \/ PromoteCopies(r)
  PROVE  AssetInv'
<1>0. r \in AssetCallers
  BY DEF AssetCallers
<1>1. ASSUME NEW a \in AssetIds, NEW key \in AssetKeys, PromoteCreates(r, a, key) PROVE AssetInv'
  <2> DEFINE t == task[r]
             k == [op |-> "copy", a |-> a, required |-> versions[t.a][t.latest].required]
  <2>1. t \in Reading /\ TaskIsCurrent(t) /\ t.latest # None /\ t.latest # 0
    BY <1>0, <1>1, TaskKinds DEF PromoteCreates, AssetInv, AssetTypeOK, TasksAreCurrent, AssetCallers, Task
  <2>2. t.a \in AssetIds /\ t.latest \in Nat /\ t.latest <= Len(versions[t.a])
    BY <1>1, <2>1 DEF PromoteCreates, TaskIsCurrent, Reading, Latest
  <2>3. versions[t.a] \in Seq(Version)
    BY <2>2 DEF AssetInv, AssetTypeOK
  <2>4. versions[t.a][t.latest] \in Version
    BY <2>1, <2>2, <2>3
  <2>5. k \in Copying /\ k \in Task
    BY <2>4 DEF Copying, Task, Version
  <2>6. asset[a] = None /\ asset' = Created(a, key, "PROMOTED") /\ task' = [task EXCEPT ![r] = k]
        /\ versions' = versions /\ decided' = decided
    BY <1>1 DEF PromoteCreates, Rows
  <2>7. versions \in [AssetIds -> Seq(Version)]
    BY DEF AssetInv, AssetTypeOK
  <2> QED BY <1>0, <2>5, <2>6, <2>7, Creating
<1>2. CASE PromoteCopies(r)
  <2> DEFINE a == task[r].a
  <2>1. task[r] \in Copying /\ TaskIsCurrent(task[r])
    BY <1>0, <1>2, TaskKinds DEF PromoteCopies, AssetInv, AssetTypeOK, TasksAreCurrent, AssetCallers, Task
  <2>2. a \in AssetIds /\ asset[a].origin = "PROMOTED" /\ task[r].required \in SUBSET Capabilities
    BY <1>2, <2>1 DEF PromoteCopies, TaskIsCurrent, Copying
  <2>3. /\ versions' \in [AssetIds -> Seq(Version)]
        /\ \A b \in AssetIds \ {a} : versions'[b] = versions[b]
        /\ Len(versions'[a]) >= Len(versions[a])
    BY <1>2, <2>2, Appending DEF PromoteCopies
  <2>4. UNCHANGED <<asset, decided>> /\ task' = [task EXCEPT ![r] = NoTask]
    BY <1>2 DEF PromoteCopies, Ends
  <2>5. AssetTypeOK'
    BY <1>0, <2>3, <2>4, NoTaskIsCurrent DEF AssetInv, AssetTypeOK, AssetCallers
  <2>6. TasksAreCurrent'
    <3> SUFFICES ASSUME NEW e \in AssetCallers PROVE TaskIsCurrent(task[e])'
      BY DEF TasksAreCurrent, AssetCallers
    <3>1. CASE e = r
      BY <1>0, <2>4, <3>1 DEF AssetInv, AssetTypeOK, AssetCallers, TaskIsCurrent, NoTask
    <3>2. CASE e # r
      <4>1. task'[e] = task[e] /\ task[e] \in Task /\ TaskIsCurrent(task[e])
        BY <2>4, <3>2 DEF AssetInv, AssetTypeOK, TasksAreCurrent, AssetCallers, Task
      <4>2. ASSUME task[e].op \in {"review", "promote", "deprecate"}
            PROVE  /\ task[e].a \in AssetIds /\ task[e].latest \in Nat \cup {None}
                   /\ Len(versions[task[e].a]) \in Nat /\ Len(versions'[task[e].a]) \in Nat
                   /\ Len(versions[task[e].a]) <= Len(versions'[task[e].a])
        <5>1. task[e].a \in AssetIds /\ task[e].latest \in Nat \cup {None}
          BY <4>1, <4>2, TaskKinds DEF Reading
        <5>2. Len(versions[task[e].a]) \in Nat /\ Len(versions'[task[e].a]) \in Nat
          BY <2>3, <5>1 DEF AssetInv, AssetTypeOK
        <5>3. CASE task[e].a = a
          BY <2>3, <5>1, <5>2, <5>3
        <5>4. CASE task[e].a # a
          BY <2>3, <5>1, <5>2, <5>4
        <5> QED BY <5>1, <5>2, <5>3, <5>4
      <4>3. ASSUME task[e].op \in {"review", "promote", "deprecate"}, task[e].latest # None
            PROVE  /\ task[e].latest <= Len(versions'[task[e].a])
                   /\ asset[task[e].a].origin = "AUTHORED" => versions'[task[e].a] = versions[task[e].a]
        <5>1. task[e].latest <= Len(versions[task[e].a])
          BY <4>1, <4>3 DEF TaskIsCurrent, Latest
        <5>2. task[e].latest \in Nat
          BY <4>2, <4>3
        <5>3. task[e].latest <= Len(versions'[task[e].a])
          <6> DEFINE l == task[e].latest
                     m == Len(versions[task[e].a])
                     n == Len(versions'[task[e].a])
          <6>1. l \in Nat /\ m \in Nat /\ n \in Nat /\ l <= m /\ m <= n
            BY <4>2, <4>3, <5>1, <5>2
          <6> HIDE DEF l, m, n
          <6>2. l <= n
            BY <6>1
          <6> QED BY <6>2 DEF l, n
        <5>4. ASSUME asset[task[e].a].origin = "AUTHORED" PROVE versions'[task[e].a] = versions[task[e].a]
          <6>1. task[e].a # a /\ task[e].a \in AssetIds
            BY <2>2, <4>2, <4>3, <5>4
          <6> QED BY <2>3, <6>1
        <5> QED BY <5>3, <5>4
      <4> QED BY <2>4, <4>1, <4>2, <4>3 DEF TaskIsCurrent, AnswerIsReviewed, Latest
    <3> QED BY <3>1, <3>2
  <2>7. PublishedIsReviewed'
    BY <2>2, <2>3, <2>4, <2>6, AnswersAreTasksNext DEF AssetInv, PublishedIsReviewed, LatestIsReviewed, Latest, Rows, Published
  <2>8. DecidedOnLatest' /\ (\A d \in decided : asset[d.a] # None)'
    BY <2>4 DEF AssetInv, DecidedOnLatest
  <2> QED BY <2>5, <2>6, <2>7, <2>8 DEF AssetInv
<1> QED BY <1>1, <1>2

\* manifest, getAsset: the answer carries the version that is the latest at the second statement,
\* which is a reviewed one if the row is still the one that was found published.
LEMMA ServingKeepsInv ==
  ASSUME AssetInv, NEW d \in Readers, ServeReads(d) \/ \E a \in AssetIds : ServeFinds(d, a)
  PROVE  AssetInv'
<1>0. d \in AssetCallers
  BY DEF AssetCallers
<1>1. ASSUME NEW a \in AssetIds, ServeFinds(d, a) PROVE AssetInv'
  <2> DEFINE k == [op |-> "serve", a |-> a, stamp |-> asset[a].stamp]
  <2>1. asset[a] \in AssetRow /\ asset[a] # None /\ asset[a].life = "PUBLISHED"
    BY <1>1 DEF ServeFinds, Published, Rows, AssetInv, AssetTypeOK
  <2>2. k \in Task /\ TaskIsCurrent(k)
    BY <2>1 DEF Task, Serving, TaskIsCurrent, AssetRow
  <2> QED BY <1>0, <1>1, <2>2, TaskChange DEF ServeFinds
<1>2. CASE ServeReads(d)
  <2> DEFINE t == task[d]
             v == versions[t.a][Latest(t.a)]
             k == [op |-> "served", a |-> t.a, version |-> v, overlapped |-> asset[t.a].stamp # t.stamp]
  <2>1. t \in Serving /\ TaskIsCurrent(t) /\ versions[t.a] # <<>> /\ t.a \in AssetIds
    BY <1>0, <1>2, TaskKinds DEF ServeReads, AssetInv, AssetTypeOK, TasksAreCurrent, Serving
  <2>2. v \in Version
    <3>1. versions[t.a] \in Seq(Version)
      BY <2>1 DEF AssetInv, AssetTypeOK
    <3> QED BY <2>1, <3>1 DEF Latest
  <2>3. asset[t.a] # None /\ (asset[t.a].stamp = t.stamp => t.a \in Published)
    BY <2>1 DEF Serving, TaskIsCurrent, Published, Rows
  <2>4. asset[t.a].stamp = t.stamp /\ asset[t.a].origin = "AUTHORED" => IsReviewed(v)
    BY <2>3 DEF AssetInv, PublishedIsReviewed, LatestIsReviewed
  <2>5. k \in Served /\ k \in Task
    BY <2>1, <2>2 DEF Served, Task
  <2>6. TaskIsCurrent(k)
    BY <2>3, <2>4 DEF TaskIsCurrent, AnswerIsReviewed
  <2>7. task' = [task EXCEPT ![d] = k] /\ UNCHANGED <<asset, versions, decided>>
    BY <1>2 DEF ServeReads
  <2> HIDE DEF k
  <2> QED BY <1>0, <2>5, <2>6, <2>7, TaskChange
<1> QED BY <1>1, <1>2

\* AssetInv holds in every reachable state.
THEOREM AssetInvariant == AssetSpec => []AssetInv
<1>1. AssetInv /\ [AssetNext]_assetVars => AssetInv'
  <2> SUFFICES ASSUME AssetInv, [AssetNext]_assetVars PROVE AssetInv'
    OBVIOUS
  <2>1. ASSUME NEW c \in AssetCallers, AssetCallFails(c) PROVE AssetInv'
    BY <2>1, NoTaskIsCurrent, TaskChange DEF AssetCallFails, Ends, AssetCallers
  <2>2. CASE UNCHANGED assetVars
    <3>1. AssetTypeOK' /\ TasksAreCurrent'
      BY <2>2 DEF assetVars, AssetInv, AssetTypeOK, TasksAreCurrent, TaskIsCurrent, AnswerIsReviewed, Latest
    <3>2. PublishedIsReviewed' /\ DecidedOnLatest' /\ (\A d \in decided : asset[d.a] # None)'
      BY <2>2, <3>1, AnswersAreTasksNext
         DEF assetVars, AssetInv, PublishedIsReviewed, LatestIsReviewed, Latest, DecidedOnLatest, Rows, Published
    <3> QED BY <3>1, <3>2 DEF AssetInv
  <2> QED BY <2>1, <2>2, ContributeKeepsInv, ReadingKeepsInv, DecisionKeepsInv, PromoteKeepsInv,
             ServingKeepsInv DEF AssetNext
<1> QED BY AssetInitially, <1>1, PTL DEF AssetSpec

\* contribute, review, manifest, getAsset: the latest version of a published contribution was
\* reviewed, and so was what a device is answered unless the asset is written in between.
THEOREM PublishedAssetsAreReviewed == AssetSpec => []PublishedIsReviewed
BY AssetInvariant, PTL DEF AssetInv

\* review: the version that is approved or rejected is the one the administrator has read.
THEOREM ReviewsFallOnTheLatest == AssetSpec => []DecidedOnLatest
BY AssetInvariant, PTL DEF AssetInv
-----------------------------------------------------------------------------
(***************************************************************************)
(* Learnings                                                               *)
(***************************************************************************)

\* Pattern q is in the bundle of d.
ActiveAt(d, q) == d.cand[q] # None /\ d.cand[q].status = "APPROVED"

\* A transaction stores one row and ends.
Commits(c, p, row) ==
  /\ db' \in LearningTables /\ db'.cand = [db.cand EXCEPT ![p] = row]
  /\ tx' = [tx EXCEPT ![c] = Idle] /\ aged' = aged

\* No candidate exists.
LEMMA LearningInitially == LearningInit => LearningInv
<1> SUFFICES ASSUME LearningInit PROVE LearningInv
  OBVIOUS
<1>1. LearningTypeOK
  <2>1. db \in LearningTables
    BY DEF LearningInit, LearningTables
  <2> QED BY <2>1 DEF LearningInit, LearningTypeOK
<1>2. ReviewedExists
  BY DEF LearningInit, ReviewedExists
<1>3. ActiveIsApproved
  BY DEF LearningInit, ActiveIsApproved, Active
<1> QED BY <1>1, <1>2, <1>3 DEF LearningInv

\* The property, pattern by pattern.
LEMMA ActiveByPattern ==
  ActiveIsApproved <=>
    \A q \in Patterns : ActiveAt(db, q) => \E v \in reviewed : v.p = q /\ v.text = db.cand[q].summary
<1>1. \A a : a \in Active(db) <=> \E q \in Patterns : ActiveAt(db, q) /\ a = <<q, db.cand[q].summary>>
  BY DEF Active, ActiveAt
<1>2. ASSUME ActiveIsApproved, NEW q \in Patterns, ActiveAt(db, q)
      PROVE  \E v \in reviewed : v.p = q /\ v.text = db.cand[q].summary
  <2>1. <<q, db.cand[q].summary>> \in Active(db)
    BY <1>1, <1>2
  <2> QED BY <1>2, <2>1 DEF ActiveIsApproved
<1>3. ASSUME \A q \in Patterns : ActiveAt(db, q) => \E v \in reviewed : v.p = q /\ v.text = db.cand[q].summary,
             NEW a \in Active(db)
      PROVE  \E v \in reviewed : v.p = a[1] /\ v.text = a[2]
  <2>1. PICK q \in Patterns : ActiveAt(db, q) /\ a = <<q, db.cand[q].summary>>
    BY <1>1
  <2> QED BY <1>3, <2>1
<1> QED BY <1>2, <1>3 DEF ActiveIsApproved

\* Two states of the tables with the same approved texts have one bundle.
LEMMA SameActive ==
  ASSUME NEW d, NEW e,
         \A q \in Patterns : ActiveAt(d, q) <=> ActiveAt(e, q),
         \A q \in Patterns : ActiveAt(d, q) => d.cand[q].summary = e.cand[q].summary
  PROVE  Active(d) = Active(e)
<1>1. \A a : a \in Active(d) <=> \E q \in Patterns : ActiveAt(d, q) /\ a = <<q, d.cand[q].summary>>
  BY DEF Active, ActiveAt
<1>2. \A a : a \in Active(e) <=> \E q \in Patterns : ActiveAt(e, q) /\ a = <<q, e.cand[q].summary>>
  BY DEF Active, ActiveAt
<1>3. \A a : a \in Active(d) <=> a \in Active(e)
  BY <1>1, <1>2
<1> QED BY <1>3

\* A transaction begins, is repeated on a new snapshot or ends without a commit.
LEMMA TransactionMoves ==
  ASSUME LearningInv, NEW c \in Devices \cup Reviewers, NEW k,
         c \in Devices => k \in {Idle} \cup Submission,
         c \in Reviewers => k \in {Idle} \cup Decision,
         c \in Reviewers /\ k # Idle => k.snap.cand[k.p] # None /\ db.cand[k.p] # None,
         tx' = [tx EXCEPT ![c] = k], UNCHANGED <<db, aged, reviewed>>,
         shown' = shown \/ \E r \in Reviewers : shown' = [shown EXCEPT ![r] = None]
  PROVE  LearningInv'
<1>1. LearningTypeOK'
  <2>1. k \in {Idle} \cup Submission \cup Decision
    OBVIOUS
  <2>2. tx' \in [Devices \cup Reviewers -> {Idle} \cup Submission \cup Decision]
    BY <2>1 DEF LearningInv, LearningTypeOK
  <2>3. /\ \A d \in Devices : tx'[d] \in {Idle} \cup Submission
        /\ \A r \in Reviewers : tx'[r] \in {Idle} \cup Decision
    BY DEF LearningInv, LearningTypeOK
  <2>4. shown' \in [Reviewers -> {None} \cup [p : Patterns, revision : Nat, text : Texts]]
    BY DEF LearningInv, LearningTypeOK
  <2> QED BY <2>2, <2>3, <2>4 DEF LearningInv, LearningTypeOK
<1>2. ReviewedExists'
  <2>1. \A r \in Reviewers : shown'[r] # None => db'.cand[shown'[r].p] # None
    BY DEF LearningInv, LearningTypeOK, ReviewedExists
  <2>2. \A r \in Reviewers : tx'[r] # Idle => tx'[r].snap.cand[tx'[r].p] # None /\ db'.cand[tx'[r].p] # None
    BY DEF LearningInv, LearningTypeOK, ReviewedExists
  <2> QED BY <2>1, <2>2 DEF ReviewedExists
<1>3. ActiveIsApproved'
  BY DEF LearningInv, ActiveIsApproved, Active
<1> QED BY <1>1, <1>2, <1>3 DEF LearningInv

\* Candidates are replaced, never deleted.
LEMMA RowStored ==
  ASSUME LearningInv, NEW c \in Devices \cup Reviewers, NEW p \in Patterns, NEW row \in Candidate,
         Commits(c, p, row), shown' = shown \/ \E r \in Reviewers : shown' = [shown EXCEPT ![r] = None]
  PROVE  LearningTypeOK' /\ ReviewedExists'
<1> USE DEF LearningInv, Commits
<1>0. row # None /\ \A q \in Patterns : db.cand[q] # None => db'.cand[q] # None
  BY LearningAssumption DEF LearningTypeOK, LearningTables
<1>1. LearningTypeOK'
  BY DEF LearningTypeOK
<1>2. ReviewedExists'
  <2>1. \A r \in Reviewers : tx[r] # Idle => tx[r].p \in Patterns
    BY DEF LearningTypeOK, Decision
  <2>2. \A r \in Reviewers : shown[r] # None => shown[r].p \in Patterns
    BY DEF LearningTypeOK
  <2>3. \A r \in Reviewers : shown'[r] # None => db'.cand[shown'[r].p] # None
    BY <1>0, <2>2 DEF LearningTypeOK, ReviewedExists
  <2>4. \A r \in Reviewers : tx'[r] # Idle => tx'[r].snap.cand[tx'[r].p] # None /\ db'.cand[tx'[r].p] # None
    BY <1>0, <2>1 DEF LearningTypeOK, ReviewedExists
  <2> QED BY <2>3, <2>4 DEF ReviewedExists
<1> QED BY <1>1, <1>2

\* A proposal leaves the status and an approved text alone.
LEMMA ProposalsWait ==
  ASSUME NEW old \in Candidate, NEW text \in Texts
  PROVE  /\ Proposed(old, text) \in Candidate
         /\ Proposed(old, text).status = old.status
         /\ old.status = "APPROVED" => Proposed(old, text).summary = old.summary
BY DEF Proposed, Candidate

\* What a submission stores: the row of its pattern, not approved by it and, if approved, with its text.
LEMMA SubmissionCommits ==
  ASSUME LearningInv, NEW d \in Devices, SubmitCommits(d)
  PROVE  \E p \in Patterns, row \in Candidate :
           /\ Commits(d, p, row) /\ db'.version = db.version
           /\ row.status = "APPROVED" <=> ActiveAt(db, p)
           /\ ActiveAt(db, p) => row.summary = db.cand[p].summary
<1> DEFINE c == tx[d]
           old == IF c.snap.cand[c.p] = None THEN NewCandidate(c.text) ELSE c.snap.cand[c.p]
           row == Proposed(old, c.text)
<1>1. c \in Submission /\ c.snap = db /\ db \in LearningTables
  BY DEF SubmitCommits, StillCurrent, LearningInv, LearningTypeOK
<1>2. c.p \in Patterns /\ c.text \in Texts /\ c.items \in SUBSET Evidence
  BY <1>1 DEF Submission
<1>3. /\ old \in Candidate
      /\ old.status = "APPROVED" <=> ActiveAt(db, c.p)
      /\ ActiveAt(db, c.p) => old.summary = db.cand[c.p].summary
  BY <1>1, <1>2 DEF NewCandidate, Candidate, LearningTables, ActiveAt
<1>4. /\ row \in Candidate /\ row.status = old.status
      /\ old.status = "APPROVED" => row.summary = old.summary
  <2> HIDE DEF old, c
  <2> QED BY <1>2, <1>3, ProposalsWait
<1>5. PICK kept \in SUBSET c.items :
        LET obs == [e \in Evidence |-> IF e \in kept /\ c.snap.obs[e] = None THEN c.p ELSE c.snap.obs[e]]
            recent == {e \in Evidence \ aged : obs[e] = c.p}
        IN  db' = [cand |-> [c.snap.cand EXCEPT ![c.p] = [row EXCEPT !.occurrences = Cardinality(recent)]],
                   obs |-> obs, version |-> c.snap.version]
  BY DEF SubmitCommits
<1> DEFINE obs == [e \in Evidence |-> IF e \in kept /\ c.snap.obs[e] = None THEN c.p ELSE c.snap.obs[e]]
           recent == {e \in Evidence \ aged : obs[e] = c.p}
           new == [row EXCEPT !.occurrences = Cardinality(recent)]
<1>6. db' = [cand |-> [db.cand EXCEPT ![c.p] = new], obs |-> obs, version |-> db.version]
  BY <1>1, <1>5
<1>7. Cardinality(recent) \in Nat
  <2>1. recent \subseteq Evidence /\ IsFiniteSet(Evidence)
    BY LearningAssumption
  <2> HIDE DEF recent
  <2> QED BY <2>1, FS_Subset, FS_CardinalityType
<1>8. new \in Candidate /\ new.status = row.status /\ new.summary = row.summary
  <2> HIDE DEF row, recent
  <2> QED BY <1>4, <1>7 DEF Candidate
<1>9. obs \in [Evidence -> Patterns \cup {None}]
  BY <1>1, <1>2 DEF LearningTables
<1>10. db' \in LearningTables /\ db'.cand = [db.cand EXCEPT ![c.p] = new] /\ db'.version = db.version
  <2> HIDE DEF new, obs, c
  <2> QED BY <1>1, <1>2, <1>6, <1>8, <1>9 DEF LearningTables
<1>11. Commits(d, c.p, new)
  BY <1>10 DEF Commits, SubmitCommits
<1> HIDE DEF new, row, old, c
<1> QED BY <1>2, <1>3, <1>4, <1>8, <1>10, <1>11

\* What a review stores: an approved text is on record or was there, and a bundle that changes has a
\* new version.
LEMMA ReviewCommitsRow ==
  ASSUME LearningInv, NEW r \in Reviewers, ReviewCommits(r)
  PROVE  \E p \in Patterns, row \in Candidate :
           /\ Commits(r, p, row) /\ shown' = [shown EXCEPT ![r] = None]
           /\ reviewed \subseteq reviewed'
           /\ row.status = "APPROVED" =>
                \/ \E v \in reviewed' : v.p = p /\ v.text = row.summary
                \/ ActiveAt(db, p) /\ row.summary = db.cand[p].summary
           /\ \/ db'.version > db.version
              \/ /\ row.status = "APPROVED" <=> ActiveAt(db, p)
                 /\ ActiveAt(db, p) => row.summary = db.cand[p].summary
<1> DEFINE c == tx[r]
           old == c.snap.cand[c.p]
           verdict == DecisionOn(old, c.op)
           new == [verdict EXCEPT !.pending = None, !.revision = @ + 1]
<1>1. c \in Decision /\ c.snap = db /\ db \in LearningTables
  BY DEF ReviewCommits, StillCurrent, LearningInv, LearningTypeOK
<1>2. c.p \in Patterns /\ c.op \in {"approve", "reject", "revoke"}
  BY <1>1 DEF Decision
<1>3. old = db.cand[c.p] /\ old \in Candidate /\ old # None
  BY <1>1, <1>2 DEF ReviewCommits, LearningInv, ReviewedExists, LearningTables
<1>4. Adopted(old) \in Texts
  <2> HIDE DEF old
  <2> QED BY <1>3 DEF Adopted, Candidate
<1>5. /\ verdict \in Candidate
      /\ c.op = "approve" => verdict.status = "APPROVED" /\ verdict.summary = Adopted(old)
      /\ c.op = "reject" => IF old.status = "APPROVED" THEN verdict = old ELSE verdict.status = "REJECTED"
      /\ c.op = "revoke" => verdict.status = "REVOKED"
  <2> DEFINE op == c.op
  <2> HIDE DEF old, op
  <2>1. op = c.op
    BY DEF op
  <2>2. CASE op = "approve"
    BY <2>1, <2>2, <1>3, <1>4 DEF DecisionOn, Candidate
  <2>3. CASE op = "reject"
    BY <2>1, <2>3, <1>3 DEF DecisionOn, Candidate
  <2>4. CASE op = "revoke"
    BY <2>1, <2>4, <1>3 DEF DecisionOn, Candidate
  <2> QED BY <1>2, <2>1, <2>2, <2>3, <2>4
<1>6. new \in Candidate /\ new.status = verdict.status /\ new.summary = verdict.summary
  <2>1. verdict \in Candidate
    BY <1>5
  <2> HIDE DEF verdict
  <2>2. verdict.revision + 1 \in Nat
    BY <2>1 DEF Candidate
  <2> QED BY <2>1, <2>2 DEF Candidate
<1>7. /\ db' = [db EXCEPT !.cand[c.p] = new,
                          !.version = IF ActiveChanged(old, c.op) THEN @ + 1 ELSE @]
      /\ tx' = [tx EXCEPT ![r] = Idle] /\ aged' = aged /\ shown' = [shown EXCEPT ![r] = None]
  BY <1>1 DEF ReviewCommits
<1>a. /\ c.op = "approve" => \E v \in reviewed' : v.p = c.p /\ v.text = new.summary
      /\ reviewed \subseteq reviewed'
  <2>1. reviewed' = IF c.op = "approve"
                    THEN reviewed \cup {[p |-> c.p, text |-> new.summary, shown |-> shown[r].text]}
                    ELSE reviewed
    BY DEF ReviewCommits
  <2> DEFINE v == [p |-> c.p, text |-> new.summary, shown |-> shown[r].text]
  <2>2. v.p = c.p /\ v.text = new.summary
    OBVIOUS
  <2> HIDE DEF new, c, v
  <2>3. c.op = "approve" => v \in reviewed'
    BY <2>1 DEF v
  <2>4. reviewed \subseteq reviewed'
    BY <2>1
  <2> QED BY <2>2, <2>3, <2>4
<1>8. /\ db' \in LearningTables /\ db'.cand = [db.cand EXCEPT ![c.p] = new]
      /\ db.version \in Nat /\ db'.version = IF ActiveChanged(old, c.op) THEN db.version + 1 ELSE db.version
  <2> DEFINE up == IF ActiveChanged(old, c.op) THEN db.version + 1 ELSE db.version
  <2>0. db.version \in Nat /\ up \in Nat
    BY <1>1 DEF LearningTables
  <2>1. db' = [db EXCEPT !.cand = [db.cand EXCEPT ![c.p] = new], !.version = up]
    <3> HIDE DEF new, old, c
    <3> QED BY <1>7, <1>1 DEF LearningTables
  <2> HIDE DEF new, old, c, up
  <2>2. db'.cand = [db.cand EXCEPT ![c.p] = new] /\ db'.version = up /\ db'.obs = db.obs
    BY <1>1, <2>1 DEF LearningTables
  <2>3. db' \in LearningTables
    BY <1>1, <1>2, <1>6, <2>0, <2>1 DEF LearningTables
  <2> QED BY <2>0, <2>2, <2>3 DEF up
<1>9. Commits(r, c.p, new)
  BY <1>7, <1>8 DEF Commits
<1>10. new.status = "APPROVED" =>
         \/ \E v \in reviewed' : v.p = c.p /\ v.text = new.summary
         \/ ActiveAt(db, c.p) /\ new.summary = db.cand[c.p].summary
  <2> HIDE DEF new, verdict, old
  <2> QED BY <1>2, <1>3, <1>5, <1>6, <1>a DEF ActiveAt
<1>11. \/ db'.version > db.version
       \/ /\ new.status = "APPROVED" <=> ActiveAt(db, c.p)
          /\ ActiveAt(db, c.p) => new.summary = db.cand[c.p].summary
  <2> HIDE DEF new, verdict, old
  <2>1. CASE ActiveChanged(old, c.op)
    BY <1>8, <2>1
  <2>2. CASE ~ActiveChanged(old, c.op)
    BY <1>2, <1>3, <1>5, <1>6, <2>2 DEF ActiveChanged, ActiveAt
  <2> QED BY <2>1, <2>2
<1> HIDE DEF new, verdict, old, c
<1> QED BY <1>2, <1>6, <1>7, <1>a, <1>9, <1>10, <1>11

\* A submission leaves the bundle as it is.
LEMMA SubmitCommitsKeepsInv ==
  ASSUME LearningInv, NEW d \in Devices, SubmitCommits(d)
  PROVE  LearningInv' /\ Active(db') = Active(db)
<1>1. PICK p \in Patterns, row \in Candidate :
        /\ Commits(d, p, row) /\ db'.version = db.version
        /\ row.status = "APPROVED" <=> ActiveAt(db, p)
        /\ ActiveAt(db, p) => row.summary = db.cand[p].summary
  BY SubmissionCommits
<1>2. LearningTypeOK' /\ ReviewedExists'
  BY <1>1, RowStored DEF SubmitCommits
<1>3. /\ \A q \in Patterns : ActiveAt(db', q) <=> ActiveAt(db, q)
      /\ \A q \in Patterns : ActiveAt(db, q) => db'.cand[q].summary = db.cand[q].summary
  <2>1. row # None /\ db.cand \in [Patterns -> Candidate \cup {None}]
    BY LearningAssumption DEF LearningInv, LearningTypeOK, LearningTables
  <2> QED BY <1>1, <2>1 DEF Commits, ActiveAt
<1>4. Active(db') = Active(db)
  BY <1>3, SameActive
<1>5. ActiveIsApproved'
  BY <1>4 DEF LearningInv, ActiveIsApproved, SubmitCommits
<1> QED BY <1>2, <1>4, <1>5 DEF LearningInv

\* A review changes the bundle with its version.
LEMMA ReviewCommitsKeepsInv ==
  ASSUME LearningInv, NEW r \in Reviewers, ReviewCommits(r)
  PROVE  LearningInv' /\ (Active(db') # Active(db) => db'.version > db.version)
<1>1. PICK p \in Patterns, row \in Candidate :
           /\ Commits(r, p, row) /\ shown' = [shown EXCEPT ![r] = None]
           /\ reviewed \subseteq reviewed'
           /\ row.status = "APPROVED" =>
                \/ \E v \in reviewed' : v.p = p /\ v.text = row.summary
                \/ ActiveAt(db, p) /\ row.summary = db.cand[p].summary
           /\ \/ db'.version > db.version
              \/ /\ row.status = "APPROVED" <=> ActiveAt(db, p)
                 /\ ActiveAt(db, p) => row.summary = db.cand[p].summary
  BY ReviewCommitsRow
<1>2. LearningTypeOK' /\ ReviewedExists'
  BY <1>1, RowStored
<1>3. /\ row # None /\ db'.cand[p] = row
      /\ \A q \in Patterns : q # p => db'.cand[q] = db.cand[q]
  BY <1>1, LearningAssumption DEF LearningInv, LearningTypeOK, LearningTables, Commits
<1>4. ActiveIsApproved'
  <2>1. \A q \in Patterns : ActiveAt(db, q) => \E v \in reviewed : v.p = q /\ v.text = db.cand[q].summary
    BY ActiveByPattern DEF LearningInv
  <2>2. ASSUME NEW q \in Patterns, ActiveAt(db', q)
        PROVE  \E v \in reviewed' : v.p = q /\ v.text = db'.cand[q].summary
    <3>1. CASE q = p
      BY <1>1, <1>3, <2>1, <2>2, <3>1 DEF ActiveAt
    <3>2. CASE q # p
      BY <1>1, <1>3, <2>1, <2>2, <3>2 DEF ActiveAt
    <3> QED BY <3>1, <3>2
  <2>3. (\A q \in Patterns : ActiveAt(db, q) => \E v \in reviewed : v.p = q /\ v.text = db.cand[q].summary)'
    BY <2>2 DEF ActiveAt
  <2> QED BY <2>3, ActiveByPattern, PTL
<1>5. Active(db') # Active(db) => db'.version > db.version
  <2> SUFFICES ASSUME ~(db'.version > db.version) PROVE Active(db') = Active(db)
    OBVIOUS
  <2>1. /\ \A q \in Patterns : ActiveAt(db', q) <=> ActiveAt(db, q)
        /\ \A q \in Patterns : ActiveAt(db, q) => db'.cand[q].summary = db.cand[q].summary
    BY <1>1, <1>3 DEF ActiveAt
  <2> QED BY <2>1, SameActive
<1> QED BY <1>2, <1>4, <1>5 DEF LearningInv

\* Every step.
LEMMA LearningStep ==
  LearningInv /\ [LearningNext]_learningVars =>
    LearningInv' /\ (Active(db') # Active(db) => db'.version > db.version)
<1> SUFFICES ASSUME LearningInv, [LearningNext]_learningVars
             PROVE  LearningInv' /\ (Active(db') # Active(db) => db'.version > db.version)
  OBVIOUS
<1> USE DEF LearningInv
<1>0. ASSUME db' = db PROVE Active(db') = Active(db)
  BY <1>0
<1>1. CASE UNCHANGED learningVars
  <2>1. LearningTypeOK' /\ ReviewedExists'
    BY <1>1 DEF LearningTypeOK, ReviewedExists, learningVars
  <2> QED BY <1>0, <1>1, <2>1 DEF ActiveIsApproved, Active, learningVars
<1>2. ASSUME NEW d \in Devices, NEW p \in Patterns, NEW t \in Texts, NEW items \in SUBSET Evidence \ {{}},
             SubmitLearning(d, p, t, items)
      PROVE  LearningInv' /\ db' = db
  <2> DEFINE k == [op |-> "submit", p |-> p, text |-> t, items |-> items, tries |-> 1, snap |-> db]
  <2>1. k \in Submission
    BY DEF Submission, LearningTypeOK
  <2>2. tx' = [tx EXCEPT ![d] = k] /\ UNCHANGED <<db, aged, reviewed, shown>> /\ d \notin Reviewers
    BY <1>2, LearningAssumption DEF SubmitLearning
  <2> HIDE DEF k
  <2> QED BY <2>1, <2>2, TransactionMoves
<1>3. ASSUME NEW c \in Devices \cup Reviewers, TxRetries(c) PROVE LearningInv' /\ db' = db
  <2> DEFINE k == [tx[c] EXCEPT !.snap = db, !.tries = @ + 1]
  <2>1. tx' = [tx EXCEPT ![c] = k] /\ UNCHANGED <<db, aged, reviewed, shown>> /\ tx[c] # Idle
    BY <1>3 DEF TxRetries, LearningTypeOK
  <2>0. db \in LearningTables
    BY DEF LearningTypeOK
  <2>2. ASSUME c \in Devices PROVE k \in Submission
    <3>1. tx[c] \in Submission
      BY <2>1, <2>2 DEF LearningTypeOK
    <3>2. tx[c].tries + 1 \in Nat
      BY <3>1 DEF Submission
    <3> QED BY <2>0, <3>1, <3>2 DEF Submission
  <2>3. ASSUME c \in Reviewers PROVE k \in Decision /\ k.snap = db /\ k.p = tx[c].p
    <3>1. tx[c] \in Decision
      BY <2>1, <2>3 DEF LearningTypeOK
    <3>2. tx[c].tries + 1 \in Nat
      BY <3>1 DEF Decision
    <3> QED BY <2>0, <3>1, <3>2 DEF Decision
  <2>4. c \in Reviewers => db.cand[tx[c].p] # None
    BY <2>1 DEF ReviewedExists
  <2> HIDE DEF k
  <2> QED BY <2>1, <2>2, <2>3, <2>4, TransactionMoves
<1>4. ASSUME NEW c \in Devices \cup Reviewers, tx' = [tx EXCEPT ![c] = Idle], UNCHANGED <<db, aged, reviewed>>,
             shown' = shown \/ \E r \in Reviewers : shown' = [shown EXCEPT ![r] = None]
      PROVE  LearningInv' /\ db' = db
  BY <1>4, TransactionMoves
<1>5. ASSUME NEW r \in Reviewers, NEW p \in Patterns, ListLearnings(r, p) PROVE LearningInv' /\ db' = db
  <2>1. db.cand[p] \in Candidate
    BY <1>5 DEF ListLearnings, LearningTypeOK, LearningTables
  <2>2. db.cand[p].revision \in Nat /\ Adopted(db.cand[p]) \in Texts
    BY <2>1 DEF Adopted, Candidate
  <2>3. LearningTypeOK'
    BY <1>5, <2>2 DEF ListLearnings, LearningTypeOK
  <2>4. ReviewedExists'
    BY <1>5 DEF ListLearnings, LearningTypeOK, ReviewedExists
  <2> QED BY <1>5, <2>3, <2>4 DEF ListLearnings, ActiveIsApproved, Active
<1>6. ASSUME NEW r \in Reviewers, NEW decision \in {"approve", "reject", "revoke"}, Decide(r, decision)
      PROVE  LearningInv' /\ db' = db
  <2> DEFINE k == [op |-> decision, p |-> shown[r].p, tries |-> 1, snap |-> db]
  <2>1. k \in Decision /\ k.snap = db /\ k.p = shown[r].p /\ db.cand[shown[r].p] # None
    BY <1>6 DEF Decide, Decision, LearningTypeOK, ReviewedExists
  <2>2. tx' = [tx EXCEPT ![r] = k] /\ UNCHANGED <<db, aged, reviewed, shown>> /\ r \notin Devices
    BY <1>6, LearningAssumption DEF Decide
  <2> HIDE DEF k
  <2> QED BY <2>1, <2>2, TransactionMoves
<1>7. ASSUME NEW e \in Evidence, Ages(e) PROVE LearningInv' /\ db' = db
  <2>1. LearningTypeOK' /\ ReviewedExists'
    BY <1>7 DEF Ages, LearningTypeOK, ReviewedExists
  <2> QED BY <1>7, <2>1 DEF Ages, ActiveIsApproved, Active
<1>8. ASSUME NEW c \in Devices \cup Reviewers,
             TxGivesUp(c) \/ (c \in Devices /\ SubmitRefused(c)) \/ (c \in Reviewers /\ ReviewRefused(c))
      PROVE  LearningInv' /\ db' = db
  BY <1>4, <1>8 DEF TxGivesUp, SubmitRefused, ReviewRefused
<1> QED BY <1>0, <1>1, <1>2, <1>3, <1>5, <1>6, <1>7, <1>8, SubmitCommitsKeepsInv, ReviewCommitsKeepsInv
     DEF LearningNext

\* LearningInv holds in every reachable state.
THEOREM LearningInvariant == LearningSpec => []LearningInv
<1>1. LearningInv /\ [LearningNext]_learningVars => LearningInv'
  BY LearningStep
<1> QED BY <1>1, LearningInitially, PTL DEF LearningSpec

\* What a device can be given was approved by an administrator, for every number of patterns, texts,
\* devices and reviewers (submit, review, bundle).
THEOREM BundlesStayApproved == LearningSpec => []ActiveIsApproved
BY LearningInvariant, PTL DEF LearningInv

\* A step that changes the texts of the bundle raises the organization's version (review).
THEOREM VersionsCoverBundles == LearningSpec => VersionCoversBundle
<1>1. LearningInv /\ [LearningNext]_learningVars =>
        [Active(db') # Active(db) => db'.version > db.version]_learningVars
  BY LearningStep
<1> QED BY <1>1, LearningInvariant, PTL DEF LearningSpec, VersionCoversBundle
-----------------------------------------------------------------------------
(***************************************************************************)
(* Work sessions                                                           *)
(***************************************************************************)

\* What the sort puts first.
LEMMA LeastSeq ==
  ASSUME NEW S \in SUBSET Seqs, S # {}
  PROVE  Min(S) \in S /\ \A y \in S : Min(S) <= y
<1>1. S \in SUBSET Nat
  BY WorkAssumption DEF Seqs
<1>2. PICK x \in S : \A y \in S : x <= y
  BY <1>1, LeastNumber
<1> QED BY <1>2 DEF Min

\* What the query in descending order puts first.
LEMMA GreatestSeq ==
  ASSUME NEW S \in SUBSET Seqs, S # {}
  PROVE  Max(S) \in S /\ \A y \in S : y <= Max(S)
<1> DEFINE T == {LastSeq - x : x \in S}
<1>0. LastSeq \in Nat /\ \A x \in S : x \in Nat /\ x <= LastSeq
  BY WorkAssumption DEF Seqs
<1>1. T \in SUBSET Nat /\ T # {}
  <2>1. \A x \in S : LastSeq - x \in Nat
    BY <1>0
  <2> QED BY <2>1
<1>2. PICK t \in T : \A y \in T : t <= y
  <2> HIDE DEF T
  <2> QED BY <1>1, LeastNumber
<1>3. PICK x \in S : t = LastSeq - x
  OBVIOUS
<1>4. ASSUME NEW y \in S PROVE x >= y
  <2>1. t <= LastSeq - y
    BY <1>2
  <2> QED BY <1>0, <1>3, <2>1
<1>5. PICK m \in S : m = Max(S) /\ \A y \in S : m >= y
  BY <1>4 DEF Max
<1> QED BY <1>5, <1>0

\* Nothing is stored.
LEMMA WorkInitially == WorkInit => WorkInv
<1> SUFFICES ASSUME WorkInit PROVE WorkInv
  OBVIOUS
<1>1. Stored = {} /\ prevHash \in [Stored -> 0 .. LastSeq]
  BY DEF WorkInit, Stored
<1>2. WorkTypeOK
  <2>1. 0 \in 0 .. LastSeq
    BY WorkAssumption
  <2>2. upload \in [Uploads -> [left : SUBSET Seqs, batch : SUBSET Seqs, link : 0 .. LastSeq,
                                at : {"idle", "exists", "prev", "create"}]]
    BY <2>1 DEF WorkInit, NoUpload
  <2> QED BY <1>1, <2>2 DEF WorkInit, WorkTypeOK
<1>3. UploadsOK
  BY DEF WorkInit, UploadsOK, NoUpload
<1>4. OrderOK
  BY <1>1 DEF WorkInit, OrderOK, NoUpload
<1> QED BY <1>2, <1>3, <1>4 DEF WorkInv

\* The link that is read is 0 or a stored row, and none is newer.
LEMMA HighestIsLast ==
  ASSUME WorkTypeOK
  PROVE  /\ Highest \in {0} \cup Stored
         /\ \A t \in Stored : t <= Highest
<1>1. CASE Stored = {}
  BY <1>1 DEF Highest
<1>2. CASE Stored # {}
  BY <1>2, GreatestSeq DEF Highest, WorkTypeOK
<1> QED BY <1>1, <1>2

\* The next session is the oldest one left.
LEMMA NextIsOldest ==
  ASSUME WorkTypeOK, NEW u \in Uploads, upload[u].left # {}, NEW s \in NextSeqs(upload[u].left)
  PROVE  s = Min(upload[u].left) /\ s \in upload[u].left /\ \A t \in upload[u].left : s <= t
<1>1. upload[u].left \in SUBSET Seqs
  BY DEF WorkTypeOK
<1> QED BY <1>1, LeastSeq DEF NextSeqs

\* A request that is in order brings sessions newer than every stored one, and comes alone.
LEMMA IngestKeepsInv ==
  ASSUME WorkInv, NEW u \in Uploads, NEW batch \in SUBSET Seqs \ {{}}, Ingest(u, batch)
  PROVE  WorkInv'
<1> USE DEF WorkInv, Ingest
<1>0. Stored' = Stored
  BY DEF Stored
<1>1. WorkTypeOK'
  BY <1>0, WorkAssumption DEF WorkTypeOK
<1>2. UploadsOK'
  BY <1>0 DEF UploadsOK, WorkTypeOK
<1>3. OrderOK'
  <2> SUFFICES ASSUME ~disordered' PROVE OrderOK'
    BY DEF OrderOK
  <2>1. /\ ~disordered /\ \A v \in Uploads : upload[v].at = "idle"
        /\ \A s \in batch \ Stored : ~(s < Highest)
    BY DEF WorkTypeOK
  <2>2. \A s \in batch \ Stored, t \in Stored : t < s
    <3> TAKE s \in batch \ Stored, t \in Stored
    <3>1. t <= Highest /\ Highest \in {0} \cup Stored
      BY HighestIsLast
    <3> QED BY <2>1, <3>1, WorkAssumption DEF WorkTypeOK, Seqs
  <2> QED BY <1>0, <2>1, <2>2 DEF OrderOK, WorkTypeOK
<1> QED BY <1>1, <1>2, <1>3

\* A stored session is passed over.
LEMMA SkippingKeepsInv ==
  ASSUME WorkInv, NEW u \in Uploads, NEW s \in Seqs, SkipStored(u, s)
  PROVE  WorkInv'
<1> USE DEF WorkInv, SkipStored
<1>0. Stored' = Stored
  BY DEF Stored
<1>1. WorkTypeOK'
  BY <1>0, WorkAssumption DEF WorkTypeOK, Left
<1>2. UploadsOK'
  BY <1>0 DEF UploadsOK, WorkTypeOK, Left
<1>3. OrderOK'
  BY <1>0 DEF OrderOK, WorkTypeOK, Left
<1> QED BY <1>1, <1>2, <1>3

\* The session to be stored is not there yet.
LEMMA NotStoredKeepsInv ==
  ASSUME WorkInv, NEW u \in Uploads, NEW s \in Seqs, NotStored(u, s)
  PROVE  WorkInv'
<1> USE DEF WorkInv, NotStored
<1>0. Stored' = Stored
  BY DEF Stored
<1>1. WorkTypeOK'
  BY <1>0, WorkAssumption DEF WorkTypeOK
<1>2. UploadsOK'
  BY <1>0 DEF UploadsOK, WorkTypeOK
<1>3. OrderOK'
  <2>1. Min(upload[u].left) \notin Stored
    BY NextIsOldest
  <2> QED BY <1>0, <2>1 DEF OrderOK, WorkTypeOK
<1> QED BY <1>1, <1>2, <1>3

\* The link that is read is older than what is to be stored.
LEMMA PrevKeepsInv ==
  ASSUME WorkInv, NEW u \in Uploads, ReadsPrev(u)
  PROVE  WorkInv'
<1> USE DEF WorkInv, ReadsPrev
<1>0. Stored' = Stored
  BY DEF Stored
<1>a. Highest \in {0} \cup Stored /\ \A t \in Stored : t <= Highest
  BY HighestIsLast
<1>1. WorkTypeOK'
  <2>1. Highest \in 0 .. LastSeq
    BY <1>a, WorkAssumption DEF WorkTypeOK, Seqs
  <2> QED BY <1>0, <2>1 DEF WorkTypeOK
<1>2. UploadsOK'
  BY <1>0 DEF UploadsOK, WorkTypeOK
<1>3. OrderOK'
  <2>1. ~disordered => \A s \in upload[u].left \ Stored : Highest < s
    BY <1>a DEF OrderOK, WorkTypeOK, Seqs
  <2> QED BY <1>0, <1>a, <2>1 DEF OrderOK, WorkTypeOK
<1> QED BY <1>1, <1>2, <1>3

\* The row is new, and in order it is the newest.
LEMMA CreatingKeepsInv ==
  ASSUME WorkInv, NEW u \in Uploads, NEW s \in Seqs, CreatesRow(u, s)
  PROVE  WorkInv'
<1> USE DEF WorkInv, CreatesRow
<1>0. Stored' = Stored \cup {s} /\ s \notin Stored
  BY DEF Stored
<1>a. s \in upload[u].left /\ \A t \in upload[u].left : s <= t
  BY NextIsOldest DEF UploadsOK
<1>b. /\ prevHash'[s] = upload[u].link
      /\ \A t \in Stored : prevHash'[t] = prevHash[t]
  BY <1>0
<1>1. WorkTypeOK'
  <2>1. prevHash' \in [Stored' -> 0 .. LastSeq] /\ Stored' \subseteq Seqs
    BY <1>0, WorkAssumption DEF WorkTypeOK
  <2> QED BY <1>0, <2>1, WorkAssumption DEF WorkTypeOK, Left
<1>2. UploadsOK'
  BY <1>0 DEF UploadsOK, WorkTypeOK, Left
<1>3. OrderOK'
  <2> SUFFICES ASSUME ~disordered' PROVE OrderOK'
    BY DEF OrderOK
  <2>0. ~disordered /\ \A v \in Uploads : v # u => upload[v].at = "idle"
    BY DEF OrderOK
  <2>1. \A v, w \in Uploads : upload'[v].at # "idle" /\ upload'[w].at # "idle" => v = w
    BY <2>0 DEF OrderOK, WorkTypeOK
  <2>2. \A v \in Uploads : \A x \in upload'[v].left \ Stored', t \in Stored' : t < x
    BY <1>0, <1>a, <2>0 DEF OrderOK, WorkTypeOK, Left, Seqs
  <2>3. \A v \in Uploads : upload'[v].at \notin {"prev", "create"}
    BY <2>0 DEF WorkTypeOK
  <2>4. \A x \in Stored' : prevHash'[x] < x /\ \A t \in Stored' : t < x => t <= prevHash'[x]
    <3>1. \A t \in Stored : t < s /\ t <= upload[u].link
      BY <1>0, <1>a, <2>0 DEF OrderOK
    <3>2. upload[u].link < s
      BY <1>0, <1>a, <2>0 DEF OrderOK
    <3> QED BY <1>0, <1>b, <2>0, <3>1, <3>2, WorkAssumption DEF OrderOK, WorkTypeOK, Seqs
  <2> QED BY <2>1, <2>2, <2>3, <2>4 DEF OrderOK
<1> QED BY <1>1, <1>2, <1>3

\* A request that ends leaves its rows; one that answers has stored its batch.
LEMMA EndingKeepsInv ==
  ASSUME WorkInv, NEW u \in Uploads, IngestFails(u) \/ IngestAnswers(u)
  PROVE  WorkInv'
<1> USE DEF WorkInv, IngestFails, IngestAnswers
<1>0. Stored' = Stored
  BY DEF Stored
<1>a. upload' = [upload EXCEPT ![u] = NoUpload] /\ answered' \subseteq Stored
  BY DEF UploadsOK, WorkTypeOK
<1>1. WorkTypeOK'
  BY <1>0, <1>a, WorkAssumption DEF WorkTypeOK, NoUpload
<1>2. UploadsOK'
  BY <1>0, <1>a DEF UploadsOK, WorkTypeOK, NoUpload
<1>3. OrderOK'
  BY <1>0, <1>a DEF OrderOK, WorkTypeOK, NoUpload
<1> QED BY <1>1, <1>2, <1>3

\* Every step.
LEMMA WorkStep == WorkInv /\ [WorkNext]_workVars => WorkInv'
<1> SUFFICES ASSUME WorkInv, [WorkNext]_workVars PROVE WorkInv'
  OBVIOUS
<1>1. CASE UNCHANGED workVars
  BY <1>1 DEF WorkInv, WorkTypeOK, UploadsOK, OrderOK, Stored, workVars
<1>2. ASSUME NEW u \in Uploads, NEW batch \in SUBSET Seqs \ {{}}, Ingest(u, batch) PROVE WorkInv'
  BY <1>2, IngestKeepsInv
<1>3. ASSUME NEW u \in Uploads, NEW s \in Seqs, SkipStored(u, s) \/ NotStored(u, s) \/ CreatesRow(u, s)
      PROVE  WorkInv'
  BY <1>3, SkippingKeepsInv, NotStoredKeepsInv, CreatingKeepsInv
<1>4. ASSUME NEW u \in Uploads, ReadsPrev(u) \/ IngestFails(u) \/ IngestAnswers(u) PROVE WorkInv'
  BY <1>4, PrevKeepsInv, EndingKeepsInv
<1> QED BY <1>1, <1>2, <1>3, <1>4 DEF WorkNext

\* Rows are linked in the order of their sessions as long as uploads come in order, and a request
\* has stored whatever of its batch it has done (ingest).
THEOREM WorkInvariant == WorkSpec => []WorkInv
BY WorkInitially, WorkStep, PTL DEF WorkSpec

\* Uploads in order build one chain without a fork, for every number of sessions and of requests
\* that fail half-way and are repeated, and a session that was answered is stored (ingest).
THEOREM OrderedUploadsChain == WorkSpec => []InOrderChain
<1>1. WorkInv => InOrderChain
  <2> SUFFICES ASSUME WorkInv PROVE InOrderChain
    OBVIOUS
  <2>1. ASSUME ~disordered, NEW s \in Stored, NEW t \in Stored, s < t PROVE prevHash[s] # prevHash[t]
    BY <2>1, WorkAssumption DEF WorkInv, OrderOK, WorkTypeOK, Seqs
  <2>2. ASSUME ~disordered, NEW s \in Stored, NEW t \in Stored, prevHash[s] = prevHash[t] PROVE s = t
    BY <2>1, <2>2, WorkAssumption DEF WorkInv, WorkTypeOK, Seqs
  <2> QED BY <2>2 DEF InOrderChain, LinkedOnce, WorkInv, WorkTypeOK
<1> QED BY <1>1, WorkInvariant, PTL

-----------------------------------------------------------------------------
(***************************************************************************)
(* Roles and policies                                                      *)
(***************************************************************************)

\* mergePolicy is the last of the policies its loop goes through, one for each layer.
LEMMA MergeUnfolds ==
  ASSUME NEW layers, Len(layers) \in Nat
  PROVE  \E f : /\ mergePolicy(layers) = f[Len(layers)] /\ f[0] = EmptyPolicy
                /\ \A i \in 1 .. Len(layers) : f[i] = MergeLayer(f[i - 1], layers[i])
<1> DEFINE Steps(f, n) == f = [i \in 0 .. n |-> IF i = 0 THEN EmptyPolicy ELSE MergeLayer(f[i - 1], layers[i])]
           S == {n \in Nat : \E f : Steps(f, n)}
<1>1. 0 \in S
  <2> DEFINE f == [i \in 0 .. 0 |-> EmptyPolicy]
  <2>1. Steps(f, 0)
    OBVIOUS
  <2> HIDE DEF Steps
  <2> QED BY <2>1
<1>2. ASSUME NEW n \in Nat, n \in S PROVE n + 1 \in S
  <2>1. PICK f : Steps(f, n)
    BY <1>2
  <2> DEFINE g == [i \in 0 .. n + 1 |-> IF i = n + 1 THEN MergeLayer(f[n], layers[n + 1]) ELSE f[i]]
  <2>2. \A i \in 0 .. n : f[i] = IF i = 0 THEN EmptyPolicy ELSE MergeLayer(f[i - 1], layers[i])
    BY <2>1
  <2>3. ASSUME NEW i \in 0 .. n + 1
        PROVE  g[i] = IF i = 0 THEN EmptyPolicy ELSE MergeLayer(g[i - 1], layers[i])
    <3>1. CASE i = n + 1
      <4>1. i # 0 /\ i - 1 = n /\ n \in 0 .. n + 1 /\ n # n + 1
        BY <3>1
      <4>2. g[i] = MergeLayer(f[n], layers[n + 1]) /\ g[n] = f[n]
        BY <3>1, <4>1
      <4> HIDE DEF g
      <4> QED BY <3>1, <4>1, <4>2
    <3>2. CASE i # n + 1
      <4>1. i \in 0 .. n /\ g[i] = f[i]
        BY <3>2
      <4>2. i # 0 => g[i - 1] = f[i - 1]
        BY <4>1
      <4> HIDE DEF g
      <4> QED BY <2>2, <4>1, <4>2
    <3> QED BY <3>1, <3>2
  <2>4. Steps(g, n + 1)
    <3>1. g = [i \in 0 .. n + 1 |-> g[i]]
      OBVIOUS
    <3> HIDE DEF g
    <3> QED BY <2>3, <3>1
  <2> HIDE DEF Steps, g
  <2> QED BY <2>4
<1>3. Nat \subseteq S
  <2> HIDE DEF S
  <2> QED BY <1>1, <1>2, InductionOnSet
<1>4. PICK h : Steps(h, Len(layers))
  <2> HIDE DEF Steps
  <2> QED BY <1>3
<1> DEFINE f == CHOOSE g : Steps(g, Len(layers))
<1>5. Steps(f, Len(layers))
  <2> HIDE DEF Steps
  <2> QED BY <1>4
<1>6. mergePolicy(layers) = f[Len(layers)]
  BY Zenon DEF mergePolicy
<1> HIDE DEF f
<1>7. f[0] = EmptyPolicy /\ \A i \in 1 .. Len(layers) : f[i] = MergeLayer(f[i - 1], layers[i])
  BY <1>5
<1> QED BY <1>6, <1>7

\* What one layer does, field by field.
LEMMA LayerFields ==
  ASSUME NEW m, NEW q
  PROVE  /\ MergeLayer(m, q).modelAllow = NarrowedModels(m.modelAllow, q.modelAllow)
         /\ MergeLayer(m, q).modelDeny = m.modelDeny \cup q.modelDeny
         /\ MergeLayer(m, q).toolDeny = m.toolDeny \cup q.toolDeny
         /\ MergeLayer(m, q).approval = (m.approval \/ q.approval)
         /\ MergeLayer(m, q).personal = NarrowedConsent(m.personal, q.personal)
         /\ MergeLayer(m, q).budget = restrictiveBudget(m.budget, q.budget)
BY Zenon DEF MergeLayer

\* restrictiveBudget is a budget, and allows no more than either of the two it was given.
LEMMA BudgetsNarrow ==
  ASSUME NEW c, NEW n, IsBudget(c), IsBudget(n)
  PROVE  LET b == restrictiveBudget(c, n)
         IN  /\ IsBudget(b) /\ b.kind = IF c.kind = "none" THEN n.kind ELSE c.kind
             /\ c.kind = b.kind => \A d \in DOMAIN c.of : d \in DOMAIN b.of /\ b.of[d] <= c.of[d]
             /\ n.kind = b.kind => \A d \in DOMAIN n.of : d \in DOMAIN b.of /\ b.of[d] <= n.of[d]
<1> DEFINE b == restrictiveBudget(c, n)
<1>0. /\ c.of \in [DOMAIN c.of -> Nat] /\ n.of \in [DOMAIN n.of -> Nat]
      /\ c.kind = "none" => DOMAIN c.of = {}
      /\ n.kind = "none" => DOMAIN n.of = {}
  BY DEF IsBudget
<1>1. CASE n.kind = "none"
  <2>1. b = c
    BY <1>1 DEF restrictiveBudget
  <2> HIDE DEF b
  <2> QED BY <1>0, <1>1, <2>1 DEF b
<1>2. CASE n.kind # "none" /\ c.kind = "none"
  <2>1. b = n
    BY <1>2 DEF restrictiveBudget
  <2> HIDE DEF b
  <2> QED BY <1>0, <1>2, <2>1 DEF b
<1>3. CASE n.kind # "none" /\ c.kind # "none" /\ c.kind = n.kind
  <2> DEFINE D == DOMAIN c.of \cup DOMAIN n.of
             f == [d \in D |-> Smaller(c.of, n.of, d)]
  <2>1. b = [kind |-> c.kind, of |-> f]
    BY <1>3 DEF restrictiveBudget
  <2>2. \A d \in D : /\ Smaller(c.of, n.of, d) \in Nat
                     /\ d \in DOMAIN c.of => Smaller(c.of, n.of, d) <= c.of[d]
                     /\ d \in DOMAIN n.of => Smaller(c.of, n.of, d) <= n.of[d]
    BY <1>0 DEF Smaller
  <2> HIDE DEF b
  <2>3. b.kind = c.kind /\ b.of = f
    BY <2>1
  <2>4. f \in [D -> Nat]
    BY <2>2
  <2>5. DOMAIN f = D /\ \A d \in D : f[d] = Smaller(c.of, n.of, d)
    OBVIOUS
  <2> HIDE DEF f
  <2> QED BY <1>3, <2>2, <2>3, <2>4, <2>5 DEF b, IsBudget
<1>4. CASE n.kind # "none" /\ c.kind # "none" /\ c.kind # n.kind
  <2>1. b = c
    BY <1>4 DEF restrictiveBudget
  <2> HIDE DEF b
  <2> QED BY <1>0, <1>4, <2>1 DEF b
<1> QED BY <1>1, <1>2, <1>3, <1>4

\* The layer just merged restricts the result, and so does every layer before it.
LEMMA LayerNarrows ==
  ASSUME NEW m, NEW q, IsPolicy(m), IsPolicy(q)
  PROVE  /\ IsPolicy(MergeLayer(m, q))
         /\ MergeLayer(m, q).budget.kind = IF m.budget.kind = "none" THEN q.budget.kind ELSE m.budget.kind
         /\ Restricts(MergeLayer(m, q), q)
         /\ \A p : IsPolicy(p) /\ Restricts(m, p) /\ (m.budget.kind = "none" => p.budget.kind = "none")
                     => Restricts(MergeLayer(m, q), p)
<1> DEFINE r == MergeLayer(m, q)
<1>1. /\ r.modelAllow = NarrowedModels(m.modelAllow, q.modelAllow)
      /\ r.modelDeny = m.modelDeny \cup q.modelDeny
      /\ r.toolDeny = m.toolDeny \cup q.toolDeny
      /\ r.personal = NarrowedConsent(m.personal, q.personal)
      /\ r.budget = restrictiveBudget(m.budget, q.budget)
  BY LayerFields
<1>2. (q.approval => r.approval) /\ (m.approval => r.approval)
  BY LayerFields, Zenon
<1> HIDE DEF r
<1>3. /\ IsBudget(r.budget)
      /\ r.budget.kind = IF m.budget.kind = "none" THEN q.budget.kind ELSE m.budget.kind
      /\ m.budget.kind = r.budget.kind =>
           \A d \in DOMAIN m.budget.of : d \in DOMAIN r.budget.of /\ r.budget.of[d] <= m.budget.of[d]
      /\ q.budget.kind = r.budget.kind =>
           \A d \in DOMAIN q.budget.of : d \in DOMAIN r.budget.of /\ r.budget.of[d] <= q.budget.of[d]
  BY <1>1, BudgetsNarrow DEF IsPolicy
<1>4. /\ r.modelAllow = None \/ r.modelAllow \subseteq Models
      /\ Usable(r) \subseteq Usable(q) /\ Usable(r) \subseteq Usable(m)
  <2>1. \A names \in SUBSET Models : names # None
    BY RolesAssumption, Zenon
  <2>2. m.modelAllow # None /\ q.modelAllow # None => m.modelAllow \cap q.modelAllow # None
    BY <2>1 DEF IsPolicy
  <2>3. r.modelAllow = None => m.modelAllow = None /\ q.modelAllow = None
    BY <1>1, <2>2 DEF NarrowedModels
  <2>4. \A x \in Models : r.modelAllow = None \/ x \in r.modelAllow =>
          /\ m.modelAllow = None \/ x \in m.modelAllow
          /\ q.modelAllow = None \/ x \in q.modelAllow
    BY <1>1, <2>3 DEF NarrowedModels
  <2>5. r.modelAllow = None \/ r.modelAllow \subseteq Models
    BY <1>1 DEF NarrowedModels, IsPolicy
  <2> QED BY <1>1, <2>4, <2>5 DEF Usable
<1>5. /\ r.personal \in {"omitted", "allow", "deny"}
      /\ q.personal = "deny" => r.personal = "deny"
      /\ m.personal = "deny" => r.personal = "deny"
  BY <1>1 DEF NarrowedConsent, IsPolicy
<1>6. IsPolicy(r)
  BY <1>3, <1>4, <1>5 DEF IsPolicy
<1>7. Restricts(r, q)
  BY <1>1, <1>2, <1>3, <1>4, <1>5 DEF Restricts
<1>8. ASSUME NEW p, IsPolicy(p), Restricts(m, p), m.budget.kind = "none" => p.budget.kind = "none"
      PROVE  Restricts(r, p)
  <2>1. Usable(r) \subseteq Usable(p) /\ p.toolDeny \subseteq r.toolDeny
    BY <1>1, <1>4, <1>8 DEF Restricts
  <2>2. p.approval => r.approval
    BY <1>2, <1>8, Zenon DEF Restricts
  <2>3. p.personal = "deny" => r.personal = "deny"
    BY <1>5, <1>8 DEF Restricts
  <2>4. ASSUME p.budget.kind = r.budget.kind, NEW d \in DOMAIN p.budget.of
        PROVE  d \in DOMAIN r.budget.of /\ r.budget.of[d] <= p.budget.of[d]
    <3>0. DOMAIN p.budget.of # {} /\ p.budget.of[d] \in Nat /\ IsBudget(m.budget)
      BY <1>8, <2>4 DEF IsPolicy, IsBudget
    <3>1. m.budget.kind # "none" /\ r.budget.kind = m.budget.kind
      BY <1>3, <1>8, <2>4, <3>0 DEF IsPolicy, IsBudget
    <3>2. d \in DOMAIN m.budget.of /\ m.budget.of[d] <= p.budget.of[d]
      BY <1>8, <2>4, <3>1 DEF Restricts
    <3>3. d \in DOMAIN r.budget.of /\ r.budget.of[d] <= m.budget.of[d]
      BY <1>3, <3>1, <3>2
    <3>4. m.budget.of[d] \in Nat /\ r.budget.of[d] \in Nat
      BY <1>3, <3>0, <3>2, <3>3 DEF IsBudget
    <3> QED BY <3>0, <3>2, <3>3, <3>4
  <2> QED BY <2>1, <2>2, <2>3, <2>4 DEF Restricts
<1> QED BY <1>3, <1>6, <1>7, <1>8 DEF r

\* The policy a merge begins with.
LEMMA EmptyIsPolicy == IsPolicy(EmptyPolicy)
<1>1. NoBudget.kind = "none" /\ NoBudget.of = <<>>
  BY DEF NoBudget
<1>2. <<>> \in [DOMAIN <<>> -> Nat] /\ DOMAIN <<>> = {}
  OBVIOUS
<1>3. IsBudget(NoBudget)
  <2> DEFINE b == NoBudget
  <2> HIDE DEF b
  <2>1. b.kind = "none" /\ b.of = <<>>
    BY <1>1 DEF b
  <2>2. IsBudget(b)
    BY <1>2, <2>1 DEF IsBudget
  <2> QED BY <2>2 DEF b
<1> QED BY <1>3 DEF IsPolicy, EmptyPolicy

\* mergePolicy narrows every layer, and keeps the shape of the first limits.
LEMMA MergeNarrows ==
  ASSUME NEW layers, Len(layers) \in Nat, \A i \in 1 .. Len(layers) : IsPolicy(layers[i])
  PROVE  /\ \A i \in 1 .. Len(layers) : Restricts(mergePolicy(layers), layers[i])
         /\ Len(layers) > 0 /\ layers[1].budget.kind # "none" =>
              mergePolicy(layers).budget.kind = layers[1].budget.kind
<1>1. PICK f : /\ mergePolicy(layers) = f[Len(layers)] /\ f[0] = EmptyPolicy
               /\ \A i \in 1 .. Len(layers) : f[i] = MergeLayer(f[i - 1], layers[i])
  BY MergeUnfolds
<1> DEFINE OK(n) ==
             /\ IsPolicy(f[n])
             /\ \A i \in 1 .. n : Restricts(f[n], layers[i])
             /\ \A i \in 1 .. n : f[n].budget.kind = "none" => layers[i].budget.kind = "none"
             /\ n > 0 /\ layers[1].budget.kind # "none" => f[n].budget.kind = layers[1].budget.kind
           S == {n \in Nat : n <= Len(layers) => OK(n)}
<1>2. 0 \in S
  <2>1. IsPolicy(EmptyPolicy)
    BY EmptyIsPolicy
  <2>2. OK(0)
    BY <1>1, <2>1
  <2> HIDE DEF OK
  <2> QED BY <2>2
<1>3. ASSUME NEW n \in Nat, n \in S PROVE n + 1 \in S
  <2> SUFFICES ASSUME n + 1 <= Len(layers) PROVE OK(n + 1)
    OBVIOUS
  <2>1. OK(n)
    BY <1>3
  <2> DEFINE q == layers[n + 1]
  <2>2. f[n + 1] = MergeLayer(f[n], q) /\ IsPolicy(q) /\ \A i \in 1 .. n : IsPolicy(layers[i])
    BY <1>1
  <2>3. /\ IsPolicy(f[n + 1])
        /\ f[n + 1].budget.kind = IF f[n].budget.kind = "none" THEN q.budget.kind ELSE f[n].budget.kind
        /\ Restricts(f[n + 1], q)
        /\ \A p : IsPolicy(p) /\ Restricts(f[n], p) /\ (f[n].budget.kind = "none" => p.budget.kind = "none")
                    => Restricts(f[n + 1], p)
    <3> HIDE DEF q
    <3> QED BY <2>1, <2>2, LayerNarrows
  <2>4. \A i \in 1 .. n + 1 : i \in 1 .. n \/ (i = n + 1 /\ layers[i] = q)
    OBVIOUS
  <2> HIDE DEF q
  <2>5. \A i \in 1 .. n + 1 : Restricts(f[n + 1], layers[i])
    BY <2>1, <2>2, <2>3, <2>4
  <2>6. \A i \in 1 .. n + 1 : f[n + 1].budget.kind = "none" => layers[i].budget.kind = "none"
    BY <2>1, <2>3, <2>4
  <2>7. layers[1].budget.kind # "none" => f[n + 1].budget.kind = layers[1].budget.kind
    <3>1. CASE n = 0
      <4>1. f[n].budget.kind = "none" /\ q = layers[1]
        BY <1>1, <3>1 DEF EmptyPolicy, NoBudget, q
      <4> QED BY <2>3, <4>1
    <3>2. CASE n > 0
      BY <2>1, <2>3, <3>2
    <3> QED BY <3>1, <3>2
  <2> QED BY <2>3, <2>5, <2>6, <2>7
<1>4. Nat \subseteq S
  <2> HIDE DEF S
  <2> QED BY <1>2, <1>3, InductionOnSet
<1>5. OK(Len(layers))
  <2> HIDE DEF OK
  <2> QED BY <1>4
<1> QED BY <1>1, <1>5

\* Every policy that is stored or read.
LEMMA PoliciesArePolicies == \A p \in AnyPolicy : IsPolicy(p) /\ p # None
<1>1. \A p \in Policies : IsPolicy(p)
  BY RolesAssumption, Zenon
<1>2. None \notin Policies \cup {EmptyPolicy}
  BY RolesAssumption, Zenon
<1> QED BY <1>1, <1>2, EmptyIsPolicy DEF AnyPolicy

\* A role row is a row: None stands for no row at all.
LEMMA RoleRowsExist == None \notin RoleRow
BY RolesAssumption, Zenon

\* What createRole and createAssignment store.
LEMMA NewRows ==
  /\ \A m \in Models \cup {None}, e \in Efforts \cup {None} :
       NewRole(m, e) \in RoleRow /\ NewRole(m, e).version = 1
  /\ \A r \in Roles, personal \in BOOLEAN, t \in Teams \cup {None} :
       /\ NewAssignment(r, personal, t) \in AssignmentRow
       /\ NewAssignment(r, personal, t).role = r
<1>1. \A m \in Models \cup {None}, e \in Efforts \cup {None} :
        NewRole(m, e) \in RoleRow /\ NewRole(m, e).version = 1
  BY DEF NewRole, RoleRow
<1>2. \A r \in Roles, personal \in BOOLEAN, t \in Teams \cup {None} :
        /\ NewAssignment(r, personal, t) \in AssignmentRow
        /\ NewAssignment(r, personal, t).role = r
  BY DEF NewAssignment, AssignmentRow, AnyPolicy
<1> QED BY <1>1, <1>2

\* A row was read for a bundle that was served, or is held by the bundle being resolved.
LEMMA RowsReadMember ==
  \A x : x \in RowsRead <=>
    \/ \E b \in served : x \in b.rows
    \/ request.at = "reads" /\ request.assigned # None /\ \E a \in request.assigned : x = a.role
<1>1. CASE request.at = "reads" /\ request.assigned # None
  <2> DEFINE U == UNION {b.rows : b \in served}
             A == {a.role : a \in request.assigned}
  <2>1. RowsRead = U \cup IF request.at = "reads" /\ request.assigned # None THEN A ELSE {}
    BY DEF RowsRead
  <2>2. \A x : x \in U <=> \E b \in served : x \in b.rows
    OBVIOUS
  <2>3. \A x : x \in A <=> \E a \in request.assigned : x = a.role
    OBVIOUS
  <2> HIDE DEF U, A
  <2> QED BY <1>1, <2>1, <2>2, <2>3
<1>2. CASE ~(request.at = "reads" /\ request.assigned # None)
  BY <1>2 DEF RowsRead
<1> QED BY <1>1, <1>2

\* The same after a step.
LEMMA RowsReadNext ==
  (\A x : x \in RowsRead <=>
     \/ \E b \in served : x \in b.rows
     \/ request.at = "reads" /\ request.assigned # None /\ \E a \in request.assigned : x = a.role)'
BY RowsReadMember, PTL

\* What a function makes of a finite set is finite.
LEMMA ImageIsFinite ==
  ASSUME NEW S, IsFiniteSet(S), NEW T, NEW f \in [S -> T], \A t \in T : \E s \in S : f[s] = t
  PROVE  IsFiniteSet(T)
<1>1. f \in Surjection(S, T)
  BY DEF Surjection
<1> QED BY <1>1, FS_Surjection

\* Nothing exists and nothing was served.
LEMMA RolesInitially == RolesInit => RolesInv
<1> SUFFICES ASSUME RolesInit PROVE RolesInv
  OBVIOUS
<1>0. request = NoRequest /\ served = {} /\ NoRequest.at = "idle" /\ orgPolicy = EmptyPolicy
  BY DEF RolesInit, NoRequest
<1>1. RolesTypeOK /\ ReferencesHold
  <2>0. \/ /\ role = [r \in Roles |-> None] /\ team = [t \in Teams |-> None]
           /\ member = {} /\ assignment = [a \in Assignments |-> None]
        \/ /\ role = [r \in Roles |-> NewRole(None, None)] /\ team = [t \in Teams |-> EmptyPolicy]
           /\ member = Teams /\ assignment \in [Assignments -> FirstAssignments]
    BY DEF RolesInit
  <2>1. CASE /\ role = [r \in Roles |-> None] /\ team = [t \in Teams |-> None]
             /\ member = {} /\ assignment = [a \in Assignments |-> None]
    BY <1>0, <2>1 DEF RolesTypeOK, ReferencesHold, AnyPolicy
  <2>2. CASE /\ role = [r \in Roles |-> NewRole(None, None)] /\ team = [t \in Teams |-> EmptyPolicy]
             /\ member = Teams /\ assignment \in [Assignments -> FirstAssignments]
    <3>1. NewRole(None, None) \in RoleRow /\ NewRole(None, None) # None
      BY NewRows, RoleRowsExist
    <3>2. ASSUME NEW n \in FirstAssignments PROVE n \in AssignmentRow /\ n.role \in Roles
      <4> DEFINE New(r, personal, t) ==
                   [role |-> r, person |-> personal, team |-> t, active |-> TRUE, policy |-> EmptyPolicy]
      <4>1. \/ \E r \in Roles : n = New(r, TRUE, None)
            \/ \E r \in Roles, t \in Teams : n = New(r, FALSE, t)
        BY DEF FirstAssignments, NewAssignment
      <4>2. \A r \in Roles : New(r, TRUE, None) \in AssignmentRow /\ New(r, TRUE, None).role \in Roles
        BY DEF AssignmentRow, AnyPolicy
      <4>3. \A r \in Roles, t \in Teams : New(r, FALSE, t) \in AssignmentRow /\ New(r, FALSE, t).role \in Roles
        BY DEF AssignmentRow, AnyPolicy
      <4> HIDE DEF New
      <4>4. QED
        BY <4>1, <4>2, <4>3, Zenon
    <3>3. assignment \in [Assignments -> AssignmentRow] /\ \A a \in Assignments : assignment[a].role \in Roles
      BY <2>2, <3>2
    <3>4. RolesTypeOK
      BY <1>0, <2>2, <3>1, <3>3 DEF RolesTypeOK, AnyPolicy
    <3>5. EmptyPolicy # None
      BY PoliciesArePolicies DEF AnyPolicy
    <3>6. ReferencesHold
      BY <1>0, <2>2, <3>1, <3>3, <3>5 DEF ReferencesHold
    <3> QED BY <3>4, <3>6
  <2> QED BY <2>0, <2>1, <2>2
<1>2. VersionsName
  BY <1>0, RowsReadMember DEF VersionsName
<1>3. ServedFromRows /\ MergeRestricts
  BY <1>0 DEF ServedFromRows, MergeRestricts
<1> QED BY <1>1, <1>2, <1>3 DEF RolesInv

\* An edit keeps what exists and gives new content a new version.
LEMMA EditKeepsInv ==
  ASSUME RolesInv, RolesTypeOK', UNCHANGED <<request, served>>,
         \A r \in Roles : role[r] # None =>
           /\ role'[r] # None /\ role[r].version <= role'[r].version
           /\ role'[r].version = role[r].version => SameContent(role[r], role'[r]),
         \A t \in Teams : team[t] # None => team'[t] # None,
         \A t \in member' : team'[t] # None,
         \A a \in Assignments : assignment'[a] # None => role'[assignment'[a].role] # None
  PROVE  RolesInv'
<1>1. ReferencesHold'
  <2>1. request.at = "reads" => request.teams \subseteq Teams
    BY DEF RolesInv, RolesTypeOK, NoRequest
  <2> QED BY <2>1 DEF RolesInv, ReferencesHold
<1>2. RowsRead' = RowsRead
  BY DEF RowsRead
<1>3. VersionsName'
  <2>1. \A r \in Roles : role[r] # None => role[r].version \in Nat
    BY DEF RolesInv, RolesTypeOK, RoleRow
  <2>2. \A r \in Roles : role'[r] # None => role'[r].version \in Nat
    BY DEF RolesTypeOK, RoleRow
  <2>3. ASSUME NEW x \in RowsRead
        PROVE  /\ x \in [id : Roles, row : RoleRow] /\ role'[x.id] # None
               /\ x.row.version <= role'[x.id].version
               /\ x.row.version = role'[x.id].version => SameContent(x.row, role'[x.id])
    <3>1. /\ x \in [id : Roles, row : RoleRow] /\ role[x.id] # None
          /\ x.row.version <= role[x.id].version
          /\ x.row.version = role[x.id].version => SameContent(x.row, role[x.id])
      BY DEF RolesInv, VersionsName
    <3>2. x.id \in Roles /\ x.row.version \in Nat
      BY <3>1 DEF RoleRow
    <3>3. role[x.id].version \in Nat /\ role'[x.id].version \in Nat /\ role'[x.id] # None
      BY <3>1, <3>2, <2>1, <2>2
    <3> QED BY <3>1, <3>2, <3>3 DEF SameContent
  <2> QED BY <1>2, <2>3 DEF RolesInv, VersionsName
<1>4. ServedFromRows' /\ MergeRestricts'
  BY DEF RolesInv, ServedFromRows, MergeRestricts
<1> QED BY <1>1, <1>3, <1>4 DEF RolesInv

\* A bundle is read from rows that exist now, or were read before.
LEMMA ReadingRows ==
  ASSUME RolesInv, role' = role,
         \A x \in RowsRead' :
            x \in RowsRead \/ (x.id \in Roles /\ role[x.id] # None /\ x = [id |-> x.id, row |-> role[x.id]])
  PROVE  VersionsName'
<1>1. ASSUME NEW x \in RowsRead'
      PROVE  /\ x \in [id : Roles, row : RoleRow] /\ role[x.id] # None
             /\ x.row.version <= role[x.id].version
             /\ x.row.version = role[x.id].version => SameContent(x.row, role[x.id])
  <2>1. CASE x \in RowsRead
    BY <2>1 DEF RolesInv, VersionsName
  <2>2. CASE x.id \in Roles /\ role[x.id] # None /\ x = [id |-> x.id, row |-> role[x.id]]
    <3>1. role[x.id] \in RoleRow /\ role[x.id].version \in Nat
      BY <2>2 DEF RolesInv, RolesTypeOK, RoleRow
    <3>2. x.row = role[x.id]
      BY <2>2
    <3> QED BY <2>2, <3>1, <3>2 DEF SameContent
  <2> QED BY <2>1, <2>2
<1>2. ASSUME NEW x \in RowsRead', NEW y \in RowsRead', x.id = y.id, x.row.version = y.row.version
      PROVE  SameContent(x.row, y.row)
  <2>1. CASE x \in RowsRead /\ y \in RowsRead
    BY <1>2, <2>1 DEF RolesInv, VersionsName
  <2>2. CASE x.row = role[x.id]
    BY <1>1, <1>2, <2>2 DEF SameContent
  <2>3. CASE y.row = role[y.id]
    BY <1>1, <1>2, <2>3 DEF SameContent
  <2> QED BY <2>1, <2>2, <2>3
<1> QED BY <1>1, <1>2 DEF VersionsName

\* Only updateRole changes what a device is given, and it raises the version.
LEMMA RoleEditsKeepInv ==
  ASSUME RolesInv, NEW r \in Roles, NEW m \in Models \cup {None}, NEW e \in Efforts \cup {None},
         createRole(r, m, e) \/ updateRole(r, m, e) \/ archiveRole(r)
  PROVE  RolesInv'
<1>1. PICK row \in RoleRow :
        /\ role' = [role EXCEPT ![r] = row]
        /\ role[r] # None => /\ role[r].version <= row.version
                             /\ row.version = role[r].version => SameContent(role[r], row)
  <2>1. CASE createRole(r, m, e)
    BY <2>1, NewRows DEF createRole
  <2>2. CASE updateRole(r, m, e)
    <3>1. role[r] \in RoleRow /\ role[r].version \in Nat
      BY <2>2 DEF updateRole, RolesInv, RolesTypeOK, RoleRow
    <3>2. role[r].version + 1 \in Nat /\ ~(role[r].version + 1 = role[r].version)
          /\ role[r].version <= role[r].version + 1
      BY <3>1
    <3>3. Revised(r, m, e) \in RoleRow /\ Revised(r, m, e).version = role[r].version + 1
      BY <3>1, <3>2 DEF Revised, RoleRow
    <3>4. role' = [role EXCEPT ![r] = Revised(r, m, e)]
      BY <2>2 DEF updateRole
    <3> QED BY <3>2, <3>3, <3>4
  <2>3. CASE archiveRole(r)
    <3> DEFINE kept == [role[r] EXCEPT !.archived = TRUE]
    <3>1. role[r] \in RoleRow /\ role[r].version \in Nat
      BY <2>3 DEF archiveRole, RolesInv, RolesTypeOK, RoleRow
    <3>2. kept \in RoleRow /\ kept.version = role[r].version /\ SameContent(role[r], kept)
      BY <3>1 DEF RoleRow, SameContent
    <3>3. role' = [role EXCEPT ![r] = kept]
      BY <2>3 DEF archiveRole
    <3> HIDE DEF kept
    <3>4. role[r].version <= kept.version
      BY <3>1, <3>2
    <3> QED BY <3>2, <3>3, <3>4
  <2> QED BY <2>1, <2>2, <2>3
<1>2. row # None
  BY RoleRowsExist
<1>3. UNCHANGED <<request, served, team, orgPolicy, member, assignment>>
  BY DEF createRole, updateRole, archiveRole, Edit
<1>4. RolesTypeOK'
  BY <1>1, <1>3 DEF RolesInv, RolesTypeOK
<1>5. \A q \in Roles : role[q] # None =>
        /\ role'[q] # None /\ role[q].version <= role'[q].version
        /\ role'[q].version = role[q].version => SameContent(role[q], role'[q])
  BY <1>1, <1>2 DEF RolesInv, RolesTypeOK, SameContent, RoleRow
<1>6. /\ \A t \in Teams : team[t] # None => team'[t] # None
      /\ \A t \in member' : team'[t] # None
  BY <1>3 DEF RolesInv, ReferencesHold
<1>7. \A a \in Assignments : assignment'[a] # None => role'[assignment'[a].role] # None
  <2>1. \A a \in Assignments : assignment[a] # None => assignment[a].role \in Roles
    BY DEF RolesInv, RolesTypeOK, AssignmentRow
  <2>2. \A a \in Assignments : assignment[a] # None => role[assignment[a].role] # None
    BY DEF RolesInv, ReferencesHold
  <2> QED BY <1>3, <1>5, <2>1, <2>2
<1> QED BY <1>3, <1>4, <1>5, <1>6, <1>7, EditKeepsInv

\* An edit that leaves the roles alone.
LEMMA OtherEditsKeepInv ==
  ASSUME RolesInv, role' = role, UNCHANGED <<request, served>>, RolesTypeOK',
         \A t \in Teams : team[t] # None => team'[t] # None,
         \A t \in member' : team'[t] # None,
         \A a \in Assignments : assignment'[a] # None => role[assignment'[a].role] # None
  PROVE  RolesInv'
<1>1. \A q \in Roles : role[q] # None =>
        /\ role'[q] # None /\ role[q].version <= role'[q].version
        /\ role'[q].version = role[q].version => SameContent(role[q], role'[q])
  BY DEF RolesInv, RolesTypeOK, SameContent, RoleRow
<1> QED BY <1>1, EditKeepsInv

\* The person, its device and the policy of the organization.
LEMMA PeopleKeepInv ==
  ASSUME RolesInv, createPerson \/ bindDevicePerson \/ \E p \in Policies : setOrgPolicy(p)
  PROVE  RolesInv'
<1>1. UNCHANGED <<request, served, role, team, member, assignment>> /\ orgPolicy' \in AnyPolicy
  BY DEF createPerson, bindDevicePerson, setOrgPolicy, Edit, AnyPolicy, RolesInv, RolesTypeOK
<1>2. RolesTypeOK'
  BY <1>1 DEF RolesInv, RolesTypeOK
<1> QED BY <1>1, <1>2, OtherEditsKeepInv DEF RolesInv, ReferencesHold

\* Teams are never deleted, so a member's team stays.
LEMMA TeamsKeepInv ==
  ASSUME RolesInv, NEW t \in Teams,
         createTeam(t) \/ addTeamMember(t) \/ \E p \in Policies : setTeamPolicy(t, p)
  PROVE  RolesInv'
<1>1. PICK q \in AnyPolicy : team' = [team EXCEPT ![t] = q] \/ (team' = team /\ team[t] # None)
  <2>1. EmptyPolicy \in AnyPolicy /\ \A p \in Policies : p \in AnyPolicy
    BY DEF AnyPolicy
  <2>2. \/ team' = [team EXCEPT ![t] = EmptyPolicy]
        \/ \E p \in Policies : team' = [team EXCEPT ![t] = p]
        \/ team' = team /\ team[t] # None
    BY DEF createTeam, addTeamMember, setTeamPolicy
  <2> QED BY <2>1, <2>2
<1>2. q # None
  BY PoliciesArePolicies
<1>3. /\ UNCHANGED <<request, served, role, orgPolicy, assignment>>
      /\ member' = member \/ (member' = member \cup {t} /\ team' = team)
  BY DEF createTeam, addTeamMember, setTeamPolicy, Edit
<1>4. \A s \in Teams : team[s] # None => team'[s] # None
  BY <1>1, <1>2 DEF RolesInv, RolesTypeOK
<1>5. RolesTypeOK'
  BY <1>1, <1>3 DEF RolesInv, RolesTypeOK
<1>6. team'[t] # None
  BY <1>1, <1>2 DEF RolesInv, RolesTypeOK
<1>7. \A s \in member' : team'[s] # None
  BY <1>3, <1>4, <1>6 DEF RolesInv, RolesTypeOK, ReferencesHold
<1> QED BY <1>3, <1>4, <1>5, <1>7, OtherEditsKeepInv DEF RolesInv, ReferencesHold

\* An assignment is made to a role that exists, and roles are archived, never deleted.
LEMMA AssignmentsKeepInv ==
  ASSUME RolesInv, NEW a \in Assignments,
         \/ \E r \in Roles, personal \in BOOLEAN, t \in Teams \cup {None} : createAssignment(a, r, personal, t)
         \/ deleteAssignment(a)
         \/ \E on \in BOOLEAN, p \in Policies : updateAssignment(a, on, p)
  PROVE  RolesInv'
<1> DEFINE R == AssignmentRow
<1>1. PICK row \in {None} \cup R :
        assignment' = [assignment EXCEPT ![a] = row] /\ (row # None => role[row.role] # None)
  <2>1. ASSUME NEW r \in Roles, NEW personal \in BOOLEAN, NEW t \in Teams \cup {None},
             createAssignment(a, r, personal, t)
        PROVE  \E row \in {None} \cup R :
                 assignment' = [assignment EXCEPT ![a] = row] /\ (row # None => role[row.role] # None)
    <3> DEFINE new == NewAssignment(r, personal, t)
    <3>1. new \in R /\ new.role = r
      BY NewRows
    <3>2. assignment' = [assignment EXCEPT ![a] = new] /\ role[r] # None
      BY <2>1 DEF createAssignment
    <3> HIDE DEF new, R
    <3> QED BY <3>1, <3>2
  <2>2. ASSUME deleteAssignment(a)
        PROVE  \E row \in {None} \cup R :
                 assignment' = [assignment EXCEPT ![a] = row] /\ (row # None => role[row.role] # None)
    BY <2>2 DEF deleteAssignment
  <2>3. ASSUME NEW on \in BOOLEAN, NEW p \in Policies, updateAssignment(a, on, p)
        PROVE  \E row \in {None} \cup R :
                 assignment' = [assignment EXCEPT ![a] = row] /\ (row # None => role[row.role] # None)
    <3> DEFINE row == [assignment[a] EXCEPT !.active = on, !.policy = p]
    <3>1. assignment[a] \in R /\ role[assignment[a].role] # None
      BY <2>3 DEF updateAssignment, RolesInv, RolesTypeOK, ReferencesHold
    <3>2. p \in AnyPolicy
      BY DEF AnyPolicy
    <3>3. row \in R /\ row.role = assignment[a].role
      BY <3>1, <3>2 DEF AssignmentRow
    <3>4. assignment' = [assignment EXCEPT ![a] = row]
      BY <2>3 DEF updateAssignment, RolesInv, RolesTypeOK
    <3> HIDE DEF row, R
    <3> QED BY <3>1, <3>3, <3>4
  <2> QED BY <2>1, <2>2, <2>3
<1>2. UNCHANGED <<request, served, role, team, orgPolicy, member>>
  BY DEF createAssignment, deleteAssignment, updateAssignment, Edit
<1>3. RolesTypeOK'
  BY <1>1, <1>2 DEF RolesInv, RolesTypeOK
<1>4. \A c \in Assignments : assignment'[c] # None => role[assignment'[c].role] # None
  BY <1>1 DEF RolesInv, RolesTypeOK, ReferencesHold
<1> QED BY <1>2, <1>3, <1>4, OtherEditsKeepInv DEF RolesInv, ReferencesHold

\* A bundle begins, or the policy of an organization alone is served.
LEMMA ReadsDeviceKeepsInv == RolesInv /\ ReadsDevice => RolesInv'
<1> SUFFICES ASSUME RolesInv, ReadsDevice PROVE RolesInv'
  OBVIOUS
<1> USE DEF RolesInv
<1>1. UNCHANGED <<role, team, orgPolicy, member, assignment>>
  BY DEF ReadsDevice, Serve, catalog
<1>2. CASE bound
  <2>1. /\ request' = [at |-> "reads", org |-> orgPolicy, teams |-> member, assigned |-> None, policies |-> None]
        /\ served' = served
    BY <1>2 DEF ReadsDevice
  <2>2. RolesTypeOK'
    BY <1>1, <2>1 DEF RolesTypeOK
  <2>3. ReferencesHold'
    BY <1>1, <2>1 DEF ReferencesHold
  <2>4. \A x \in RowsRead' : x \in RowsRead
    BY <2>1 DEF RowsRead
  <2>5. VersionsName'
    BY <1>1, <2>4, ReadingRows
  <2> QED BY <2>1, <2>2, <2>3, <2>5 DEF ServedFromRows, MergeRestricts
<1>3. CASE ~bound
  <2> DEFINE b == [device |-> "unbound", version |-> <<>>, roles |-> {}, policy |-> mergePolicy(<<orgPolicy>>),
                   org |-> orgPolicy, layers |-> {orgPolicy}, rows |-> {}]
  <2>1. request' = NoRequest /\ served' = served \cup {b}
    BY <1>3 DEF ReadsDevice, Serve
  <2>2. b.device = "unbound" /\ b.rows = {} /\ b.policy = mergePolicy(<<orgPolicy>>) /\ b.org = orgPolicy
        /\ b.layers = {orgPolicy}
    OBVIOUS
  <2> HIDE DEF b
  <2>3. RolesTypeOK'
    BY <1>1, <2>1 DEF RolesTypeOK
  <2>4. ReferencesHold'
    BY <1>1, <2>1 DEF ReferencesHold, NoRequest
  <2>5. VersionsName'
    <3>1. \A x \in RowsRead' : x \in RowsRead
      <4>1. request'.at # "reads"
        BY <2>1 DEF NoRequest
      <4> QED BY <2>1, <2>2, <4>1 DEF RowsRead
    <3> QED BY <1>1, <3>1, ReadingRows
  <2>6. ServedFromRows'
    BY <2>1, <2>2 DEF ServedFromRows
  <2>7. MergeRestricts'
    <3> DEFINE layers == <<orgPolicy>>
    <3>1. Len(layers) = 1 /\ layers[1] = orgPolicy /\ IsPolicy(orgPolicy)
      BY PoliciesArePolicies DEF RolesTypeOK
    <3>2. b.policy = mergePolicy(layers)
      BY <2>2
    <3> HIDE DEF layers
    <3>3. /\ Restricts(b.policy, orgPolicy)
          /\ (orgPolicy.budget.kind # "none" => b.policy.budget.kind = orgPolicy.budget.kind)
      BY <3>1, <3>2, MergeNarrows
    <3> QED BY <2>1, <2>2, <3>3 DEF MergeRestricts
  <2> QED BY <2>3, <2>4, <2>5, <2>6, <2>7
<1> QED BY <1>2, <1>3

\* What is read now is what the roles, assignments and teams are now.
LEMMA ReadsKeepInv ==
  ASSUME RolesInv, ReadsAssignments \/ ReadsTeams
  PROVE  RolesInv'
<1> USE DEF RolesInv
<1>0. /\ request \in [at : {"reads"}, org : AnyPolicy, teams : SUBSET Teams,
                      assigned : {None} \cup SUBSET AssignedRow, policies : {None} \cup SUBSET TeamRow]
      /\ UNCHANGED <<role, team, orgPolicy, member, assignment, served>>
  BY DEF ReadsAssignments, ReadsTeams, RolesTypeOK, NoRequest, catalog
<1>1. CASE ReadsAssignments
  <2> DEFINE Applied == {b \in Assignments : /\ assignment[b] # None /\ assignment[b].active
                                             /\ assignment[b].person \/ assignment[b].team \in request.teams}
             Read(a) == [id |-> a, policy |-> assignment[a].policy,
                         role |-> [id |-> assignment[a].role, row |-> role[assignment[a].role]]]
             A == {Read(a) : a \in Applied}
  <2>1. request' = [request EXCEPT !.assigned = A]
    BY <1>1 DEF ReadsAssignments
  <2>2. ASSUME NEW a \in Applied
        PROVE  /\ Read(a) \in AssignedRow /\ Read(a).role.id \in Roles /\ role[Read(a).role.id] # None
               /\ Read(a).role = [id |-> Read(a).role.id, row |-> role[Read(a).role.id]]
    <3>1. /\ assignment[a].policy \in AnyPolicy /\ assignment[a].role \in Roles
          /\ role[assignment[a].role] \in RoleRow /\ role[assignment[a].role] # None
      BY DEF RolesTypeOK, ReferencesHold, AssignmentRow
    <3> QED BY <3>1 DEF AssignedRow
  <2>9. IsFiniteSet(A)
    <3>1. IsFiniteSet(Applied)
      <4>1. Applied \subseteq Assignments /\ IsFiniteSet(Assignments)
        BY RolesAssumption
      <4> HIDE DEF Applied
      <4> QED BY <4>1, FS_Subset
    <3> DEFINE f == [a \in Applied |-> Read(a)]
    <3> HIDE DEF Read, Applied
    <3>2. f \in [Applied -> A] /\ \A t \in A : \E s \in Applied : f[s] = t
      OBVIOUS
    <3> HIDE DEF f, A
    <3> QED BY <3>1, <3>2, ImageIsFinite
  <2> HIDE DEF Read, Applied
  <2>3. A \in SUBSET AssignedRow
    BY <2>2
  <2>4. \A x \in A :
          x.role.id \in Roles /\ role[x.role.id] # None /\ x.role = [id |-> x.role.id, row |-> role[x.role.id]]
    BY <2>2
  <2> HIDE DEF A
  <2>5. request'.at = "reads" /\ request'.teams = request.teams /\ request'.assigned = A
    BY <1>0, <2>1
  <2>6. RolesTypeOK'
    <3>1. request' \in [at : {"reads"}, org : AnyPolicy, teams : SUBSET Teams,
                        assigned : {None} \cup SUBSET AssignedRow, policies : {None} \cup SUBSET TeamRow]
      BY <1>0, <2>1, <2>3
    <3> QED BY <1>0, <3>1 DEF RolesTypeOK
  <2>7. ReferencesHold'
    <3>1. request'.policies = request.policies
      BY <1>0, <2>1
    <3> QED BY <1>0, <2>5, <2>9, <3>1 DEF ReferencesHold
  <2>8. VersionsName'
    <3>1. ASSUME NEW x \in RowsRead'
          PROVE  x \in RowsRead \/ (x.id \in Roles /\ role[x.id] # None /\ x = [id |-> x.id, row |-> role[x.id]])
      <4>1. (\E b \in served : x \in b.rows) \/ (\E a \in A : x = a.role)
        BY <1>0, <2>5, RowsReadNext
      <4> QED BY <2>4, <4>1, RowsReadMember
    <3> QED BY <1>0, <3>1, ReadingRows
  <2> QED BY <1>0, <2>6, <2>7, <2>8 DEF ServedFromRows, MergeRestricts
<1>2. CASE ReadsTeams
  <2> DEFINE P == {[id |-> t, policy |-> team[t]] : t \in request.teams}
  <2>1. request' = [request EXCEPT !.policies = P]
    BY <1>2 DEF ReadsTeams
  <2>2. P \in SUBSET TeamRow
    <3>1. \A t \in request.teams : t \in Teams /\ team[t] \in AnyPolicy
      BY <1>0 DEF RolesTypeOK, ReferencesHold
    <3> QED BY <3>1 DEF TeamRow
  <2>8. IsFiniteSet(P)
    <3>1. IsFiniteSet(request.teams)
      <4>1. request.teams \subseteq Teams /\ IsFiniteSet(Teams)
        BY <1>0, RolesAssumption
      <4> QED BY <4>1, FS_Subset
    <3> DEFINE f == [t \in request.teams |-> [id |-> t, policy |-> team[t]]]
    <3>2. f \in [request.teams -> P] /\ \A x \in P : \E t \in request.teams : f[t] = x
      OBVIOUS
    <3> HIDE DEF f, P
    <3> QED BY <3>1, <3>2, ImageIsFinite
  <2> HIDE DEF P
  <2>3. request'.at = request.at /\ request'.teams = request.teams /\ request'.assigned = request.assigned
    BY <1>0, <2>1
  <2>4. RolesTypeOK'
    <3>1. request' \in [at : {"reads"}, org : AnyPolicy, teams : SUBSET Teams,
                        assigned : {None} \cup SUBSET AssignedRow, policies : {None} \cup SUBSET TeamRow]
      BY <1>0, <2>1, <2>2
    <3> QED BY <1>0, <3>1 DEF RolesTypeOK
  <2>5. ReferencesHold'
    <3>1. request'.policies = P
      BY <1>0, <2>1
    <3> QED BY <1>0, <2>3, <2>8, <3>1 DEF ReferencesHold
  <2>6. RowsRead' = RowsRead
    BY <1>0, <2>3 DEF RowsRead
  <2>7. VersionsName'
    BY <1>0, <2>6, ReadingRows
  <2> QED BY <1>0, <2>4, <2>5, <2>7 DEF ServedFromRows, MergeRestricts
<1> QED BY <1>1, <1>2

\* Rows that came in some order are a sequence.
LEMMA RowsInOrder ==
  ASSUME NEW S, IsFiniteSet(S), NEW rows \in SetToSeqs(S), \A x \in S : x.policy \in AnyPolicy
  PROVE  PoliciesOf(rows) \in Seq(AnyPolicy)
<1>1. Cardinality(S) \in Nat /\ rows \in [1 .. Cardinality(S) -> S]
  BY FS_CardinalityType DEF SetToSeqs
<1>2. PoliciesOf(rows) \in [1 .. Cardinality(S) -> AnyPolicy]
  BY <1>1 DEF PoliciesOf
<1> QED BY <1>1, <1>2

\* The organization's policy comes first.
LEMMA LayersFollow ==
  ASSUME NEW org \in AnyPolicy, NEW s \in Seq(AnyPolicy), NEW t \in Seq(AnyPolicy)
  PROVE  LET layers == <<org>> \o s \o t
         IN  /\ layers \in Seq(AnyPolicy) /\ Len(layers) \in Nat /\ Len(layers) > 0
             /\ layers[1] = org /\ DOMAIN layers = 1 .. Len(layers)
             /\ \A i \in 1 .. Len(layers) : layers[i] \in AnyPolicy
<1> HIDE DEF AnyPolicy
<1> DEFINE first == <<org>>
           upper == first \o s
           layers == upper \o t
<1>1. first \in Seq(AnyPolicy) /\ Len(first) = 1 /\ first[1] = org
  OBVIOUS
<1> HIDE DEF first
<1>2. /\ upper \in Seq(AnyPolicy) /\ Len(upper) = Len(first) + Len(s)
      /\ \A i \in 1 .. Len(first) + Len(s) : upper[i] = IF i <= Len(first) THEN first[i] ELSE s[i - Len(first)]
  BY <1>1, ConcatProperties
<1> HIDE DEF upper
<1>3. Len(s) \in Nat /\ Len(t) \in Nat /\ Len(upper) \in Nat /\ Len(upper) >= 1 /\ upper[1] = org
  <2>1. Len(s) \in Nat /\ Len(t) \in Nat
    BY LenProperties
  <2>2. 1 \in 1 .. Len(first) + Len(s) /\ 1 <= Len(first)
    BY <1>1, <2>1
  <2> QED BY <1>1, <1>2, <2>1, <2>2
<1>4. /\ layers \in Seq(AnyPolicy) /\ Len(layers) = Len(upper) + Len(t)
      /\ \A i \in 1 .. Len(upper) + Len(t) : layers[i] = IF i <= Len(upper) THEN upper[i] ELSE t[i - Len(upper)]
  <2>1. upper \in Seq(AnyPolicy)
    BY <1>2
  <2> QED BY ONLY <2>1, t \in Seq(AnyPolicy), ConcatProperties
<1> HIDE DEF layers
<1>5. Len(layers) \in Nat /\ Len(layers) > 0 /\ layers[1] = org
  <2>1. 1 \in 1 .. Len(upper) + Len(t) /\ 1 <= Len(upper)
    BY <1>3
  <2> QED BY <1>3, <1>4, <2>1
<1>6. DOMAIN layers = 1 .. Len(layers) /\ \A i \in 1 .. Len(layers) : layers[i] \in AnyPolicy
  BY <1>4, LenProperties
<1> QED BY <1>4, <1>5, <1>6 DEF layers, upper, first

\* The bundle of a bound device.
LEMMA ResolveKeepsInv == RolesInv /\ Resolve => RolesInv'
<1> SUFFICES ASSUME RolesInv, Resolve PROVE RolesInv'
  OBVIOUS
<1> USE DEF RolesInv
<1> DEFINE applicable == {a \in request.assigned : ~a.role.row.archived}
           roles == {a.role : a \in applicable}
           L(ts, as) == <<request.org>> \o PoliciesOf(ts) \o PoliciesOf(as)
           B(layers) ==
             [device |-> "bound", version |-> <<mergePolicy(layers), {<<r.id, r.row.version>> : r \in roles}>>,
              roles |-> {[id |-> r.id, model |-> r.row.model, effort |-> r.row.effort] : r \in roles},
              policy |-> mergePolicy(layers), org |-> request.org, layers |-> {layers[i] : i \in DOMAIN layers},
              rows |-> roles]
<1>1. /\ request.at = "reads" /\ request.assigned \in SUBSET AssignedRow /\ request.policies \in SUBSET TeamRow
      /\ request.org \in AnyPolicy /\ request.assigned # None
  BY DEF Resolve, RolesTypeOK, NoRequest
<1>2. PICK ts \in SetToSeqs(request.policies), as \in SetToSeqs(applicable) : Serve(B(L(ts, as)))
  BY DEF Resolve
<1> DEFINE layers == L(ts, as)
           b == B(layers)
<1>3. request' = NoRequest /\ served' = served \cup {b} /\ UNCHANGED <<role, team, orgPolicy, member, assignment>>
  BY <1>2 DEF Serve, catalog
<1>4. /\ layers \in Seq(AnyPolicy) /\ Len(layers) \in Nat /\ Len(layers) > 0
      /\ layers[1] = request.org /\ DOMAIN layers = 1 .. Len(layers)
      /\ \A i \in 1 .. Len(layers) : layers[i] \in AnyPolicy
  <2>1. PoliciesOf(ts) \in Seq(AnyPolicy)
    <3>1. IsFiniteSet(request.policies)
      BY <1>1 DEF Resolve, ReferencesHold
    <3>2. \A x \in request.policies : x.policy \in AnyPolicy
      BY <1>1 DEF TeamRow
    <3> QED BY <3>1, <3>2, RowsInOrder
  <2>2. PoliciesOf(as) \in Seq(AnyPolicy)
    <3>1. IsFiniteSet(applicable)
      <4>1. IsFiniteSet(request.assigned) /\ applicable \subseteq request.assigned
        BY <1>1 DEF ReferencesHold
      <4> HIDE DEF applicable
      <4> QED BY <4>1, FS_Subset
    <3>2. \A x \in applicable : x.policy \in AnyPolicy
      BY <1>1 DEF AssignedRow
    <3> HIDE DEF applicable
    <3> QED BY <3>1, <3>2, RowsInOrder
  <2> QED BY <1>1, <2>1, <2>2, LayersFollow
<1>5. /\ b.device = "bound" /\ b.rows = roles /\ b.policy = mergePolicy(layers) /\ b.org = request.org
      /\ b.layers = {layers[i] : i \in DOMAIN layers}
      /\ b.version = <<b.policy, {<<r.id, r.row.version>> : r \in b.rows}>>
      /\ b.roles = {[id |-> r.id, model |-> r.row.model, effort |-> r.row.effort] : r \in b.rows}
  <2> HIDE DEF roles, layers
  <2> QED OBVIOUS
<1> HIDE DEF b, layers
<1>6. RolesTypeOK'
  BY <1>3 DEF RolesTypeOK
<1>7. ReferencesHold'
  BY <1>3 DEF ReferencesHold, NoRequest
<1>8. VersionsName'
  <2>1. request'.at # "reads"
    BY <1>3 DEF NoRequest
  <2>2. \A x \in RowsRead' : x \in RowsRead
    <3>1. \A x \in roles : \E a \in request.assigned : x = a.role
      OBVIOUS
    <3> HIDE DEF roles
    <3> QED BY <1>1, <1>3, <1>5, <2>1, <3>1, RowsReadNext, RowsReadMember
  <2> QED BY <1>3, <2>2, ReadingRows
<1>9. ServedFromRows'
  BY <1>3, <1>5 DEF ServedFromRows
<1>10. MergeRestricts'
  <2>1. \A i \in 1 .. Len(layers) : IsPolicy(layers[i])
    BY <1>4, PoliciesArePolicies
  <2>2. /\ \A i \in 1 .. Len(layers) : Restricts(b.policy, layers[i])
        /\ b.org.budget.kind # "none" => b.policy.budget.kind = b.org.budget.kind
    BY <1>4, <1>5, <2>1, MergeNarrows
  <2>3. \A p \in b.layers : Restricts(b.policy, p)
    BY <1>4, <1>5, <2>2
  <2> QED BY <1>3, <2>2, <2>3 DEF MergeRestricts
<1> QED BY <1>6, <1>7, <1>8, <1>9, <1>10

\* One step of the roles.
LEMMA RolesStep == RolesInv /\ [RolesNext]_rolesVars => RolesInv'
<1> SUFFICES ASSUME RolesInv, [RolesNext]_rolesVars PROVE RolesInv'
  OBVIOUS
<1>1. CASE UNCHANGED rolesVars
  BY <1>1 DEF RolesInv, RolesTypeOK, ReferencesHold, VersionsName, RowsRead, ServedFromRows, MergeRestricts,
     rolesVars, catalog
<1>2. ASSUME NEW r \in Roles, NEW m \in Models \cup {None}, NEW e \in Efforts \cup {None},
             createRole(r, m, e) \/ updateRole(r, m, e)
      PROVE  RolesInv'
  BY <1>2, RoleEditsKeepInv
<1>3. ASSUME NEW r \in Roles, archiveRole(r) PROVE RolesInv'
  BY <1>3, RoleEditsKeepInv
<1>4. ASSUME NEW a \in Assignments,
             \/ \E r \in Roles, personal \in BOOLEAN, t \in Teams \cup {None} : createAssignment(a, r, personal, t)
             \/ deleteAssignment(a)
             \/ \E on \in BOOLEAN, p \in Policies : updateAssignment(a, on, p)
      PROVE  RolesInv'
  BY <1>4, AssignmentsKeepInv
<1>5. ASSUME NEW t \in Teams, createTeam(t) \/ addTeamMember(t) \/ \E p \in Policies : setTeamPolicy(t, p)
      PROVE  RolesInv'
  BY <1>5, TeamsKeepInv
<1>6. ASSUME createPerson \/ bindDevicePerson \/ \E p \in Policies : setOrgPolicy(p) PROVE RolesInv'
  BY <1>6, PeopleKeepInv
<1>7. ASSUME ReadsDevice \/ ReadsAssignments \/ ReadsTeams \/ Resolve PROVE RolesInv'
  BY <1>7, ReadsDeviceKeepsInv, ReadsKeepInv, ResolveKeepsInv
<1> QED BY <1>1, <1>2, <1>3, <1>4, <1>5, <1>6, <1>7 DEF RolesNext

\* RolesInv holds in every reachable state.
THEOREM RolesInvariant == RolesSpec => []RolesInv
BY RolesInitially, RolesStep, PTL DEF RolesSpec

\* mergePolicy, for every number of layers in whatever order they came, and whatever was edited while
\* they were read: no bundle widens a layer it was merged from.
THEOREM BundlesRestrict == RolesSpec => []MergeRestricts
BY RolesInvariant, PTL DEF RolesInv

\* resolveBundleForDevice: two bundles of a bound device with one version are the same, however roles,
\* assignments and policies were edited between them.
THEOREM VersionsNameBundles == RolesSpec => []VersionNamesBundle
<1>1. RolesInv => VersionNamesBundle
  <2> SUFFICES ASSUME RolesInv, NEW b \in served, NEW c \in served,
                      b.device = "bound", c.device = "bound", b.version = c.version
               PROVE  b.roles = c.roles /\ b.policy = c.policy
    BY DEF VersionNamesBundle
  <2>1. /\ b.policy = c.policy
        /\ {<<r.id, r.row.version>> : r \in b.rows} = {<<r.id, r.row.version>> : r \in c.rows}
    <3> DEFINE Vb == {<<r.id, r.row.version>> : r \in b.rows}
               Vc == {<<r.id, r.row.version>> : r \in c.rows}
    <3>1. b.version = <<b.policy, Vb>> /\ c.version = <<c.policy, Vc>>
      BY DEF RolesInv, ServedFromRows
    <3> HIDE DEF Vb, Vc
    <3>2. <<b.policy, Vb>> = <<c.policy, Vc>>
      BY <3>1
    <3>3. b.policy = c.policy /\ Vb = Vc
      BY <3>2
    <3> QED BY <3>3 DEF Vb, Vc
  <2>2. \A x \in b.rows, y \in c.rows : x.id = y.id /\ x.row.version = y.row.version => SameContent(x.row, y.row)
    BY RowsReadMember DEF RolesInv, VersionsName
  <2>3. \A x \in b.rows : \E y \in c.rows : x.id = y.id /\ x.row.version = y.row.version
    <3> TAKE x \in b.rows
    <3>1. <<x.id, x.row.version>> \in {<<r.id, r.row.version>> : r \in c.rows}
      BY <2>1
    <3> QED BY <3>1
  <2>4. \A y \in c.rows : \E x \in b.rows : x.id = y.id /\ x.row.version = y.row.version
    <3> TAKE y \in c.rows
    <3>1. <<y.id, y.row.version>> \in {<<r.id, r.row.version>> : r \in b.rows}
      BY <2>1
    <3> QED BY <3>1
  <2> DEFINE Given(r) == [id |-> r.id, model |-> r.row.model, effort |-> r.row.effort]
  <2>5. b.roles = {Given(r) : r \in b.rows} /\ c.roles = {Given(r) : r \in c.rows}
    BY DEF RolesInv, ServedFromRows
  <2>6. \A x \in b.rows, y \in c.rows : x.id = y.id /\ x.row.version = y.row.version => Given(x) = Given(y)
    BY <2>2 DEF SameContent
  <2> HIDE DEF Given
  <2>7. \A v : v \in {Given(r) : r \in b.rows} <=> v \in {Given(r) : r \in c.rows}
    BY <2>3, <2>4, <2>6
  <2> QED BY <2>1, <2>5, <2>7
<1> QED BY <1>1, RolesInvariant, PTL
=============================================================================
