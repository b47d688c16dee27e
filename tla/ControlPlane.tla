---------------------------- MODULE ControlPlane ----------------------------
(***************************************************************************)
(* The control plane: enrollments, revocations and Desk binding mutations  *)
(* of one organization interleave at every await; the process may die at   *)
(* any of them; remote systems may execute a request its caller abandoned. *)
(***************************************************************************)
EXTENDS RevokeDevice, DeskBinding

\* The process dies: no catch block runs, every call in flight is lost, the rows stay.
Crash ==
  /\ crashes < MaxCrashes
  /\ crashes' = crashes + 1
  /\ epc' = [r \in Requests |-> IF Running(r) THEN "crashed" ELSE epc[r]]
  /\ apc' = [v \in Admins |-> "idle"] /\ aDevice' = [v \in Admins |-> None]
  /\ snapProvisioned' = {} /\ snapPending' = {} /\ snapCompleted' = {}
  /\ snapOrigin' = [v \in Admins |-> None]
  /\ bpc' = [p \in BindingOps |-> IF bpc[p] = "idle" THEN "idle" ELSE "done"]
  /\ opOrigin' = [p \in BindingOps |-> None] /\ opCredential' = [p \in BindingOps |-> None]
  /\ opVersion' = [p \in BindingOps |-> 0]
  /\ UNCHANGED <<dbVars, remoteVars, localVars, undoVars, faults, ghostVars>>

\* A remote system executes a request whose caller had already timed out.
ExecuteLateKey(r) ==
  /\ r \in lateKeys
  /\ lateKeys' = lateKeys \ {r}
  /\ keys' = keys \cup {r}
  /\ UNCHANGED <<dbVars, deskVars, lateRegisters, enrollVars, revokeVars, opVars, faults, crashes, ghostVars>>

ExecuteLateRegister(r) ==
  /\ r \in lateRegisters
  /\ lateRegisters' = lateRegisters \ {r}
  /\ installs' = installs \cup {<<r, target[r]>>}
  /\ UNCHANGED <<dbVars, keys, retired, lateKeys, enrollVars, revokeVars, opVars, faults, crashes, ghostVars>>

Init == ControlInit

Next ==
  \/ \E r \in Requests : EnrollStep(r) \/ ExecuteLateKey(r) \/ ExecuteLateRegister(r)
  \/ \E v \in Admins : RevokeProceeds(v) \/ \E d \in Requests : RevokeStart(v, d)
  \/ \E p \in BindingOps : BindingStep(p)
  \/ Crash

Spec == Init /\ [][Next]_vars

\* An administrator keeps retrying a revocation the fleet view shows as pending, and the process
\* serves the calls it has accepted.
RetryFairness ==
  \A v \in Admins : /\ WF_vars(RevokeProceeds(v))
                    /\ \A d \in Requests : SF_vars(RevokeStart(v, d))
FairSpec == Spec /\ RetryFairness

-----------------------------------------------------------------------------
(***************************************************************************)
(* Properties.                                                             *)
(***************************************************************************)

\* Every row, remote object and local variable has its type, and the foreign keys of the device
\* table hold: a token or a Desk column exists only on a device row.
TypeOK ==
  /\ usedAt \in [Codes -> Nat]
  /\ devices \subseteq Requests /\ tokens \subseteq devices /\ tokenRevoked \subseteq tokens
  /\ revocationRequested \subseteq devices /\ revocationCompleted \subseteq devices
  /\ deskProvisioned \subseteq devices /\ deskCleanupPending \subseteq devices
  /\ deskOrigin \in [Requests -> Origins \cup {None}]
  /\ bindingStatus \in Statuses /\ bindingOrigin \in Origins \cup {None}
  /\ bindingCredential \in BindingOps \cup {None}
  /\ configVersion \in Nat /\ secrets \subseteq BindingOps
  /\ enrollAudited \subseteq Requests /\ rollbackAudited \subseteq Requests
  /\ keys \subseteq Requests
  /\ installs \subseteq Requests \X Origins /\ retired \subseteq Requests \X Origins
  /\ lateKeys \subseteq Requests /\ lateRegisters \subseteq Requests
  /\ epc \in [Requests -> EnrollSteps]
  /\ target \in [Requests -> Origins \cup {None}]
  /\ credentialRef \in [Requests -> BindingOps \cup {None}]
  /\ gatewayRevoked \subseteq Requests /\ deskRevoked \subseteq Requests
  /\ cleanupReported \subseteq Requests
  /\ deviceRemoved \subseteq Requests /\ codeRestored \subseteq Requests
  /\ apc \in [Admins -> RevokeSteps] /\ aDevice \in [Admins -> Requests \cup {None}]
  /\ snapProvisioned \subseteq Admins /\ snapPending \subseteq Admins
  /\ snapCompleted \subseteq Admins /\ snapOrigin \in [Admins -> Origins \cup {None}]
  /\ bpc \in [BindingOps -> OpSteps] /\ opOrigin \in [BindingOps -> Origins \cup {None}]
  /\ opCredential \in [BindingOps -> BindingOps \cup {None}]
  /\ opVersion \in [BindingOps -> Nat]
  /\ faults \in Nat /\ crashes \in Nat
  /\ holds \subseteq Requests /\ racing \subseteq Requests /\ swallowed \subseteq Requests
  /\ probed \subseteq Nat

\* A code is claimed by at most one request at a time, and its row says so: usedAt is null exactly
\* when nobody holds the code, and otherwise carries the holder's stamp (enroll's updateMany
\* compare-and-set, its compensation, and crashes in between).
ClaimExclusive ==
  /\ \A r, q \in holds : CodeOf[r] = CodeOf[q] => r = q
  /\ \A r \in holds : usedAt[CodeOf[r]] = Stamp[r]
  /\ \A c \in Codes : usedAt[c] # 0 => \E r \in holds : CodeOf[r] = c

\* An enrollment that answered success stays usable until somebody revokes the device: row, live
\* token, live gateway key, claimed code, an audit entry with no rollback, and a live Desk
\* installation at the recorded origin if the row says so.
SuccessIsUsable ==
  \A r \in Requests : epc[r] = "enrolled" /\ r \notin revocationRequested =>
    /\ r \in devices /\ r \in tokens \ tokenRevoked /\ r \in keys /\ r \in holds
    /\ r \in enrollAudited \ rollbackAudited
    /\ r \notin deskCleanupPending
    /\ r \in deskProvisioned => <<r, deskOrigin[r]>> \in installs

\* Giving a code back means nothing of the failed enrollment is left: no row, no token, no Desk
\* installation, and no gateway key unless the adapter itself failed to clean an uncertain one.
RestoredCodeIsClean ==
  \A r \in codeRestored :
    /\ r \notin devices /\ r \notin tokens /\ r \notin holds
    /\ ~LateDelivery => \A o \in Origins : <<r, o>> \notin installs
    /\ ~LateDelivery /\ r \notin swallowed => r \notin keys

\* A gateway key always has the device row an administrator can revoke it through, whatever calls
\* fail and wherever the process dies; the exception is a failed cleanup inside issueKey.
NoOrphanKey == ~LateDelivery => keys \subseteq devices \cup swallowed

\* Every live Desk installation is on record: its device row exists and carries its origin, as
\* provisioned or as pending cleanup. The reservation committed before /register makes this hold
\* across failures and crashes, as long as no revocation overtakes the enrollment.
NoOrphanInstallation ==
  ~LateDelivery => \A d \in Requests, o \in Origins :
    <<d, o>> \in installs /\ d \notin racing =>
      d \in deskProvisioned \cup deskCleanupPending /\ deskOrigin[d] = o

\* The five flags of the rollback audit row are true of the systems they speak about, with one
\* exception: a row that reports a pending Desk cleanup is believed only while the device row is
\* there. It then carries the pending cleanup until a revocation completes, and no pending cleanup
\* means nothing is installed.
RollbackIsTruthful ==
  \A r \in rollbackAudited :
    /\ r \in enrollAudited
    /\ r \in gatewayRevoked => r \notin keys
    /\ ~LateDelivery /\ (r \in deskRevoked \/ r \notin cleanupReported) =>
         \A o \in Origins : <<r, o>> \notin installs
    /\ r \in cleanupReported \ deviceRemoved =>
         r \in deskCleanupPending \cup revocationCompleted \cup racing
    /\ (r \in deviceRemoved) <=> (r \notin devices)
    /\ (r \in codeRestored) <=> (r \notin holds)

\* Local access fails closed: from the intent transaction on, no token of the device is usable,
\* unless the revocation overtook the device's own enrollment.
RevokedIsClosed ==
  \A d \in revocationRequested \ racing : d \in tokens => d \in tokenRevoked

\* A completed revocation left no usable credential behind: tokens revoked, the keys of its token
\* rows deleted and the Desk columns cleared, also when LiteLLM executes an abandoned request
\* later (revokeDevice's completion).
CompletedIsRevoked ==
  \A d \in revocationCompleted \ racing :
    /\ d \in tokens => d \in tokenRevoked /\ d \notin keys
    /\ d \notin deskProvisioned \cup deskCleanupPending

\* A completed revocation left no Desk installation behind, whichever of the enrollment's and the
\* revocation's Desk calls failed half way, unless Desk executes an abandoned registration later
\* (revokeDevice's Desk branch, which reads the columns before the remote calls).
CompletedIsUninstalled ==
  ~LateDelivery => \A d \in revocationCompleted \ racing, o \in Origins : <<d, o>> \notin installs

\* While a device row carries Desk provenance its revocation can be resolved: the binding still
\* names the recorded origin and its credential is readable, or there is no managed row and the
\* legacy mapping names it. Reservations and binding mutations share one lock for this.
ProvenanceFence ==
  \A d \in (deskProvisioned \cup deskCleanupPending) \ racing :
    RevocationTargetResolves(deskOrigin[d])

\* The credential the binding row names is in the secret store, although secrets are written
\* before and removed after the locked transaction.
CredentialIsStored == bindingCredential # None => bindingCredential \in secrets

\* An ACTIVE binding has been probed healthy in exactly its current version: no verification of
\* an older configuration activates a newer one.
ActiveIsVerified == bindingStatus = "ACTIVE" => configVersion \in probed

\* The refinement mapping to EnrollmentContract: claims, unrevoked token rows, success answers.
Contract == INSTANCE EnrollmentContract WITH
  held <- holds,
  usable <- tokens \ tokenRevoked,
  accepted <- {r \in Requests : epc[r] = "enrolled"}

\* Enrollment, its compensation, revocation and crashes together implement the one-time-code
\* contract: at most one request per code is ever given a usable credential, and the code is
\* given back only once that credential is gone.
ImplementsContract == Contract!ContractSpec

\* A revocation that did not overtake an enrollment completes, if the administrator retries and
\* the remote systems fail only finitely often.
RevocationCompletes ==
  \A d \in Requests :
    (d \in revocationRequested \ racing) ~> (d \in revocationCompleted)

-----------------------------------------------------------------------------
(***************************************************************************)
(* What a comment of the code says, and the code does not do.              *)
(***************************************************************************)

\* revokeDevice: once the intent is committed "all subsequently authenticated Control requests now
\* observe revokedAt and fail". Without the exemption of overtaken enrollments.
RevokedStaysClosed == \A d \in revocationRequested : d \in tokens => d \in tokenRevoked
=============================================================================
