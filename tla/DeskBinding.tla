----------------------------- MODULE DeskBinding -----------------------------
(***************************************************************************)
(* TenantServiceBindingsService: the mutations of the organization's       *)
(* DESK_TASKS binding. Each is one administrator call; its transactions    *)
(* hold the advisory lock that reserveDeskProvisioning also takes, but the *)
(* encrypted credential is stored before and removed after that lock.      *)
(***************************************************************************)
EXTENDS ControlState

rowVars == <<bindingStatus, bindingOrigin, bindingCredential, configVersion>>
otherRows == <<usedAt, deviceVars, deskColumns, auditVars>>
otherActors == <<remoteVars, enrollVars, revokeVars, crashes>>

OpGoto(p, step) == bpc' = [bpc EXCEPT ![p] = step] /\ UNCHANGED <<opOrigin, opCredential, opVersion>>

\* The call returns or throws, and its locals are gone.
OpReturn(p) ==
  /\ bpc' = [bpc EXCEPT ![p] = "done"]
  /\ opOrigin' = [opOrigin EXCEPT ![p] = None]
  /\ opCredential' = [opCredential EXCEPT ![p] = None]
  /\ opVersion' = [opVersion EXCEPT ![p] = 0]

\* upsert, first part: store the new credential, if any, under a fresh reference.
UpsertStart(p, o, withCredential) ==
  /\ bpc[p] = "idle"
  /\ bpc' = [bpc EXCEPT ![p] = "upsert"]
  /\ opOrigin' = [opOrigin EXCEPT ![p] = o]
  /\ opCredential' = [opCredential EXCEPT ![p] = IF withCredential THEN p ELSE None]
  /\ secrets' = IF withCredential THEN secrets \cup {p} ELSE secrets
  /\ NoFault
  /\ UNCHANGED <<opVersion, otherRows, rowVars, otherActors, ghostVars>>

\* Mutant: the binding changes under provisioned devices.
UpsertCommitUnfenced(p) ==
  LET new == opCredential[p] IN
  /\ bpc[p] = "upsert"
  /\ bindingStatus' = "PENDING_VERIFICATION"
  /\ bindingOrigin' = opOrigin[p]
  /\ bindingCredential' = IF new # None THEN new ELSE bindingCredential
  /\ configVersion' = configVersion + 1
  /\ IF new # None /\ bindingCredential # None
     THEN /\ bpc' = [bpc EXCEPT ![p] = "retire"]
          /\ opCredential' = [opCredential EXCEPT ![p] = bindingCredential]
          /\ UNCHANGED <<opOrigin, opVersion>>
     ELSE OpReturn(p)
  /\ NoFault
  /\ UNCHANGED <<otherRows, secrets, otherActors, ghostVars>>

\* Mutant: the reference to remove is the new one.
UpsertCommitRetiresNew(p) ==
  LET new == opCredential[p] IN
  /\ bpc[p] = "upsert"
  /\ ~HasProvisionedDeskDevices
  /\ bindingStatus' = "PENDING_VERIFICATION"
  /\ bindingOrigin' = opOrigin[p]
  /\ bindingCredential' = IF new # None THEN new ELSE bindingCredential
  /\ configVersion' = configVersion + 1
  /\ IF new # None /\ bindingCredential # None
     THEN /\ bpc' = [bpc EXCEPT ![p] = "retire"]
          /\ opCredential' = [opCredential EXCEPT ![p] = new]
          /\ UNCHANGED <<opOrigin, opVersion>>
     ELSE OpReturn(p)
  /\ NoFault
  /\ UNCHANGED <<otherRows, secrets, otherActors, ghostVars>>

\* upsert, the locked transaction. Replacing a credential leaves the old reference to remove.
UpsertCommit(p) ==
  LET new == opCredential[p] IN
  /\ bpc[p] = "upsert"
  /\ ~HasProvisionedDeskDevices
  /\ bindingStatus' = "PENDING_VERIFICATION"
  /\ bindingOrigin' = opOrigin[p]
  /\ bindingCredential' = IF new # None THEN new ELSE bindingCredential
  /\ configVersion' = configVersion + 1
  /\ IF new # None /\ bindingCredential # None
     THEN /\ bpc' = [bpc EXCEPT ![p] = "retire"]
          /\ opCredential' = [opCredential EXCEPT ![p] = bindingCredential]
          /\ UNCHANGED <<opOrigin, opVersion>>
     ELSE OpReturn(p)
  /\ NoFault
  /\ UNCHANGED <<otherRows, secrets, otherActors, ghostVars>>

\* Conflict or a failed transaction: the credential stored a moment ago is discarded.
UpsertRejected(p) ==
  /\ bpc[p] = "upsert"
  /\ FailsIf(HasProvisionedDeskDevices)
  /\ IF opCredential[p] # None THEN OpGoto(p, "discard") ELSE OpReturn(p)
  /\ UNCHANGED <<dbVars, otherActors, ghostVars>>

\* secrets.remove of the discarded or the retired reference, after the lock; errors are ignored.
RemoveCredential(p) ==
  /\ bpc[p] \in {"discard", "retire"}
  /\ secrets' = secrets \ {opCredential[p]}
  /\ OpReturn(p)
  /\ NoFault
  /\ UNCHANGED <<otherRows, rowVars, otherActors, ghostVars>>

RemoveCredentialFails(p) ==
  /\ bpc[p] \in {"discard", "retire"}
  /\ OpReturn(p)
  /\ Fault
  /\ UNCHANGED <<dbVars, otherActors, ghostVars>>

\* verify reads the row it is going to probe, outside any lock.
VerifyStart(p) ==
  /\ bpc[p] = "idle"
  /\ bindingStatus # "NONE"
  /\ bpc' = [bpc EXCEPT ![p] = "probe"]
  /\ opVersion' = [opVersion EXCEPT ![p] = configVersion]
  /\ opCredential' = [opCredential EXCEPT ![p] = bindingCredential]
  /\ NoFault
  /\ UNCHANGED <<opOrigin, dbVars, otherActors, ghostVars>>

\* What verifyHealth and verifyJwks conclude of the service's answers: healthy, or unreachable, too
\* large, malformed, of another organization's deployment or with private keys in its key set.
HealthAnswers == BOOLEAN

\* The credential must be readable and the service at the row's origin healthy.
VerifyProbe(p, healthy) ==
  LET ok == healthy /\ opCredential[p] # None /\ opCredential[p] \in secrets IN
  /\ bpc[p] = "probe"
  /\ probed' = IF ok THEN probed \cup {opVersion[p]} ELSE probed
  /\ OpGoto(p, IF ok THEN "commitActive" ELSE "commitDegraded")
  /\ NoFault
  /\ UNCHANGED <<dbVars, otherActors, holds, racing, swallowed>>

\* Mutant: the probed version is not compared with the current one.
VerifyCommitStale(p) ==
  /\ bpc[p] \in {"commitActive", "commitDegraded"}
  /\ bindingStatus' = IF bpc[p] = "commitActive" THEN "ACTIVE" ELSE "DEGRADED"
  /\ OpReturn(p)
  /\ NoFault
  /\ UNCHANGED <<otherRows, bindingOrigin, bindingCredential, configVersion, secrets, otherActors, ghostVars>>

\* commitVerificationResult: under the lock, and only if the probed version is still the current one.
VerifyCommit(p) ==
  /\ bpc[p] \in {"commitActive", "commitDegraded"}
  /\ bindingStatus' = IF configVersion # opVersion[p] THEN bindingStatus
                      ELSE IF bpc[p] = "commitActive" THEN "ACTIVE" ELSE "DEGRADED"
  /\ OpReturn(p)
  /\ NoFault
  /\ UNCHANGED <<otherRows, bindingOrigin, bindingCredential, configVersion, secrets, otherActors, ghostVars>>

VerifyCommitFails(p) ==
  /\ bpc[p] \in {"commitActive", "commitDegraded"}
  /\ OpReturn(p)
  /\ Fault
  /\ UNCHANGED <<dbVars, otherActors, ghostVars>>

\* disable is one locked transaction; NotFound and Conflict leave everything as it was.
Disable(p) ==
  /\ bpc[p] = "idle"
  /\ bindingStatus # "NONE" /\ ~HasProvisionedDeskDevices
  /\ bindingStatus' = "DISABLED"
  /\ configVersion' = configVersion + 1
  /\ OpReturn(p)
  /\ NoFault
  /\ UNCHANGED <<otherRows, bindingOrigin, bindingCredential, secrets, otherActors, ghostVars>>

BindingStep(p) ==
  \/ \E o \in Origins, withCredential \in BOOLEAN : UpsertStart(p, o, withCredential)
  \/ UpsertCommit(p) \/ UpsertRejected(p) \/ RemoveCredential(p) \/ RemoveCredentialFails(p)
  \/ VerifyStart(p) \/ (\E healthy \in HealthAnswers : VerifyProbe(p, healthy))
  \/ VerifyCommit(p) \/ VerifyCommitFails(p)
  \/ Disable(p)
=============================================================================
