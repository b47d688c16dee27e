----------------------------- MODULE EnrollSaga -----------------------------
(***************************************************************************)
(* EnrollService.enroll: exchange a one-time code for a device row, a      *)
(* gateway key, a DeviceToken row and, when the organization has a Desk,   *)
(* a Desk installation. Database and remote calls cannot share a           *)
(* transaction, so every step is an action of its own and the catch block  *)
(* compensates the boundaries already crossed.                             *)
(*                                                                         *)
(* The process always injects DeskProvisioner and the bindings service, so *)
(* enrollment always takes the reservation path of provisionForEnrollment. *)
(***************************************************************************)
EXTENDS ControlState

Goto(r, step) == epc' = [epc EXCEPT ![r] = step]

\* Leave the try block: what the catch block's initializers conclude, and its first block to run.
\* cleanupReported is the flag deskCleanupPending of the audit row: deskCleanupPrepared holds at
\* every step that can fail with a Desk left over, and no later block resets the flag.
Throw(r, noKey, noDesk, step) ==
  /\ gatewayRevoked' = IF noKey THEN gatewayRevoked \cup {r} ELSE gatewayRevoked
  /\ deskRevoked' = IF noDesk THEN deskRevoked \cup {r} ELSE deskRevoked
  /\ cleanupReported' = IF noDesk THEN cleanupReported ELSE cleanupReported \cup {r}
  /\ Goto(r, step)

\* enrollmentAuditRecorded decides whether the rollback is audited before the rethrow.
AfterUndo(r) == IF r \in enrollAudited THEN "undoAudit" ELSE "failed"

-----------------------------------------------------------------------------
\* Everything before the claim.

\* The code row is read once and compared with `now`; expiresAt may have passed by then.
ReadCode(r, unexpired) ==
  /\ epc[r] = "idle"
  /\ Goto(r, IF usedAt[CodeOf[r]] = 0 /\ unexpired THEN "seat" ELSE "rejected")
  /\ NoFault
  /\ UNCHANGED <<dbVars, remoteVars, localVars, undoVars, otherCalls, ghostVars>>

\* EntitlementService.seatCheck counts every device row; the organization, the person or the
\* stored policy may also refuse the request here.
SeatsLeft == SeatLimit = 0 \/ Cardinality(devices) < SeatLimit
SeatCheck(r, resolvable) ==
  /\ epc[r] = "seat"
  /\ Goto(r, IF resolvable /\ SeatsLeft THEN "claim" ELSE "rejected")
  /\ NoFault
  /\ UNCHANGED <<dbVars, remoteVars, localVars, undoVars, otherCalls, ghostVars>>

\* Mutant: the claim is a plain update after the read.
ClaimCodeUnguarded(r) ==
  /\ epc[r] = "claim"
  /\ usedAt' = [usedAt EXCEPT ![CodeOf[r]] = Stamp[r]]
  /\ holds' = holds \cup {r}
  /\ Goto(r, "create")
  /\ NoFault
  /\ UNCHANGED <<deviceVars, deskColumns, bindingVars, auditVars, remoteVars, localVars,
                 undoVars, otherCalls, racing, swallowed, probed>>

\* enrollCode.updateMany where usedAt is null: the compare-and-set that decides the winner.
\* expiresAt is compared with the same `now` the first read used, so it cannot differ here.
ClaimCode(r) ==
  /\ epc[r] = "claim"
  /\ IF usedAt[CodeOf[r]] = 0
     THEN /\ usedAt' = [usedAt EXCEPT ![CodeOf[r]] = Stamp[r]]
          /\ holds' = holds \cup {r}
          /\ Goto(r, "create")
     ELSE Goto(r, "rejected") /\ UNCHANGED <<usedAt, holds>>
  /\ NoFault
  /\ UNCHANGED <<deviceVars, deskColumns, bindingVars, auditVars, remoteVars, localVars,
                 undoVars, otherCalls, racing, swallowed, probed>>

ClaimCodeFails(r) ==
  /\ epc[r] = "claim"
  /\ Goto(r, "rejected")
  /\ Fault
  /\ UNCHANGED <<dbVars, remoteVars, localVars, undoVars, otherCalls, ghostVars>>

-----------------------------------------------------------------------------
\* The try block.

\* Device.enrollCodeId is unique: a second row for the same code violates the constraint.
CodeHasDevice(r) == \E d \in devices : CodeOf[d] = CodeOf[r]

CreateDevice(r) ==
  /\ epc[r] = "create"
  /\ ~CodeHasDevice(r)
  /\ devices' = devices \cup {r}
  /\ Goto(r, "issue")
  /\ NoFault
  /\ UNCHANGED <<usedAt, tokens, tokenRevoked, revocationRequested, revocationCompleted,
                 deskColumns, bindingVars, auditVars, remoteVars, localVars, undoVars,
                 otherCalls, ghostVars>>

\* dev is still null, so the catch block has only the code to give back.
CreateDeviceFails(r) ==
  /\ epc[r] = "create"
  /\ FailsIf(CodeHasDevice(r))
  /\ deviceRemoved' = deviceRemoved \cup {r}
  /\ Throw(r, TRUE, TRUE, "undoCode")
  /\ UNCHANGED <<dbVars, remoteVars, localVars, codeRestored, otherCalls, ghostVars>>

\* LiteLLMAdapter.issueKey, the alias being the device id.
IssueKey(r) ==
  /\ epc[r] = "issue"
  /\ keys' = keys \cup {r}
  /\ Goto(r, "token")
  /\ NoFault
  /\ UNCHANGED <<dbVars, deskVars, lateVars, localVars, undoVars, otherCalls, ghostVars>>

\* Pricing is unavailable: refused before /key/generate is sent.
IssueKeyRefused(r) ==
  /\ epc[r] = "issue"
  /\ Throw(r, TRUE, TRUE, "undoDevice")
  /\ Fault
  /\ UNCHANGED <<dbVars, remoteVars, localVars, flagVars, otherCalls, ghostVars>>

\* Mutant: an unusable answer is taken for an issued key.
IssueKeyUncertainTrusted(r) ==
  /\ epc[r] = "issue"
  /\ \/ UNCHANGED <<keys, lateKeys>>
     \/ keys' = keys \cup {r} /\ UNCHANGED lateKeys
     \/ LateDelivery /\ lateKeys' = lateKeys \cup {r} /\ UNCHANGED keys
  /\ Goto(r, "token")
  /\ Fault
  /\ UNCHANGED <<dbVars, deskVars, lateRegisters, localVars, undoVars, otherCalls, ghostVars>>

\* /key/generate times out or answers something unusable. LiteLLM may have created the key,
\* may not have, or may still do it after the caller has given up.
IssueKeyUncertain(r) ==
  /\ epc[r] = "issue"
  /\ \/ UNCHANGED <<keys, lateKeys>>
     \/ keys' = keys \cup {r} /\ UNCHANGED lateKeys
     \/ LateDelivery /\ lateKeys' = lateKeys \cup {r} /\ UNCHANGED keys
  /\ Goto(r, "cleanKey")
  /\ Fault
  /\ UNCHANGED <<dbVars, deskVars, lateRegisters, localVars, undoVars, otherCalls, ghostVars>>

\* The adapter deletes the uncertain alias. Its own failure is only logged: issueKey throws the
\* original error either way, and enroll sees issued = null.
CleanUncertainKey(r) ==
  /\ epc[r] = "cleanKey"
  /\ keys' = keys \ {r}
  /\ Throw(r, TRUE, TRUE, "undoDevice")
  /\ NoFault
  /\ UNCHANGED <<dbVars, deskVars, lateVars, localVars, flagVars, otherCalls, ghostVars>>

CleanUncertainKeyFails(r) ==
  /\ epc[r] = "cleanKey"
  /\ keys' \in {keys, keys \ {r}}
  /\ swallowed' = swallowed \cup {r}
  /\ Throw(r, TRUE, TRUE, "undoDevice")
  /\ Fault
  /\ UNCHANGED <<dbVars, deskVars, lateVars, localVars, flagVars, otherCalls, holds, racing,
                 probed>>

\* deviceToken.create. It looks at no column of the device row.
CreateToken(r) ==
  /\ epc[r] = "token"
  /\ tokens' = tokens \cup {r}
  /\ Goto(r, "audit")
  /\ NoFault
  /\ UNCHANGED <<usedAt, devices, tokenRevoked, revocationRequested, revocationCompleted,
                 deskColumns, bindingVars, auditVars, remoteVars, localVars, undoVars,
                 otherCalls, ghostVars>>

\* Mutant: the catch block overlooks the key already issued.
CreateTokenFailsForgetsKey(r) ==
  /\ epc[r] = "token"
  /\ Throw(r, TRUE, TRUE, "undoDevice")
  /\ Fault
  /\ UNCHANGED <<dbVars, remoteVars, localVars, flagVars, otherCalls, ghostVars>>

CreateTokenFails(r) ==
  /\ epc[r] = "token"
  /\ Throw(r, FALSE, TRUE, "undoKey")
  /\ Fault
  /\ UNCHANGED <<dbVars, remoteVars, localVars, flagVars, otherCalls, ghostVars>>

\* audit.log("enroll").
AuditEnroll(r) ==
  /\ epc[r] = "audit"
  /\ enrollAudited' = enrollAudited \cup {r}
  /\ Goto(r, "reserve")
  /\ NoFault
  /\ UNCHANGED <<usedAt, deviceVars, deskColumns, bindingVars, rollbackAudited, remoteVars,
                 localVars, undoVars, otherCalls, ghostVars>>

AuditEnrollFails(r) ==
  /\ epc[r] = "audit"
  /\ Throw(r, FALSE, TRUE, "undoKey")
  /\ Fault
  /\ UNCHANGED <<dbVars, remoteVars, localVars, flagVars, otherCalls, ghostVars>>

-----------------------------------------------------------------------------
\* The Desk part of the try block.

\* What reserveDeskProvisioning finds under the binding lock: the origin to register at, or None.
\* Any managed row shadows the legacy environment mapping, whatever its status.
ReservedOrigin ==
  IF bindingStatus = "NONE" THEN LegacyOrigin
  ELSE IF bindingStatus = "ACTIVE" THEN bindingOrigin ELSE None

\* No Desk for this organization: enrollment is complete.
ReserveNothing(r) ==
  /\ epc[r] = "reserve"
  /\ ReservedOrigin = None
  /\ Goto(r, "enrolled")
  /\ NoFault
  /\ UNCHANGED <<dbVars, remoteVars, localVars, undoVars, otherCalls, ghostVars>>

\* Mutant: the Desk is called before its provenance is committed.
ReserveUnrecorded(r) ==
  /\ epc[r] = "reserve"
  /\ ReservedOrigin # None
  /\ bindingStatus = "ACTIVE" => bindingCredential # None
  /\ UNCHANGED deskColumns
  /\ target' = [target EXCEPT ![r] = ReservedOrigin]
  /\ credentialRef' = [credentialRef EXCEPT ![r] = bindingCredential]
  /\ Goto(r, IF bindingStatus = "NONE" THEN "register" ELSE "secret")
  /\ NoFault
  /\ UNCHANGED <<usedAt, deviceVars, bindingVars, auditVars, remoteVars, undoVars, otherCalls,
                 ghostVars>>

\* Commit the cleanup provenance before the first remote byte. A managed credential is decrypted
\* after the lock is released; a legacy one comes from the environment.
Reserve(r) ==
  /\ epc[r] = "reserve"
  /\ ReservedOrigin # None
  /\ bindingStatus = "ACTIVE" => bindingCredential # None
  /\ deskProvisioned' = deskProvisioned \ {r}
  /\ deskCleanupPending' = deskCleanupPending \cup {r}
  /\ deskOrigin' = [deskOrigin EXCEPT ![r] = ReservedOrigin]
  /\ target' = [target EXCEPT ![r] = ReservedOrigin]
  /\ credentialRef' = [credentialRef EXCEPT ![r] = bindingCredential]
  /\ Goto(r, IF bindingStatus = "NONE" THEN "register" ELSE "secret")
  /\ NoFault
  /\ UNCHANGED <<usedAt, deviceVars, bindingVars, auditVars, remoteVars, undoVars, otherCalls,
                 ghostVars>>

ReserveFails(r) ==
  /\ epc[r] = "reserve"
  /\ FailsIf(bindingStatus = "ACTIVE" /\ bindingCredential = None)
  /\ Throw(r, FALSE, TRUE, "undoKey")
  /\ UNCHANGED <<dbVars, remoteVars, localVars, flagVars, otherCalls, ghostVars>>

\* secrets.get(credentialRef).
ReadEnrollKey(r) ==
  /\ epc[r] = "secret"
  /\ credentialRef[r] \in secrets
  /\ Goto(r, "register")
  /\ NoFault
  /\ UNCHANGED <<dbVars, remoteVars, localVars, undoVars, otherCalls, ghostVars>>

ReadEnrollKeyFails(r) ==
  /\ epc[r] = "secret"
  /\ FailsIf(credentialRef[r] \notin secrets)
  /\ Goto(r, "unreserve")
  /\ UNCHANGED <<dbVars, remoteVars, localVars, undoVars, otherCalls, ghostVars>>

\* clearDeskProvisioningReservation, whose failure is ignored.
Unreserve(r) ==
  /\ epc[r] = "unreserve"
  /\ IF r \in deskCleanupPending \ deskProvisioned /\ deskOrigin[r] = target[r]
     THEN /\ deskCleanupPending' = deskCleanupPending \ {r}
          /\ deskOrigin' = [deskOrigin EXCEPT ![r] = None]
     ELSE UNCHANGED <<deskCleanupPending, deskOrigin>>
  /\ Throw(r, FALSE, TRUE, "undoKey")
  /\ NoFault
  /\ UNCHANGED <<usedAt, deviceVars, deskProvisioned, bindingVars, auditVars, remoteVars,
                 localVars, flagVars, otherCalls, ghostVars>>

UnreserveFails(r) ==
  /\ epc[r] = "unreserve"
  /\ Throw(r, FALSE, TRUE, "undoKey")
  /\ Fault
  /\ UNCHANGED <<dbVars, remoteVars, localVars, flagVars, otherCalls, ghostVars>>

\* POST /register at the captured origin.
Register(r) ==
  /\ epc[r] = "register"
  /\ installs' = installs \cup {<<r, target[r]>>}
  /\ Goto(r, "finalize")
  /\ NoFault
  /\ UNCHANGED <<dbVars, keys, retired, lateVars, localVars, undoVars, otherCalls, ghostVars>>

RegisterUncertain(r) ==
  /\ epc[r] = "register"
  /\ \/ UNCHANGED <<installs, lateRegisters>>
     \/ installs' = installs \cup {<<r, target[r]>>} /\ UNCHANGED lateRegisters
     \/ LateDelivery /\ lateRegisters' = lateRegisters \cup {r} /\ UNCHANGED installs
  /\ Goto(r, "cleanDesk")
  /\ Fault
  /\ UNCHANGED <<dbVars, keys, retired, lateKeys, localVars, undoVars, otherCalls, ghostVars>>

\* What Desk does when it executes an installation revocation: a live installation is retired,
\* a retired or unknown one is left alone.
DeskRevoke(d, o) ==
  /\ installs' = installs \ {<<d, o>>}
  /\ retired' = IF <<d, o>> \in installs THEN retired \cup {<<d, o>>} ELSE retired
DeskKnows(d, o) == <<d, o>> \in installs \cup retired

\* The compensation inside provisionForEnrollment (allowMissing), confirmed or not.
CleanDesk(r) ==
  /\ epc[r] = "cleanDesk"
  /\ DeskRevoke(r, target[r])
  /\ Throw(r, FALSE, TRUE, "undoKey")
  /\ NoFault
  /\ UNCHANGED <<dbVars, keys, lateVars, localVars, flagVars, otherCalls, ghostVars>>

\* Mutant: an unconfirmed compensation counts as confirmed.
CleanDeskFailsAssumed(r) ==
  /\ epc[r] = "cleanDesk"
  /\ DeskRevoke(r, target[r]) \/ UNCHANGED deskVars
  /\ Throw(r, FALSE, TRUE, "undoKey")
  /\ Fault
  /\ UNCHANGED <<dbVars, keys, lateVars, localVars, flagVars, otherCalls, ghostVars>>

CleanDeskFails(r) ==
  /\ epc[r] = "cleanDesk"
  /\ DeskRevoke(r, target[r]) \/ UNCHANGED deskVars
  /\ Throw(r, FALSE, FALSE, "undoKey")
  /\ Fault
  /\ UNCHANGED <<dbVars, keys, lateVars, localVars, flagVars, otherCalls, ghostVars>>

\* device.update turns the reservation into deskProvisionedAt. It looks at no column of the row.
Finalize(r) ==
  /\ epc[r] = "finalize"
  /\ deskProvisioned' = deskProvisioned \cup {r}
  /\ deskCleanupPending' = deskCleanupPending \ {r}
  /\ deskOrigin' = [deskOrigin EXCEPT ![r] = target[r]]
  /\ Goto(r, "enrolled")
  /\ NoFault
  /\ UNCHANGED <<usedAt, deviceVars, bindingVars, auditVars, remoteVars, localVars, undoVars,
                 otherCalls, ghostVars>>

FinalizeFails(r) ==
  /\ epc[r] = "finalize"
  /\ Throw(r, FALSE, FALSE, "undoDesk")
  /\ Fault
  /\ UNCHANGED <<dbVars, remoteVars, localVars, flagVars, otherCalls, ghostVars>>

-----------------------------------------------------------------------------
\* The catch block, one action per guarded block. Only a finalize failure still holds a receipt,
\* and only a failure after issueKey still holds an issued key, so Throw enters at the first
\* block whose guard holds.

\* deskReceipt.compensate() against the captured origin; a missing installation is a failure here.
UndoDesk(r) ==
  /\ epc[r] = "undoDesk"
  /\ DeskKnows(r, target[r])
  /\ DeskRevoke(r, target[r])
  /\ deskRevoked' = deskRevoked \cup {r}
  /\ Goto(r, "undoKey")
  /\ NoFault
  /\ UNCHANGED <<dbVars, keys, lateVars, localVars, gatewayRevoked, cleanupReported,
                 flagVars, otherCalls, ghostVars>>

UndoDeskFails(r) ==
  /\ epc[r] = "undoDesk"
  /\ FailsIf(~DeskKnows(r, target[r]))
  /\ DeskRevoke(r, target[r]) \/ UNCHANGED deskVars
  /\ Goto(r, "undoKey")
  /\ UNCHANGED <<dbVars, keys, lateVars, localVars, undoVars, otherCalls, ghostVars>>

\* gateway.revokeKey(issued.keyId); the device row is kept unless both remotes are clean.
UndoKey(r) ==
  /\ epc[r] = "undoKey"
  /\ keys' = keys \ {r}
  /\ gatewayRevoked' = gatewayRevoked \cup {r}
  /\ Goto(r, IF r \in deskRevoked THEN "undoDevice" ELSE AfterUndo(r))
  /\ NoFault
  /\ UNCHANGED <<dbVars, deskVars, lateVars, localVars, deskRevoked, cleanupReported,
                 flagVars, otherCalls, ghostVars>>

\* Mutant: the gateway flag is set although the call failed.
UndoKeyFailsAssumed(r) ==
  /\ epc[r] = "undoKey"
  /\ keys' \in {keys, keys \ {r}}
  /\ gatewayRevoked' = gatewayRevoked \cup {r}
  /\ Goto(r, AfterUndo(r))
  /\ Fault
  /\ UNCHANGED <<dbVars, deskVars, lateVars, localVars, deskRevoked, cleanupReported,
                 flagVars, otherCalls, ghostVars>>

UndoKeyFails(r) ==
  /\ epc[r] = "undoKey"
  /\ keys' \in {keys, keys \ {r}}
  /\ Goto(r, AfterUndo(r))
  /\ Fault
  /\ UNCHANGED <<dbVars, deskVars, lateVars, localVars, undoVars, otherCalls, ghostVars>>

\* device.delete cascades to the token row and frees every column of the device row.
UndoDevice(r) ==
  /\ epc[r] = "undoDevice"
  /\ devices' = devices \ {r}
  /\ tokens' = tokens \ {r}
  /\ tokenRevoked' = tokenRevoked \ {r}
  /\ revocationRequested' = revocationRequested \ {r}
  /\ revocationCompleted' = revocationCompleted \ {r}
  /\ deskProvisioned' = deskProvisioned \ {r}
  /\ deskCleanupPending' = deskCleanupPending \ {r}
  /\ deskOrigin' = [deskOrigin EXCEPT ![r] = None]
  /\ deviceRemoved' = deviceRemoved \cup {r}
  /\ Goto(r, "undoCode")
  /\ NoFault
  /\ UNCHANGED <<usedAt, bindingVars, auditVars, remoteVars, localVars, gatewayRevoked, deskRevoked,
                 cleanupReported, codeRestored, otherCalls, ghostVars>>

\* Mutant: the code is given back although the row is still there.
UndoDeviceFailsRestores(r) ==
  /\ epc[r] = "undoDevice"
  /\ Goto(r, "undoCode")
  /\ Fault
  /\ UNCHANGED <<dbVars, remoteVars, localVars, undoVars, otherCalls, ghostVars>>

UndoDeviceFails(r) ==
  /\ epc[r] = "undoDevice"
  /\ Goto(r, AfterUndo(r))
  /\ Fault
  /\ UNCHANGED <<dbVars, remoteVars, localVars, undoVars, otherCalls, ghostVars>>

\* Give the code back, but only if it still carries this request's claim stamp.
UndoCode(r) ==
  /\ epc[r] = "undoCode"
  /\ IF usedAt[CodeOf[r]] = Stamp[r]
     THEN /\ usedAt' = [usedAt EXCEPT ![CodeOf[r]] = 0]
          /\ codeRestored' = codeRestored \cup {r}
          /\ holds' = holds \ {r}
     ELSE UNCHANGED <<usedAt, codeRestored, holds>>
  /\ Goto(r, AfterUndo(r))
  /\ NoFault
  /\ UNCHANGED <<deviceVars, deskColumns, bindingVars, auditVars, remoteVars, localVars,
                 gatewayRevoked, deskRevoked, cleanupReported, deviceRemoved,
                 otherCalls, racing, swallowed, probed>>

UndoCodeFails(r) ==
  /\ epc[r] = "undoCode"
  /\ Goto(r, AfterUndo(r))
  /\ Fault
  /\ UNCHANGED <<dbVars, remoteVars, localVars, undoVars, otherCalls, ghostVars>>

\* audit.log("enroll.rollback") with the five flags of this catch block, which nothing changes
\* afterwards: gatewayRevoked, deskRevoked, cleanupReported, deviceRemoved, codeRestored.
UndoAudit(r) ==
  /\ epc[r] = "undoAudit"
  /\ rollbackAudited' = rollbackAudited \cup {r}
  /\ Goto(r, "failed")
  /\ NoFault
  /\ UNCHANGED <<usedAt, deviceVars, deskColumns, bindingVars, enrollAudited, remoteVars, localVars,
                 undoVars, otherCalls, ghostVars>>

UndoAuditFails(r) ==
  /\ epc[r] = "undoAudit"
  /\ Goto(r, "failed")
  /\ Fault
  /\ UNCHANGED <<dbVars, remoteVars, localVars, undoVars, otherCalls, ghostVars>>

-----------------------------------------------------------------------------
EnrollStep(r) ==
  \/ \E unexpired \in BOOLEAN : ReadCode(r, unexpired)
  \/ \E resolvable \in BOOLEAN : SeatCheck(r, resolvable)
  \/ ClaimCode(r) \/ ClaimCodeFails(r)
  \/ CreateDevice(r) \/ CreateDeviceFails(r)
  \/ IssueKey(r) \/ IssueKeyRefused(r) \/ IssueKeyUncertain(r)
  \/ CleanUncertainKey(r) \/ CleanUncertainKeyFails(r)
  \/ CreateToken(r) \/ CreateTokenFails(r)
  \/ AuditEnroll(r) \/ AuditEnrollFails(r)
  \/ ReserveNothing(r) \/ Reserve(r) \/ ReserveFails(r)
  \/ ReadEnrollKey(r) \/ ReadEnrollKeyFails(r) \/ Unreserve(r) \/ UnreserveFails(r)
  \/ Register(r) \/ RegisterUncertain(r) \/ CleanDesk(r) \/ CleanDeskFails(r)
  \/ Finalize(r) \/ FinalizeFails(r)
  \/ UndoDesk(r) \/ UndoDeskFails(r) \/ UndoKey(r) \/ UndoKeyFails(r)
  \/ UndoDevice(r) \/ UndoDeviceFails(r) \/ UndoCode(r) \/ UndoCodeFails(r)
  \/ UndoAudit(r) \/ UndoAuditFails(r)
=============================================================================
