---------------------------- MODULE RevokeDevice ----------------------------
(***************************************************************************)
(* AdminService.revokeDevice: a two-phase revocation. A serializable       *)
(* intent transaction closes local access first; the remote revocations    *)
(* follow; a completion transaction ends it. Any failure leaves the device *)
(* pending, and the administrator may call again.                          *)
(***************************************************************************)
EXTENDS EnrollSaga

\* Return or throw: the call is over, and its locals with it.
Return(v) ==
  /\ apc' = [apc EXCEPT ![v] = "idle"]
  /\ aDevice' = [aDevice EXCEPT ![v] = None]
  /\ snapProvisioned' = snapProvisioned \ {v}
  /\ snapPending' = snapPending \ {v}
  /\ snapCompleted' = snapCompleted \ {v}
  /\ snapOrigin' = [snapOrigin EXCEPT ![v] = None]

Continue(v, step) == apc' = [apc EXCEPT ![v] = step] /\ UNCHANGED <<aDevice, snapVars>>

\* Mutant: a registration that was never confirmed counts as no Desk at all.
AfterKeysConfirmedOnly(v) == IF v \in snapProvisioned THEN "resolve" ELSE "complete"

\* The remote keys are gone (or there was no token row); the Desk is next if the row snapshot names one.
AfterKeys(v) == IF v \in snapProvisioned \cup snapPending THEN "resolve" ELSE "complete"

RevokeStart(v, d) ==
  /\ apc[v] = "idle"
  /\ d \in devices
  /\ apc' = [apc EXCEPT ![v] = IF d \in revocationRequested THEN "reread" ELSE "intent"]
  /\ aDevice' = [aDevice EXCEPT ![v] = d]
  /\ NoFault
  /\ UNCHANGED <<dbVars, remoteVars, enrollVars, snapVars, opVars, crashes, ghostVars>>

\* Mark the device and every token row it has NOW, in one transaction. A row that vanished is
\* simply not matched.
RevokeIntent(v) ==
  LET d == aDevice[v] IN
  /\ apc[v] = "intent"
  /\ IF d \in devices
     THEN /\ revocationRequested' = revocationRequested \cup {d}
          /\ racing' = IF d \notin revocationRequested /\ Running(d) THEN racing \cup {d} ELSE racing
     ELSE UNCHANGED <<revocationRequested, racing>>
  /\ tokenRevoked' = tokenRevoked \cup (tokens \cap {d})
  /\ Continue(v, "reread")
  /\ NoFault
  /\ UNCHANGED <<usedAt, devices, tokens, revocationCompleted, deskColumns, bindingVars, auditVars,
                 remoteVars, enrollVars, opVars, crashes, holds, swallowed, probed>>

RevokeIntentFails(v) ==
  /\ apc[v] = "intent"
  /\ Return(v)
  /\ Fault
  /\ UNCHANGED <<dbVars, remoteVars, enrollVars, opVars, crashes, ghostVars>>

\* Everything after this uses the columns read here, not the row.
RevokeReread(v) ==
  LET d == aDevice[v] IN
  /\ apc[v] = "reread"
  /\ IF d \in devices
     THEN /\ apc' = [apc EXCEPT ![v] = "tokens"]
          /\ snapProvisioned' = IF d \in deskProvisioned THEN snapProvisioned \cup {v} ELSE snapProvisioned
          /\ snapPending' = IF d \in deskCleanupPending THEN snapPending \cup {v} ELSE snapPending
          /\ snapCompleted' = IF d \in revocationCompleted THEN snapCompleted \cup {v} ELSE snapCompleted
          /\ snapOrigin' = [snapOrigin EXCEPT ![v] = deskOrigin[d]]
          /\ UNCHANGED aDevice
     ELSE Return(v)
  /\ NoFault
  /\ UNCHANGED <<dbVars, remoteVars, enrollVars, opVars, crashes, ghostVars>>

\* deviceToken.findMany; a completed revocation returns here.
RevokeReadTokens(v) ==
  /\ apc[v] = "tokens"
  /\ IF v \in snapCompleted
     THEN Return(v)
     ELSE Continue(v, IF aDevice[v] \in tokens THEN "key" ELSE AfterKeys(v))
  /\ NoFault
  /\ UNCHANGED <<dbVars, remoteVars, enrollVars, opVars, crashes, ghostVars>>

\* Either read may fail; the call throws.
RevokeReadFails(v) ==
  /\ apc[v] \in {"reread", "tokens"}
  /\ Return(v)
  /\ Fault
  /\ UNCHANGED <<dbVars, remoteVars, enrollVars, opVars, crashes, ghostVars>>

\* gateway.revokeKey: deleting an absent alias succeeds once its absence is confirmed.
RevokeGatewayKey(v) ==
  /\ apc[v] = "key"
  /\ keys' = keys \ {aDevice[v]}
  /\ Continue(v, AfterKeys(v))
  /\ NoFault
  /\ UNCHANGED <<dbVars, deskVars, lateVars, enrollVars, opVars, crashes, ghostVars>>

\* Mutant: a gateway failure does not stop the revocation.
RevokeGatewayKeyFailsIgnored(v) ==
  /\ apc[v] = "key"
  /\ keys' \in {keys, keys \ {aDevice[v]}}
  /\ Continue(v, AfterKeys(v))
  /\ Fault
  /\ UNCHANGED <<dbVars, deskVars, lateVars, enrollVars, opVars, crashes, ghostVars>>

RevokeGatewayKeyFails(v) ==
  /\ apc[v] = "key"
  /\ keys' \in {keys, keys \ {aDevice[v]}}
  /\ Return(v)
  /\ Fault
  /\ UNCHANGED <<dbVars, deskVars, lateVars, enrollVars, opVars, crashes, ghostVars>>

\* deskRevocationResolution: a managed row, whatever its status, must still name the recorded
\* origin and have a readable credential; without a row the legacy mapping must name it.
RevocationTargetResolves(o) ==
  IF bindingStatus = "NONE"
  THEN LegacyOrigin = o
  ELSE bindingOrigin = o /\ bindingCredential # None /\ bindingCredential \in secrets

RevokeResolve(v) ==
  /\ apc[v] = "resolve"
  /\ RevocationTargetResolves(snapOrigin[v])
  /\ Continue(v, "desk")
  /\ NoFault
  /\ UNCHANGED <<dbVars, remoteVars, enrollVars, opVars, crashes, ghostVars>>

RevokeResolveFails(v) ==
  /\ apc[v] = "resolve"
  /\ FailsIf(~RevocationTargetResolves(snapOrigin[v]))
  /\ Return(v)
  /\ UNCHANGED <<dbVars, remoteVars, enrollVars, opVars, crashes, ghostVars>>

\* Mutant: a missing installation is always a failure.
AllowMissingNever(v) == FALSE

\* Only an unfinished registration may be missing at the Desk.
AllowMissing(v) == v \in snapPending /\ v \notin snapProvisioned

RevokeDesk(v) ==
  LET d == aDevice[v]  o == snapOrigin[v] IN
  /\ apc[v] = "desk"
  /\ DeskKnows(d, o) \/ AllowMissing(v)
  /\ DeskRevoke(d, o)
  /\ Continue(v, "complete")
  /\ NoFault
  /\ UNCHANGED <<dbVars, keys, lateVars, enrollVars, opVars, crashes, ghostVars>>

RevokeDeskFails(v) ==
  LET d == aDevice[v]  o == snapOrigin[v] IN
  /\ apc[v] = "desk"
  /\ FailsIf(~DeskKnows(d, o) /\ ~AllowMissing(v))
  /\ DeskRevoke(d, o) \/ UNCHANGED deskVars
  /\ Return(v)
  /\ UNCHANGED <<dbVars, keys, lateVars, enrollVars, opVars, crashes, ghostVars>>

\* The completion transaction clears the Desk columns iff this call revoked the installation.
RevokeComplete(v) ==
  LET d == aDevice[v] IN
  /\ apc[v] = "complete"
  /\ d \in devices
  /\ revocationCompleted' = revocationCompleted \cup {d}
  /\ IF v \in snapProvisioned \cup snapPending
     THEN /\ deskProvisioned' = deskProvisioned \ {d}
          /\ deskCleanupPending' = deskCleanupPending \ {d}
          /\ deskOrigin' = [deskOrigin EXCEPT ![d] = None]
     ELSE UNCHANGED deskColumns
  /\ Return(v)
  /\ NoFault
  /\ UNCHANGED <<usedAt, devices, tokens, tokenRevoked, revocationRequested, bindingVars, auditVars,
                 remoteVars, enrollVars, opVars, crashes, ghostVars>>

\* tx.device.update throws when the row is gone.
RevokeCompleteFails(v) ==
  /\ apc[v] = "complete"
  /\ FailsIf(aDevice[v] \notin devices)
  /\ Return(v)
  /\ UNCHANGED <<dbVars, remoteVars, enrollVars, opVars, crashes, ghostVars>>

\* What an administrator's call does once it has started.
RevokeProceeds(v) ==
  \/ RevokeIntent(v) \/ RevokeIntentFails(v) \/ RevokeReread(v) \/ RevokeReadTokens(v)
  \/ RevokeReadFails(v)
  \/ RevokeGatewayKey(v) \/ RevokeGatewayKeyFails(v)
  \/ RevokeResolve(v) \/ RevokeResolveFails(v) \/ RevokeDesk(v) \/ RevokeDeskFails(v)
  \/ RevokeComplete(v) \/ RevokeCompleteFails(v)
=============================================================================
