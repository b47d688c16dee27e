---------------------------- MODULE ControlState ----------------------------
(***************************************************************************)
(* The state hara-control keeps for ONE organization and shares between    *)
(* device enrollment (EnrollSaga), device revocation (RevokeDevice) and    *)
(* the managed Desk binding (DeskBinding): its database rows, the two      *)
(* remote systems it drives (the LiteLLM gateway and the Desk service),    *)
(* and the local state of the requests that are in flight.                 *)
(*                                                                         *)
(* Organizations share no row, lock or audit chain, so one is enough.      *)
(*                                                                         *)
(* A device row, its single DeviceToken row, its gateway key alias and its *)
(* Desk installation all carry the id that device.create drew for one      *)
(* enrollment request; that id is the request itself.                      *)
(***************************************************************************)
EXTENDS Naturals, FiniteSets

CONSTANTS
  Requests,      \* POST /v1/enroll requests; also the ids of the devices they create
  Codes,         \* one-time enrollment codes
  CodeOf,        \* the code a request presents
  Stamp,         \* the millisecond a request captures as `now`; requests may share it
  Admins,        \* concurrent administrator calls of revokeDevice
  BindingOps,    \* administrator calls on the DESK_TASKS binding; also their credential refs
  Origins,       \* Desk API origins
  LegacyOrigin,  \* HARA_DESK_PROVISIONING_JSON's origin for this organization, or None
  None,          \* the null of a nullable column
  SeatLimit,     \* licensed device seats, 0 = unlimited
  MaxFaults,     \* how many calls to the database or to a remote system may fail
  MaxCrashes,    \* how many times the control process may die
  LateDelivery   \* may a remote system execute a request after its caller gave up?

ASSUME RequestsFinite == IsFiniteSet(Requests)
ASSUME CodeOfType == CodeOf \in [Requests -> Codes]
ASSUME StampType == Stamp \in [Requests -> Nat \ {0}]
ASSUME NoneIsFresh == None \notin Origins /\ None \notin BindingOps /\ None \notin Requests
ASSUME LegacyOriginType == LegacyOrigin \in Origins \cup {None}
ASSUME BoundsType == SeatLimit \in Nat /\ MaxFaults \in Nat /\ MaxCrashes \in Nat
ASSUME LateDeliveryType == LateDelivery \in BOOLEAN

VARIABLES
  \* EnrollCode rows
  usedAt,                \* usedAt[c]: the claim stamp, 0 for NULL
  \* Device rows and their DeviceToken row, each nullable column a set of ids
  devices, tokens, tokenRevoked,
  revocationRequested, revocationCompleted,
  deskProvisioned, deskCleanupPending, deskOrigin,
  \* the TenantServiceBinding row for DESK_TASKS and the Secret rows it may name
  bindingStatus, bindingOrigin, bindingCredential, configVersion, secrets,
  \* AuditLog rows of enrollments
  enrollAudited, rollbackAudited,
  \* the gateway's live key aliases; the Desk's live and revoked installations
  keys, installs, retired,
  lateKeys, lateRegisters,   \* abandoned requests that may still execute
  \* locals of EnrollService.enroll
  epc, target, credentialRef,
  gatewayRevoked, deskRevoked, cleanupReported, deviceRemoved, codeRestored,
  \* locals of AdminService.revokeDevice
  apc, aDevice, snapProvisioned, snapPending, snapCompleted, snapOrigin,
  \* locals of the TenantServiceBindingsService mutations
  bpc, opOrigin, opCredential, opVersion,
  \* the environment's budget
  faults, crashes,
  \* history: the request holding each claim, the devices revoked while still enrolling,
  \* the requests whose uncertain key could not be cleaned up, the versions probed healthy
  holds, racing, swallowed, probed

deviceVars == <<devices, tokens, tokenRevoked, revocationRequested, revocationCompleted>>
deskColumns == <<deskProvisioned, deskCleanupPending, deskOrigin>>
bindingVars == <<bindingStatus, bindingOrigin, bindingCredential, configVersion, secrets>>
auditVars == <<enrollAudited, rollbackAudited>>
deskVars == <<installs, retired>>
lateVars == <<lateKeys, lateRegisters>>
undoVars == <<gatewayRevoked, deskRevoked, cleanupReported, deviceRemoved, codeRestored>>
enrollVars == <<epc, target, credentialRef, undoVars>>
snapVars == <<snapProvisioned, snapPending, snapCompleted, snapOrigin>>
revokeVars == <<apc, aDevice, snapVars>>
opVars == <<bpc, opOrigin, opCredential, opVersion>>
ghostVars == <<holds, racing, swallowed, probed>>

dbVars == <<usedAt, deviceVars, deskColumns, bindingVars, auditVars>>
remoteVars == <<keys, deskVars, lateVars>>
localVars == <<target, credentialRef>>      \* what the try block of enroll has captured
flagVars == <<deviceRemoved, codeRestored>>
otherCalls == <<revokeVars, opVars, crashes>>

vars == <<usedAt, deviceVars, deskColumns, bindingVars, auditVars, keys, deskVars, lateVars,
          enrollVars, revokeVars, opVars, faults, crashes, ghostVars>>

-----------------------------------------------------------------------------
\* Where an enrollment can stand. The undo steps are enroll's catch block.
ForwardSteps == {"seat", "claim", "create", "issue", "cleanKey", "token", "audit",
                 "reserve", "secret", "unreserve", "register", "cleanDesk", "finalize"}
UndoSteps == {"undoDesk", "undoKey", "undoDevice", "undoCode", "undoAudit"}
Answered == {"enrolled", "failed", "rejected", "crashed"}
EnrollSteps == {"idle"} \cup ForwardSteps \cup UndoSteps \cup Answered
RevokeSteps == {"idle", "intent", "reread", "tokens", "key", "resolve", "desk", "complete"}
OpSteps == {"idle", "upsert", "discard", "retire", "probe", "commitActive", "commitDegraded", "done"}
Statuses == {"NONE", "PENDING_VERIFICATION", "ACTIVE", "DEGRADED", "DISABLED"}

Running(r) == epc[r] \in ForwardSteps \cup UndoSteps

\* hasProvisionedDeskDevices: some device row carries Desk provenance.
HasProvisionedDeskDevices == deskProvisioned \cup deskCleanupPending # {}

\* One more call to the database or a remote system fails.
Fault == faults < MaxFaults /\ faults' = faults + 1
NoFault == UNCHANGED faults

\* A call that fails by itself in a state where `refused` holds, and otherwise only by a fault.
FailsIf(refused) == /\ refused \/ faults < MaxFaults
                    /\ faults' = IF refused THEN faults ELSE faults + 1

\* No managed binding, and no call about it.
Unbound ==
  /\ bindingStatus = "NONE" /\ bindingOrigin = None /\ bindingCredential = None
  /\ configVersion = 0 /\ secrets = {} /\ probed = {}
  /\ bpc = [p \in BindingOps |-> "idle"] /\ opCredential = [p \in BindingOps |-> None]
  /\ opVersion = [p \in BindingOps |-> 0]

\* Nobody enrolled, nobody called.
Unenrolled ==
  /\ usedAt = [c \in Codes |-> 0]
  /\ devices = {} /\ tokens = {} /\ tokenRevoked = {}
  /\ revocationRequested = {} /\ revocationCompleted = {}
  /\ deskProvisioned = {} /\ deskCleanupPending = {}
  /\ deskOrigin = [r \in Requests |-> None]
  /\ enrollAudited = {} /\ rollbackAudited = {}
  /\ keys = {} /\ installs = {} /\ retired = {} /\ lateKeys = {} /\ lateRegisters = {}
  /\ epc = [r \in Requests |-> "idle"]
  /\ target = [r \in Requests |-> None] /\ credentialRef = [r \in Requests |-> None]
  /\ gatewayRevoked = {} /\ deskRevoked = {} /\ cleanupReported = {}
  /\ deviceRemoved = {} /\ codeRestored = {}
  /\ apc = [v \in Admins |-> "idle"] /\ aDevice = [v \in Admins |-> None]
  /\ snapProvisioned = {} /\ snapPending = {} /\ snapCompleted = {}
  /\ snapOrigin = [v \in Admins |-> None]
  /\ opOrigin = [p \in BindingOps |-> None]
  /\ faults = 0 /\ crashes = 0
  /\ holds = {} /\ racing = {} /\ swallowed = {}

ControlInit == Unenrolled /\ Unbound
=============================================================================
