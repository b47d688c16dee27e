------------------------- MODULE ControlInvariants --------------------------
(***************************************************************************)
(* The inductive invariants behind ControlPlane's safety properties: what  *)
(* a request or an administrator call that stands at a given step may rely *)
(* on. ClaimInv rests on TypeInv alone; RevokeInv and DeskInv use it.      *)
(***************************************************************************)
EXTENDS ControlPlane

\* Steps before the request has a device row, and steps at which it surely has one.
BeforeRow == {"idle", "seat", "claim", "create", "rejected"}
RowSteps == {"issue", "cleanKey", "token", "audit", "reserve", "secret", "unreserve", "register",
             "cleanDesk", "finalize", "undoDesk", "undoKey", "undoDevice", "enrolled"}
\* Steps at which the code is surely claimed, and at which the Desk origin has been captured.
HeldSteps == {"create", "undoCode"} \cup RowSteps
TargetSteps == {"secret", "unreserve", "register", "cleanDesk", "finalize", "undoDesk"}
\* Steps before a registration has been sent.
BeforeRegister == BeforeRow \cup {"issue", "cleanKey", "token", "audit", "reserve", "secret",
                                  "unreserve", "register"}
\* Steps of a revocation after its intent is committed, and after it has read the row.
AfterIntent == {"reread", "tokens", "key", "resolve", "desk", "complete"}
AfterRead == {"tokens", "key", "resolve", "desk", "complete"}

\* Steps after the key was issued and after the token row was created, and steps at which Desk
\* provenance is not on record: not yet, or no longer pending.
KeySteps == {"token", "audit", "reserve", "secret", "unreserve", "register", "cleanDesk", "finalize",
             "undoDesk", "enrolled"}
TokenSteps == KeySteps \ {"token"}
NotPending == BeforeRow \cup {"issue", "cleanKey", "token", "audit", "reserve", "enrolled"}

StepOK ==
  \A r \in Requests :
    /\ r \in devices => epc[r] \notin BeforeRow
    /\ epc[r] \in RowSteps => r \in devices
    /\ epc[r] = "undoCode" => r \notin devices
    /\ epc[r] \in TargetSteps => target[r] \in Origins
    /\ r \in lateRegisters => target[r] \in Origins

TypeInv == TypeOK /\ StepOK

\* Who stands between the claim and the end of the saga holds the code.
ClaimInv ==
  /\ ClaimExclusive
  /\ \A r \in Requests : epc[r] \in HeldSteps => r \in holds

\* A key exists only for a request that has reached issueKey, and is gone when the row goes.
KeyInv ==
  ~LateDelivery =>
    /\ lateKeys = {}
    /\ keys \subseteq devices \cup swallowed
    /\ \A r \in Requests : epc[r] \in BeforeRow \cup {"issue"} => r \notin keys
    /\ \A r \in Requests : epc[r] = "undoDevice" => r \notin keys \/ r \in swallowed

\* Outside the racing set a revocation meets a finished enrollment, and what it has read and
\* revoked so far stays that way.
RevokeInv ==
  /\ \A d \in revocationRequested : Running(d) => d \in racing
  /\ \A d \in Requests :
       epc[d] \in BeforeRow \cup {"issue", "cleanKey", "token"} => d \notin tokens
  /\ \A d \in lateKeys :
       d \notin tokens /\ epc[d] \notin BeforeRow \cup {"issue", "token"}
  /\ \A v \in Admins :
       /\ apc[v] # "idle" => aDevice[v] \in Requests /\ epc[aDevice[v]] \notin BeforeRow
       /\ apc[v] \in AfterIntent /\ aDevice[v] \in devices => aDevice[v] \in revocationRequested
       /\ apc[v] \in AfterRead /\ aDevice[v] \notin racing => aDevice[v] \in devices
       /\ apc[v] \in {"resolve", "desk", "complete"} /\ aDevice[v] \notin racing
            => aDevice[v] \notin tokens \cap keys
  /\ revocationCompleted \subseteq revocationRequested
  /\ RevokedIsClosed
  /\ \A d \in revocationCompleted \ racing : d \notin tokens \cap keys

\* Every installation stands at the captured origin of a request that has sent its registration;
\* outside the racing set the row has it on record until nothing is installed any more.
DeskInv ==
  /\ \A d \in Requests, o \in Origins :
       <<d, o>> \in installs => o = target[d] /\ epc[d] \notin BeforeRegister
  /\ \A d \in lateRegisters : epc[d] \notin BeforeRegister
  /\ \A d \in Requests : epc[d] \in TargetSteps /\ d \notin racing =>
       d \in deskCleanupPending /\ deskOrigin[d] = target[d]
  /\ \A d \in deskRevoked : epc[d] \in UndoSteps \cup {"failed", "crashed"}
  /\ \A d \in Requests : epc[d] \in {"undoDevice", "undoCode"} => d \in deskRevoked
  /\ \A v \in Admins :
       apc[v] \in AfterRead /\ aDevice[v] \in (deskProvisioned \cup deskCleanupPending) \ racing
         => v \in snapProvisioned \cup snapPending
  /\ \A d \in revocationCompleted \ racing : d \notin deskProvisioned \cup deskCleanupPending
  /\ ~LateDelivery =>
       /\ lateRegisters = {}
       /\ NoOrphanInstallation
       /\ \A d \in deskRevoked, o \in Origins : <<d, o>> \notin installs
       /\ \A v \in Admins, o \in Origins : aDevice[v] \notin racing /\ <<aDevice[v], o>> \in installs =>
            /\ apc[v] # "complete"
            /\ apc[v] \in AfterRead => v \in snapProvisioned \cup snapPending /\ snapOrigin[v] = o
       /\ \A d \in revocationCompleted \ racing, o \in Origins : <<d, o>> \notin installs

\* What the try block has built stands until the request itself or a revocation takes it down.
ForwardInv ==
  /\ tokenRevoked \subseteq revocationRequested
  /\ \A r \in Requests :
       /\ epc[r] \in TokenSteps => r \in tokens
       /\ epc[r] \in TokenSteps \ {"audit"} => r \in enrollAudited
       /\ epc[r] \in KeySteps /\ r \notin revocationRequested => r \in keys
       /\ epc[r] \in NotPending => r \notin deskCleanupPending
       /\ r \in deskProvisioned => epc[r] = "enrolled"
       /\ epc[r] = "finalize" /\ r \notin revocationRequested => <<r, target[r]>> \in installs
       /\ r \in deskProvisioned \ revocationRequested => <<r, deskOrigin[r]>> \in installs

\* The flags of the catch block say what it has undone, and a request that can still meet a late
\* key never reaches its audit entry.
UndoInv ==
  /\ \A r \in gatewayRevoked :
       /\ epc[r] \in UndoSteps \cup {"failed", "crashed"}
       /\ r \in enrollAudited => r \notin keys
  /\ \A r \in lateKeys :
       /\ epc[r] \in {"cleanKey", "undoDevice", "undoCode", "failed", "crashed"}
       /\ r \notin enrollAudited
  /\ \A r \in cleanupReported :
       /\ epc[r] \in UndoSteps \cup {"failed", "crashed"}
       /\ r \in devices => r \in deskCleanupPending \cup revocationCompleted \cup racing
  /\ \A r \in enrollAudited : epc[r] \notin BeforeRow \cup {"issue", "cleanKey", "token", "audit"}
  /\ \A r \in rollbackAudited : epc[r] = "failed" /\ r \in enrollAudited
  /\ \A r \in deviceRemoved :
       r \notin devices /\ epc[r] \in {"undoCode", "undoAudit", "failed", "crashed"}
  /\ \A r \in codeRestored :
       /\ epc[r] \in {"undoAudit", "failed", "crashed"}
       /\ r \notin devices /\ r \notin holds /\ r \in deskRevoked
  /\ \A r \in Requests :
       /\ epc[r] = "undoAudit" => r \in enrollAudited
       /\ epc[r] \in UndoSteps \cup {"failed"} /\ r \notin cleanupReported => r \in deskRevoked
       /\ epc[r] \notin BeforeRow \cup {"crashed"} /\ r \notin devices => r \in deviceRemoved
       /\ epc[r] \in {"undoAudit", "failed"} /\ r \notin holds => r \in codeRestored

\* Credential references are fresh: the one in the row was put there by a call that has committed,
\* and no call is about to remove it.
BindingInv ==
  /\ bindingCredential # None => bindingCredential \in secrets /\ bpc[bindingCredential] \in {"retire", "done"}
  /\ \A p \in BindingOps :
       /\ bpc[p] \in {"upsert", "discard"} => opCredential[p] \in {None, p}
       /\ bpc[p] = "discard" => opCredential[p] = p
       /\ bpc[p] = "upsert" /\ opCredential[p] = p => p \in secrets
       /\ bpc[p] = "retire" => /\ opCredential[p] \in BindingOps \ {bindingCredential}
                               /\ bpc[opCredential[p]] \in {"retire", "done"}
       /\ bpc[p] = "commitActive" => opVersion[p] \in probed
       /\ bpc[p] \in {"probe", "commitActive", "commitDegraded"} => bindingStatus # "NONE"
  /\ (bindingStatus = "NONE") => bindingCredential = None
  /\ ActiveIsVerified
=============================================================================
