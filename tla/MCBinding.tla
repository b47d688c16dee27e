------------------------------ MODULE MCBinding ------------------------------
(***************************************************************************)
(* An instance of ControlPlane that begins where the organization's Desk   *)
(* binding was left by the calls before: without a managed row, or with an *)
(* ACTIVE one that is just being verified once more.                       *)
(***************************************************************************)
EXTENDS MCControlPlane

CONSTANTS stored, verified, again, o2

\* No managed row; every call but those of the other beginning is still to come.
NoRow ==
  /\ bindingStatus = "NONE" /\ bindingOrigin = None /\ bindingCredential = None
  /\ configVersion = 0 /\ secrets = {} /\ probed = {}
  /\ opVersion = [p \in BindingOps |-> 0]
  /\ opCredential = [p \in BindingOps |-> None]
  /\ bpc = [p \in BindingOps |-> IF p \in {stored, verified} THEN "done" ELSE "idle"]

\* What ControlPlane reaches from Init when `stored` upserts o2 with a credential, `verified`
\* verifies it, and `again` has read the row to verify it a second time.
BeingVerified ==
  /\ bindingStatus = "ACTIVE" /\ bindingOrigin = o2 /\ bindingCredential = stored
  /\ configVersion = 1 /\ secrets = {stored} /\ probed = {1}
  /\ opVersion = [p \in BindingOps |-> IF p = again THEN 1 ELSE 0]
  /\ opCredential = [p \in BindingOps |-> IF p = again THEN stored ELSE None]
  /\ bpc = [p \in BindingOps |-> IF p \in {stored, verified} THEN "done"
                                 ELSE IF p = again THEN "probe" ELSE "idle"]

BindingInit == Unenrolled /\ (NoRow \/ BeingVerified)
BindingSpec == BindingInit /\ [][Next]_vars /\ RetryFairness
=============================================================================
