------------------------------ MODULE MCServices ------------------------------
(***************************************************************************)
(* The services of one organization that share no table and no request:    *)
(* a behaviour of them all is an interleaving of one behaviour of each,    *)
(* and every property below reads the state of one.  A behaviour of this   *)
(* instance is therefore a behaviour of one service, the focus, next to    *)
(* the others at rest.                                                     *)
(***************************************************************************)
EXTENDS AuditVerify, FeedbackTickets, Learnings, Assets, WorkSessions, MCRoles, ProviderKey, Accounts

\* What operators ask of a ticket: to release it with its version and steps, or to take it back and
\* clear them.  The monitor asks for every status, and leaves them as they are.
TicketUpdates == {[to |-> "WAITING_VERIFICATION", input |-> "set"], [to |-> "IN_PROGRESS", input |-> "clear"]}

\* Changes of an account under a login's feet: its role, its password, its lock.
AccountPatches ==
  LET empty == [role |-> None, org |-> None, disabled |-> None, password |-> None]
  IN  {[empty EXCEPT !.role = "ADMIN", !.org = o] : o \in Tenants} \cup {[empty EXCEPT !.disabled = TRUE]}
        \cup {[empty EXCEPT !.password = p] : p \in Passwords}

VARIABLE focus

ServiceVars ==
  <<focus, auditVars, ticketVars, learningVars, assetVars, workVars, rolesVars, providerVars, accountVars>>

Services == {"audit", "tickets", "learnings", "assets", "work", "roles", "provider", "accounts"}

\* A service at rest begins in the plainest of its initial states.
ServicesInit ==
  /\ focus \in Services
  /\ AuditInit /\ (focus # "audit" => rows = {})
  /\ TicketInit /\ LearningInit /\ AssetInit /\ WorkInit
  /\ RolesInit /\ (focus # "roles" => ~person)
  /\ ProviderInit /\ (focus # "provider" => envKey = None)
  /\ AccountInit /\ (focus # "accounts" => \A u \in Users : account[u] = None)

\* Only the focus takes steps.
AtRest(f) ==
  /\ focus' = focus
  /\ f # "audit" => UNCHANGED auditVars
  /\ f # "tickets" => UNCHANGED ticketVars
  /\ f # "learnings" => UNCHANGED learningVars
  /\ f # "assets" => UNCHANGED assetVars
  /\ f # "work" => UNCHANGED workVars
  /\ f # "roles" => UNCHANGED rolesVars
  /\ f # "provider" => UNCHANGED providerVars
  /\ f # "accounts" => UNCHANGED accountVars

ServicesNext ==
  \/ focus = "audit" /\ AuditNext /\ AtRest("audit")
  \/ focus = "tickets" /\ TicketNext /\ AtRest("tickets")
  \/ focus = "learnings" /\ LearningNext /\ AtRest("learnings")
  \/ focus = "assets" /\ AssetNext /\ AtRest("assets")
  \/ focus = "work" /\ WorkNext /\ AtRest("work")
  \/ focus = "roles" /\ RolesNext /\ AtRest("roles")
  \/ focus = "provider" /\ ProviderNext /\ AtRest("provider")
  \/ focus = "accounts" /\ AccountNext /\ AtRest("accounts")

ServicesSpec == ServicesInit /\ [][ServicesNext]_ServiceVars
=============================================================================
