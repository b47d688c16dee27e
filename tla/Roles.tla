-------------------------------- MODULE Roles --------------------------------
(***************************************************************************)
(* Roles, teams, assignments and the policy bundle of a device             *)
(* (roles.service.ts), for one organization, one person and one device.    *)
(* The composite foreign keys keep organizations apart.                    *)
(*                                                                         *)
(* Every change runs in AuditService.transact and is one serializable      *)
(* step.  A bundle is resolved by separate reads: the device with its      *)
(* person's teams and the organization, then the assignments with their    *)
(* roles and, at the same time, the teams.  The hash that identifies a     *)
(* bundle is represented by what is hashed.                                *)
(***************************************************************************)
EXTENDS Naturals, FiniteSets, SequencesExt, Null

CONSTANTS
  Roles, Teams,
  Assignments,   \* ids of digital employees
  Models,        \* managed models
  EffortsOf,     \* managedModelThinkingEfforts
  Policies,      \* the policies administrators write
  MaxEdits,      \* bound on changes
  MaxBundles     \* bound on bundles resolved

Efforts == UNION {EffortsOf[m] : m \in Models}
NoBudget == [kind |-> "none", of |-> <<>>]

\* A policy without any field.
EmptyPolicy ==
  [modelAllow |-> None, modelDeny |-> {}, toolDeny |-> {}, approval |-> FALSE,
   personal |-> "omitted", budget |-> NoBudget]

\* normalizePolicy: a number, or a limit for each of several dimensions.
IsBudget(b) ==
  /\ b.kind \in {"none", "number", "limits"} /\ b.of \in [DOMAIN b.of -> Nat]
  /\ b.kind = "none" => DOMAIN b.of = {}

\* normalizePolicy; of the names in an allow-list, those of managed models matter.
IsPolicy(p) ==
  /\ p.modelAllow = None \/ p.modelAllow \subseteq Models
  /\ p.personal \in {"omitted", "allow", "deny"} /\ IsBudget(p.budget)

\* A row of the table of roles.
RoleRow == [version : Nat, model : Models \cup {None}, effort : Efforts \cup {None}, archived : BOOLEAN]

ASSUME RolesAssumption ==
  /\ EffortsOf \in [Models -> SUBSET Efforts]
  /\ \A p \in Policies : DOMAIN p = DOMAIN EmptyPolicy /\ IsPolicy(p)
  /\ None \notin RoleRow \cup Policies \cup {EmptyPolicy} /\ \A names \in SUBSET Models : names # None
  /\ IsFiniteSet(Teams) /\ IsFiniteSet(Assignments)
  /\ MaxEdits \in Nat /\ MaxBundles \in Nat

VARIABLES
  role,          \* id -> version, model, reasoningEffort, archived, or None
  team,          \* id -> policy, or None
  orgPolicy,
  person, bound, \* the person exists; the device is bound to it
  member,        \* teams of the person
  assignment,    \* id -> role, to the person, to a team (or None), active, policy, or None
  request,       \* a bundle being resolved
  served,        \* history: the bundles and what they were merged from
  edits, bundles

catalog == <<role, team, orgPolicy, person, bound, member, assignment>>
rolesVars == <<catalog, request, served, edits, bundles>>

NoRequest == [at |-> "idle"]
NewRole(model, effort) == [version |-> 1, model |-> model, effort |-> effort, archived |-> FALSE]
NewAssignment(r, personal, t) ==
  [role |-> r, person |-> personal, team |-> t, active |-> TRUE, policy |-> EmptyPolicy]

\* Assignments to the person, and to the teams.
FirstAssignments ==
  {NewAssignment(r, TRUE, None) : r \in Roles} \cup {NewAssignment(r, FALSE, t) : r \in Roles, t \in Teams}

\* A new organization, or one whose device, person, teams, roles and assignments are set up.
RolesInit ==
  /\ orgPolicy = EmptyPolicy
  /\ \/ /\ role = [r \in Roles |-> None] /\ team = [t \in Teams |-> None]
        /\ person = FALSE /\ bound = FALSE /\ member = {} /\ assignment = [a \in Assignments |-> None]
     \/ /\ role = [r \in Roles |-> NewRole(None, None)] /\ team = [t \in Teams |-> EmptyPolicy]
        /\ person = TRUE /\ bound = TRUE /\ member = Teams
        /\ assignment \in [Assignments -> FirstAssignments]
  /\ request = NoRequest /\ served = {} /\ edits = 0 /\ bundles = 0
-----------------------------------------------------------------------------
(***************************************************************************)
(* mergePolicy: denials accumulate, allow-lists and limits only narrow.    *)
(***************************************************************************)

Smaller(f, g, d) ==
  IF d \notin DOMAIN g THEN f[d]
  ELSE IF d \notin DOMAIN f \/ g[d] < f[d] THEN g[d] ELSE f[d]

\* Numbers with numbers and dimensions with dimensions; other shapes never replace a limit.
restrictiveBudget(current, next) ==
  CASE next.kind = "none" -> current
    [] next.kind # "none" /\ current.kind = "none" -> next
    [] next.kind # "none" /\ current.kind = next.kind ->
         [kind |-> current.kind,
          of |-> [d \in DOMAIN current.of \cup DOMAIN next.of |-> Smaller(current.of, next.of, d)]]
    [] OTHER -> current

\* Mutant of NarrowedModels: the lowest layer decides.
LatestModels(current, next) == IF next = None THEN current ELSE next

NarrowedModels(current, next) ==
  CASE next = None -> current [] next # None /\ current = None -> next [] OTHER -> current \cap next

NarrowedConsent(current, next) ==
  CASE next = "omitted" -> current
    [] next # "omitted" /\ current = "omitted" -> next
    [] OTHER -> IF current = "allow" /\ next = "allow" THEN "allow" ELSE "deny"

MergeLayer(current, p) ==
  [modelAllow |-> NarrowedModels(current.modelAllow, p.modelAllow),
   modelDeny |-> current.modelDeny \cup p.modelDeny,
   toolDeny |-> current.toolDeny \cup p.toolDeny,
   approval |-> current.approval \/ p.approval,
   personal |-> NarrowedConsent(current.personal, p.personal),
   budget |-> restrictiveBudget(current.budget, p.budget)]

\* The layers one after the other, from the top.
mergePolicy(layers) ==
  LET merged[i \in 0 .. Len(layers)] ==
        IF i = 0 THEN EmptyPolicy ELSE MergeLayer(merged[i - 1], layers[i])
  IN  merged[Len(layers)]
-----------------------------------------------------------------------------
(***************************************************************************)
(* Administration.                                                         *)
(***************************************************************************)

Edit ==
  /\ edits < MaxEdits /\ edits' = edits + 1
  /\ UNCHANGED <<request, served, bundles>>

\* normalizedRoleReasoningEffort: an effort needs an explicit model that supports it.
EffortAllowed(effort, model) == effort # None => model # None /\ effort \in EffortsOf[model]

createRole(r, model, effort) ==
  /\ Edit /\ role[r] = None /\ EffortAllowed(effort, model)
  /\ role' = [role EXCEPT ![r] = NewRole(model, effort)]
  /\ UNCHANGED <<team, orgPolicy, person, bound, member, assignment>>

\* Mutant of Revised: only a new model counts as a new version.
RevisedByModel(r, model, effort) ==
  [role[r] EXCEPT !.version = IF model = role[r].model THEN @ ELSE @ + 1, !.model = model, !.effort = effort]

Revised(r, model, effort) ==
  [role[r] EXCEPT !.version = @ + 1, !.model = model, !.effort = effort]

\* What is left out of the input stays; a kept effort must fit the new model.
updateRole(r, model, effort) ==
  /\ Edit /\ role[r] # None /\ EffortAllowed(effort, model)
  /\ role' = [role EXCEPT ![r] = Revised(r, model, effort)]
  /\ UNCHANGED <<team, orgPolicy, person, bound, member, assignment>>

archiveRole(r) ==
  /\ Edit /\ role[r] # None
  /\ role' = [role EXCEPT ![r].archived = TRUE]
  /\ UNCHANGED <<team, orgPolicy, person, bound, member, assignment>>

createPerson ==
  /\ Edit /\ ~person /\ person' = TRUE
  /\ UNCHANGED <<role, team, orgPolicy, bound, member, assignment>>

\* A device is bound once; the binding is immutable.
bindDevicePerson ==
  /\ Edit /\ person /\ ~bound /\ bound' = TRUE
  /\ UNCHANGED <<role, team, orgPolicy, person, member, assignment>>

createTeam(t) ==
  /\ Edit /\ team[t] = None /\ team' = [team EXCEPT ![t] = EmptyPolicy]
  /\ UNCHANGED <<role, orgPolicy, person, bound, member, assignment>>

addTeamMember(t) ==
  /\ Edit /\ person /\ team[t] # None /\ member' = member \cup {t}
  /\ UNCHANGED <<role, team, orgPolicy, person, bound, assignment>>

setTeamPolicy(t, p) ==
  /\ Edit /\ team[t] # None /\ team' = [team EXCEPT ![t] = p]
  /\ UNCHANGED <<role, orgPolicy, person, bound, member, assignment>>

\* To the person, to a team, or to both.
createAssignment(a, r, personal, t) ==
  /\ Edit /\ assignment[a] = None /\ role[r] # None
  /\ personal \/ t # None
  /\ personal => person
  /\ t # None => team[t] # None
  /\ assignment' = [assignment EXCEPT ![a] = NewAssignment(r, personal, t)]
  /\ UNCHANGED <<role, team, orgPolicy, person, bound, member>>

deleteAssignment(a) ==
  /\ Edit /\ assignment[a] # None /\ assignment' = [assignment EXCEPT ![a] = None]
  /\ UNCHANGED <<role, team, orgPolicy, person, bound, member>>

updateAssignment(a, active, p) ==
  /\ Edit /\ assignment[a] # None
  /\ assignment' = [assignment EXCEPT ![a].active = active, ![a].policy = p]
  /\ UNCHANGED <<role, team, orgPolicy, person, bound, member>>

setOrgPolicy(p) ==
  /\ Edit /\ orgPolicy' = p
  /\ UNCHANGED <<role, team, person, bound, member, assignment>>
-----------------------------------------------------------------------------
(***************************************************************************)
(* resolveBundleForDevice                                                  *)
(***************************************************************************)

Serve(b) == request' = NoRequest /\ served' = served \cup {b} /\ UNCHANGED <<catalog, edits>>

\* The device is read; without a person it gets the organization's policy as version 0.
ReadsDevice ==
  /\ request = NoRequest /\ bundles < MaxBundles /\ bundles' = bundles + 1
  /\ IF bound
     THEN /\ request' = [at |-> "reads", org |-> orgPolicy, teams |-> member,
                         assigned |-> None, policies |-> None]
          /\ UNCHANGED <<catalog, served, edits>>
     ELSE Serve([device |-> "unbound", version |-> <<>>, roles |-> {}, policy |-> mergePolicy(<<orgPolicy>>),
                 org |-> orgPolicy, layers |-> {orgPolicy}, rows |-> {}])

\* Active assignments of the person or of a team it was read in, with their roles.
ReadsAssignments ==
  /\ request.at = "reads" /\ request.assigned = None
  /\ request' = [request EXCEPT !.assigned =
       {[id |-> a, policy |-> assignment[a].policy, role |-> [id |-> assignment[a].role, row |-> role[assignment[a].role]]] :
          a \in {b \in Assignments : /\ assignment[b] # None /\ assignment[b].active
                                     /\ assignment[b].person \/ assignment[b].team \in request.teams}}]
  /\ UNCHANGED <<catalog, served, edits, bundles>>

ReadsTeams ==
  /\ request.at = "reads" /\ request.policies = None
  /\ request' = [request EXCEPT !.policies = {[id |-> t, policy |-> team[t]] : t \in request.teams}]
  /\ UNCHANGED <<catalog, served, edits, bundles>>

PoliciesOf(rows) == [i \in DOMAIN rows |-> rows[i].policy]

\* The organization, then the teams and the assignments in the order their rows came.
Resolve ==
  /\ request.at = "reads" /\ request.assigned # None /\ request.policies # None
  /\ LET applicable == {a \in request.assigned : ~a.role.row.archived}
         roles == {a.role : a \in applicable}
     IN \E ts \in SetToSeqs(request.policies), as \in SetToSeqs(applicable) :
          LET layers == <<request.org>> \o PoliciesOf(ts) \o PoliciesOf(as)
              merged == mergePolicy(layers)
          IN Serve([device |-> "bound", version |-> <<merged, {<<r.id, r.row.version>> : r \in roles}>>,
                    roles |-> {[id |-> r.id, model |-> r.row.model, effort |-> r.row.effort] : r \in roles},
                    policy |-> merged, org |-> request.org, layers |-> {layers[i] : i \in DOMAIN layers},
                    rows |-> roles])
  /\ UNCHANGED bundles

RolesNext ==
  \/ \E r \in Roles, m \in Models \cup {None}, e \in Efforts \cup {None} : createRole(r, m, e) \/ updateRole(r, m, e)
  \/ \E r \in Roles : archiveRole(r)
  \/ createPerson \/ bindDevicePerson
  \/ \E t \in Teams : createTeam(t) \/ addTeamMember(t)
  \/ \E t \in Teams, p \in Policies : setTeamPolicy(t, p)
  \/ \E a \in Assignments, r \in Roles, personal \in BOOLEAN, t \in Teams \cup {None} :
       createAssignment(a, r, personal, t)
  \/ \E a \in Assignments : deleteAssignment(a)
  \/ \E a \in Assignments, on \in BOOLEAN, p \in Policies : updateAssignment(a, on, p)
  \/ \E p \in Policies : setOrgPolicy(p)
  \/ ReadsDevice \/ ReadsAssignments \/ ReadsTeams \/ Resolve

RolesSpec == RolesInit /\ [][RolesNext]_rolesVars
-----------------------------------------------------------------------------
Usable(p) == {m \in Models : (p.modelAllow = None \/ m \in p.modelAllow) /\ m \notin p.modelDeny}

\* Whoever is held to m is held to p: models, tools, approval, consent, and limits of one shape.
Restricts(m, p) ==
  /\ Usable(m) \subseteq Usable(p) /\ p.toolDeny \subseteq m.toolDeny
  /\ p.approval => m.approval
  /\ p.personal = "deny" => m.personal = "deny"
  /\ p.budget.kind = m.budget.kind =>
       \A d \in DOMAIN p.budget.of : d \in DOMAIN m.budget.of /\ m.budget.of[d] <= p.budget.of[d]

(***************************************************************************)
(* "Merge governance policies monotonically" (mergePolicy, 115): in every  *)
(* bundle, whatever was edited while it was resolved and in whichever      *)
(* order its rows came, no layer it was merged from is widened: not its    *)
(* models, tools, approval or consent, nor its limits in the shape of the  *)
(* result, which is the organization's if that has one.                    *)
(***************************************************************************)
MergeRestricts ==
  \A b \in served :
    /\ b.org.budget.kind # "none" => b.policy.budget.kind = b.org.budget.kind
    /\ \A p \in b.layers : Restricts(b.policy, p)

(***************************************************************************)
(* "every effective policy or role-version change must invalidate the      *)
(* device cache" (resolveBundleForDevice, 504-505): two bundles of a bound *)
(* device with one version are the same, however roles, assignments and    *)
(* policies were edited in between.                                        *)
(***************************************************************************)
VersionNamesBundle ==
  \A b, c \in served : b.device = "bound" /\ c.device = "bound" /\ b.version = c.version
                         => b.roles = c.roles /\ b.policy = c.policy
-----------------------------------------------------------------------------
AnyPolicy == Policies \cup {EmptyPolicy}

\* A row of the table of digital employees.
AssignmentRow == [role : Roles, person : BOOLEAN, team : Teams \cup {None}, active : BOOLEAN, policy : AnyPolicy]

\* An assignment as a bundle reads it, with its role, and a team with its policy.
AssignedRow == [id : Assignments, policy : AnyPolicy, role : [id : Roles, row : RoleRow]]
TeamRow == [id : Teams, policy : AnyPolicy]

RolesTypeOK ==
  /\ role \in [Roles -> RoleRow \cup {None}] /\ team \in [Teams -> AnyPolicy \cup {None}]
  /\ orgPolicy \in AnyPolicy /\ member \subseteq Teams
  /\ assignment \in [Assignments -> {None} \cup AssignmentRow]
  /\ request \in {NoRequest} \cup [at : {"reads"}, org : AnyPolicy, teams : SUBSET Teams,
                                   assigned : {None} \cup SUBSET AssignedRow,
                                   policies : {None} \cup SUBSET TeamRow]

\* Neither roles nor teams are ever deleted, and a query returns finitely many rows.
ReferencesHold ==
  /\ \A a \in Assignments : assignment[a] # None => role[assignment[a].role] # None
  /\ \A t \in member : team[t] # None
  /\ request.at = "reads" => \A t \in request.teams : team[t] # None
  /\ request.at = "reads" /\ request.assigned # None => IsFiniteSet(request.assigned)
  /\ request.at = "reads" /\ request.policies # None => IsFiniteSet(request.policies)

\* The role rows bundles were made of, or are being made of.
RowsRead ==
  (UNION {b.rows : b \in served})
    \cup (IF request.at = "reads" /\ request.assigned # None THEN {a.role : a \in request.assigned} ELSE {})

SameContent(x, y) == x.model = y.model /\ x.effort = y.effort

\* A version of a role has one content, and none that was read is ahead of the role.
VersionsName ==
  /\ \A x \in RowsRead : /\ x \in [id : Roles, row : RoleRow] /\ role[x.id] # None
                         /\ x.row.version <= role[x.id].version
                         /\ x.row.version = role[x.id].version => SameContent(x.row, role[x.id])
  /\ \A x, y \in RowsRead : x.id = y.id /\ x.row.version = y.row.version => SameContent(x.row, y.row)

\* What a bound device was given is made of the rows that were read.
ServedFromRows ==
  \A b \in served : b.device = "bound" =>
    /\ b.version = <<b.policy, {<<r.id, r.row.version>> : r \in b.rows}>>
    /\ b.roles = {[id |-> r.id, model |-> r.row.model, effort |-> r.row.effort] : r \in b.rows}

\* The inductive invariant.
RolesInv == RolesTypeOK /\ ReferencesHold /\ VersionsName /\ ServedFromRows /\ MergeRestricts
=============================================================================
