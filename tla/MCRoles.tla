------------------------------- MODULE MCRoles -------------------------------
(* A small instance of Roles for TLC. *)
EXTENDS Roles

CONSTANTS m1, m2   \* the two managed models

\* m1 can be asked for a reasoning effort.
RoleEfforts == [m \in Models |-> IF m = m1 THEN {"high"} ELSE {}]

Limit(n) == [kind |-> "number", of |-> [total |-> n]]
Limits(n) == [kind |-> "limits", of |-> [daily |-> n]]

\* Policies that overlap in every field: allowed and denied models, tools, approval, consent, budget.
RolePolicies ==
  {[EmptyPolicy EXCEPT !.modelAllow = {m1}, !.personal = "allow", !.budget = Limit(5)],
   [EmptyPolicy EXCEPT !.modelAllow = {m1, m2}, !.modelDeny = {m2}, !.approval = TRUE, !.personal = "deny",
                       !.budget = Limits(3)],
   [EmptyPolicy EXCEPT !.modelAllow = {}, !.toolDeny = {"bash"}, !.budget = Limit(2)]}
=============================================================================
