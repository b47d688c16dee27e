------------------------------ MODULE MCConsole ------------------------------
(* A small instance of the console for TLC. *)
EXTENDS Console, TLC

CONSTANTS s1, s2, o1

\* s1 operates the control plane, s2 administers an organization.
HomeOf == (s1 :> None) @@ (s2 :> o1)

\* Every view alone, and the pairs that share a cache or a login.
ConsolePlans == {{v} : v \in Views} \cup {{"tickets", "security"}, {"users", "tickets"}}
=============================================================================
