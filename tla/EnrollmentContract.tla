------------------------- MODULE EnrollmentContract -------------------------
(***************************************************************************)
(* What one-time codes promise, without rows, remotes, faults or crashes:  *)
(* a code is held by one request at a time, only its holder is ever given  *)
(* a usable credential, and a code is given back only when no credential   *)
(* obtained with it is usable and its request was not accepted.            *)
(***************************************************************************)
CONSTANTS Requests, CodeOf

VARIABLES
  held,      \* requests that hold their code
  usable,    \* requests whose credential the control plane accepts
  accepted   \* requests that were answered with success

contractVars == <<held, usable, accepted>>

ContractInit == held = {} /\ usable = {} /\ accepted = {}

Acquire(r) ==
  /\ \A q \in held : CodeOf[q] # CodeOf[r]
  /\ held' = held \cup {r}
  /\ UNCHANGED <<usable, accepted>>

Grant(r) ==
  /\ r \in held
  /\ usable' = usable \cup {r}
  /\ UNCHANGED <<held, accepted>>

Accept(r) ==
  /\ r \in held
  /\ accepted' = accepted \cup {r}
  /\ UNCHANGED <<held, usable>>

Withdraw(r) ==
  /\ usable' = usable \ {r}
  /\ UNCHANGED <<held, accepted>>

Release(r) ==
  /\ r \in held \ (usable \cup accepted)
  /\ held' = held \ {r}
  /\ UNCHANGED <<usable, accepted>>

ContractNext == \E r \in Requests : Acquire(r) \/ Grant(r) \/ Accept(r) \/ Withdraw(r) \/ Release(r)

ContractSpec == ContractInit /\ [][ContractNext]_contractVars
=============================================================================
