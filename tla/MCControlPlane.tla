--------------------------- MODULE MCControlPlane ---------------------------
(* Small instances of ControlPlane for TLC. *)
EXTENDS ControlInvariants, TLC

CONSTANT c1

\* Requests present the same code in the same millisecond.
OneCode == [r \in Requests |-> c1]
SameStamp == [r \in Requests |-> 1]

\* Administrators are interchangeable.
RevokeSymmetry == Permutations(Admins)
=============================================================================
