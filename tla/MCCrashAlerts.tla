--------------------------- MODULE MCCrashAlerts ----------------------------
(* Small instances of the crash alert outbox for TLC. *)
EXTENDS CrashAlerts

\* Every row is of the same crash.
OneKey == [r \in Rows |-> 1]
=============================================================================
