-------------------------- MODULE MCFeishuMonitor ---------------------------
(* Small instances of the monitors for TLC. *)
EXTENDS MonitorInvariants, TLC

\* Operators reject the ticket under a monitor's feet, which takes its claim away.
ProcessingUpdates == [to : {"REJECTED"}, input : {"keep"}]

\* Monitors are interchangeable, and so are operators and the places for abandoned requests.
MonitorSymmetry == Permutations(Hosts) \cup Permutations(Operators) \cup Permutations(Places)
=============================================================================
