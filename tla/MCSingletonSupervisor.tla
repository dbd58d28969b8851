----------------------- MODULE MCSingletonSupervisor -----------------------
(* Instances of SingletonSupervisor for TLC. *)
EXTENDS SingletonSupervisor

CONSTANTS p1, p2, p3

TwoProcesses == {p1, p2}
ThreeProcesses == {p1, p2, p3}
=============================================================================
