-------------------------- MODULE MCBackgroundWake --------------------------
(* Instances of BackgroundWake for TLC. *)
EXTENDS BackgroundWake

CONSTANTS t0, t1, t2, s1

ThreeTasks == {t0, t1, t2}
WokenOnce  == {t0}
OneSession == {s1}
SameOwner  == [t \in ThreeTasks |-> s1]

=============================================================================
