--------------------------- MODULE SingletonRole ---------------------------
(***************************************************************************)
(* What lease supervision promises of a singleton background role: at any  *)
(* moment at most one process runs it, the terms in which it is run are    *)
(* numbered in order, and a change of process always opens a new term      *)
(* (docs/guides/ARCHITECTURE.md, "Multi-Instance Runtime Coordination").   *)
(***************************************************************************)
EXTENDS Naturals

CONSTANTS Instances, NoInstance

VARIABLES
    runner,     \* the process that runs the role, or NoInstance
    last,       \* the process of the latest term
    term        \* the number of the latest term

vars == <<runner, last, term>>

Init == runner = NoInstance /\ last = NoInstance /\ term = 0

(* A process may resume its own term; any other begins the next one. *)
Begin(i) ==
    /\ runner = NoInstance
    /\ runner' = i
    /\ last' = i
    /\ \/ term' = term + 1
       \/ last = i /\ term' = term

End ==
    /\ runner # NoInstance
    /\ runner' = NoInstance
    /\ UNCHANGED <<last, term>>

Next == End \/ \E i \in Instances : Begin(i)

Spec == Init /\ [][Next]_vars
=============================================================================
