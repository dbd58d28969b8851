------------------------------ MODULE TaskDag ------------------------------
(***************************************************************************)
(* The dependency graph of a workflow, as its executor reads it            *)
(* (crates/y-agent/src/orchestrator/dag.rs): deps[t] is the set of tasks t *)
(* depends on.                                                             *)
(***************************************************************************)
EXTENDS Naturals, FiniteSets

CONSTANT Tasks      \* task identifiers of one workflow

ASSUME TasksAssumption == IsFiniteSet(Tasks) /\ Tasks # {}

(* The tasks can be numbered so that dependencies come first: what a        *)
(* successful topological_order exhibits.                                   *)
Orderable(deps) ==
    \E place \in [Tasks -> 1 .. Cardinality(Tasks)] :
        \A t \in Tasks : \A d \in deps[t] : place[d] < place[t]

(* Mutant: the dependencies that failed are not waited for. *)
ReadyWithAny(deps, completed) ==
    {t \in Tasks \ completed : deps[t] = {} \/ deps[t] \cap completed # {}}

(* ready_tasks *)
Ready(deps, completed) == {t \in Tasks \ completed : deps[t] \subseteq completed}
=============================================================================
