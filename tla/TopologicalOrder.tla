-------------------------- MODULE TopologicalOrder --------------------------
(***************************************************************************)
(* TaskDag::validate and topological_order of                              *)
(* crates/y-agent/src/orchestrator/dag.rs, started on any graph.           *)
(*                                                                         *)
(* A node's dependencies are a list, which may repeat an identifier or     *)
(* name one that is no task: repeats[t][d] counts d in t's list.  The      *)
(* HashMap and HashSet iteration that feeds the work queue has no order,   *)
(* so the queue is a set here and any member may be the next.              *)
(***************************************************************************)
EXTENDS TaskDag, Sequences

CONSTANTS
    Absent,     \* identifiers that name no task
    MaxRepeat,  \* bound: how often a list repeats an identifier
    MaxOdd      \* bound: entries of all the lists that repeat one or name no task

ASSUME OrderAssumption ==
    /\ IsFiniteSet(Absent) /\ Absent \cap Tasks = {}
    /\ MaxRepeat \in Nat /\ MaxOdd \in Nat

VARIABLES
    repeats,    \* the dependency lists
    degree,     \* in_degree
    queue,      \* tasks whose in_degree fell to zero, not popped yet
    order,      \* the tasks popped so far
    verdict     \* "none", "ok", "missing" or "cycle"

sorting == <<degree, queue, order, verdict>>
orderVars == <<repeats, sorting>>

Deps == [t \in Tasks |-> {d \in Tasks : repeats[t][d] > 0}]

Dependents(t) == {u \in Tasks : repeats[u][t] > 0}

Missing == \E t \in Tasks, d \in Absent : repeats[t][d] > 0

OrderTypeOK ==
    /\ repeats \in [Tasks -> [Tasks \cup Absent -> 0 .. MaxRepeat]]
    /\ degree \in [Tasks -> Nat]
    /\ queue \subseteq Tasks
    /\ order \in Seq(Tasks)
    /\ verdict \in {"none", "ok", "missing", "cycle"}

Odd == {e \in Tasks \X (Tasks \cup Absent) :
          repeats[e[1]][e[2]] > (IF e[2] \in Tasks THEN 1 ELSE 0)}

(* The entries of t's list, the repeated ones numbered. *)
Entries(t) == {e \in (Tasks \cup Absent) \X (1 .. MaxRepeat) : e[2] <= repeats[t][e[1]]}

OrderInit ==
    /\ repeats \in [Tasks -> [Tasks \cup Absent -> 0 .. MaxRepeat]]
    /\ Cardinality(Odd) <= MaxOdd
    /\ degree = [t \in Tasks |-> Cardinality(Entries(t))]
    /\ queue = {t \in Tasks : degree[t] = 0}
    /\ order = << >>
    /\ verdict = "none"

(* validate refuses a missing dependency before it sorts. *)
Refuse ==
    /\ verdict = "none" /\ order = << >>
    /\ Missing
    /\ verdict' = "missing"
    /\ UNCHANGED <<repeats, degree, queue, order>>

(* The dependents whose in_degree the pop of t brings to zero. *)
Freed(t) == {u \in Dependents(t) : degree[u] <= 1}

Pop(t) ==
    /\ verdict = "none" /\ ~Missing
    /\ t \in queue
    /\ order' = Append(order, t)
    /\ degree' = [u \in Tasks |-> IF u \in Dependents(t) /\ degree[u] > 0
                                  THEN degree[u] - 1 ELSE degree[u]]
    /\ queue' = (queue \ {t}) \cup Freed(t)
    /\ UNCHANGED <<repeats, verdict>>

(* Mutant: an incomplete order is returned. *)
ReturnAlways ==
    /\ verdict = "none" /\ ~Missing
    /\ queue = {}
    /\ verdict' = "ok"
    /\ UNCHANGED <<repeats, degree, queue, order>>

Return ==
    /\ verdict = "none" /\ ~Missing
    /\ queue = {}
    /\ verdict' = IF Len(order) = Cardinality(Tasks) THEN "ok" ELSE "cycle"
    /\ UNCHANGED <<repeats, degree, queue, order>>

(* TaskDag::validate *)
Validate == Refuse \/ Return \/ \E t \in Tasks : Pop(t)

-----------------------------------------------------------------------------
(* Properties. *)

Simple == \A t \in Tasks : \A d \in DOMAIN repeats[t] : repeats[t][d] <= 1

(* validate agrees with the definition: a graph whose lists repeat nothing  *)
(* is accepted exactly when all its dependencies exist and it has an order, *)
(* and the order computed places each task once, after what it depends on.  *)
ValidateExact ==
    /\ verdict = "ok" =>
         /\ Len(order) = Cardinality(Tasks)
         /\ \A t \in Tasks : \E n \in DOMAIN order :
              /\ order[n] = t
              /\ Deps[t] \subseteq {order[m] : m \in 1 .. n - 1}
    /\ Simple =>
         /\ verdict = "ok" => ~Missing /\ Orderable(Deps)
         /\ verdict = "missing" => Missing
         /\ verdict = "cycle" => ~Orderable(Deps)
=============================================================================
