-------------------------- MODULE WorkflowExecutor --------------------------
(***************************************************************************)
(* One workflow execution: WorkflowExecutor::execute and recover_from of   *)
(* crates/y-agent/src/orchestrator/executor.rs.                            *)
(*                                                                         *)
(* The executor works in rounds.  It spawns every ready task, in priority  *)
(* order, and awaits their handles in the order it spawned them; the tasks *)
(* run concurrently under a semaphore and retry on their own.  Nobody      *)
(* aborts a spawned task: when execute returns early the handles are       *)
(* dropped and the tasks run on, detached.                                 *)
(*                                                                         *)
(* The outcome of an attempt is the environment's choice.  The graph, the  *)
(* failure strategies and what each task needs are those of the workflow   *)
(* and are chosen once.                                                    *)
(***************************************************************************)
EXTENDS TopologicalOrder

CONSTANTS
    Rank,           \* the sort key of ready_tasks: priority, then identifier
    Strategies,     \* failure strategies each task may have
    MaxAttempts,    \* retry.max_attempts of each task, 1 without a retry
    MaxConcurrent,  \* max_concurrent_tasks is between 0 and this
    Needs,          \* what each task may need: "nothing", its dependencies' "outputs",
                    \* or an "executor" that is not registered for its type
    Rigor,          \* ExecutionConfig.rigor
    MaxRecoveries   \* bound: recoveries from a checkpoint

ASSUME ExecutorAssumption ==
    /\ Rank \in [Tasks -> Nat]
    /\ \A t, u \in Tasks : Rank[t] = Rank[u] => t = u
    /\ Strategies \in [Tasks -> SUBSET {"fail_fast", "retry", "abort", "continue", "ignore"}]
    /\ MaxAttempts \in [Tasks -> Nat \ {0}]
    /\ MaxConcurrent \in Nat
    /\ Needs \in [Tasks -> SUBSET {"nothing", "outputs", "executor"}]
    /\ Rigor \in {"light", "deep"}
    /\ MaxRecoveries \in Nat

VARIABLES
    strategy, needs, permits,           \* the workflow and its configuration
    state,      \* WorkflowState
    outcome,    \* what execute returned, "none" before
    work,       \* the spawned task of each node
    attempts,   \* attempts it made
    joining,    \* handles of the round that are still to be awaited
    completed,  \* completed_tasks
    outputs,    \* nodes with an entry in task_outputs
    artifacts,  \* nodes with an entry in artifacts
    step,       \* step_number
    checkpoint, \* the latest checkpoint saved
    recoveries

workflow == <<orderVars, strategy, needs, permits>>
results == <<completed, outputs, artifacts, step>>
vars == <<workflow, state, outcome, work, attempts, joining, results, checkpoint, recoveries>>

Fatal == {"fail_fast", "retry", "abort"}
Active == {"waiting", "running", "backoff"}
Done == {"good", "bare", "failed", "panicked"}
Outcomes == {"none", "ok", "dag_invalid", "invalid_config", "input", "no_executor",
             "task_failed", "panicked"}

TypeOK ==
    /\ OrderTypeOK
    /\ \A t \in Tasks : /\ strategy[t] \in Strategies[t] \cup {"unread"}
                       /\ needs[t] \in Needs[t] \cup {"unread"}
    /\ permits \in 0 .. MaxConcurrent
    /\ state \in {"defined", "running", "completed", "failed"}
    /\ outcome \in Outcomes
    /\ work \in [Tasks -> {"none"} \cup Active \cup Done]
    /\ \A t \in Tasks : attempts[t] \in 0 .. MaxAttempts[t]
    /\ joining \subseteq Tasks
    /\ completed \subseteq Tasks /\ outputs \subseteq Tasks /\ artifacts \subseteq Tasks
    /\ step \in Nat
    /\ checkpoint \in [step : Nat, tasks : SUBSET Tasks]
    /\ recoveries \in 0 .. MaxRecoveries

Init ==
    /\ OrderInit
    /\ strategy = [t \in Tasks |-> "unread"]
    /\ needs = [t \in Tasks |-> "unread"]
    /\ permits = 0
    /\ state = "defined" /\ outcome = "none"
    /\ work = [t \in Tasks |-> "none"]
    /\ attempts = [t \in Tasks |-> 0]
    /\ joining = {}
    /\ completed = {} /\ outputs = {} /\ artifacts = {} /\ step = 0
    /\ checkpoint = [step |-> 0, tasks |-> {}]
    /\ recoveries = 0

-----------------------------------------------------------------------------
(* execute: validation, then rounds until no task is ready. *)

Before == state = "defined" /\ outcome = "none"

(* The graph is read first. *)
ValidateGraph ==
    /\ Before
    /\ Validate
    /\ UNCHANGED <<strategy, needs, permits, state, outcome, work, attempts, joining,
                   results, checkpoint, recoveries>>

(* The rest of the workflow and the configuration: what was given from the  *)
(* start is chosen where it is first read, and an input mapping names a     *)
(* dependency.                                                              *)
Read ==
    /\ strategy' \in [Tasks -> UNION {Strategies[t] : t \in Tasks}]
    /\ needs' \in [Tasks -> UNION {Needs[t] : t \in Tasks}]
    /\ \A t \in Tasks :
         /\ strategy'[t] \in Strategies[t] /\ needs'[t] \in Needs[t]
         /\ needs'[t] = "outputs" => Deps[t] # {}
    /\ permits' \in 1 .. MaxConcurrent
    /\ UNCHANGED repeats

(* The order it computed and the verdict are dropped. *)
Dropped == order' = << >> /\ verdict' = "none" /\ UNCHANGED <<degree, queue>>

Start ==
    /\ Before /\ verdict = "ok"
    /\ Read /\ Dropped
    /\ state' = "running"
    /\ UNCHANGED <<outcome, work, attempts, joining, results, checkpoint, recoveries>>

(* A graph that is not valid, or max_concurrent_tasks of zero. *)
Reject ==
    /\ Before /\ verdict # "none"
    /\ outcome' = IF verdict = "ok" THEN "invalid_config" ELSE "dag_invalid"
    /\ UNCHANGED <<workflow, state, work, attempts, joining, results, checkpoint, recoveries>>

BetweenRounds == state = "running" /\ outcome = "none" /\ joining = {}

ReadyTasks == Ready(Deps, completed)

(* t is the one of T that ready_tasks puts first. *)
First(t, T) == t \in T /\ \A u \in T : Rank[t] <= Rank[u]

(* A mapped input whose producer left no output fails the whole execution. *)
Unresolved(t) == needs[t] = "outputs" /\ ~(Deps[t] \subseteq outputs)
Refused(t) == Unresolved(t) \/ needs[t] = "executor"

Spawned(T) == [t \in Tasks |-> IF t \in T THEN "waiting" ELSE work[t]]

StartRound ==
    /\ BetweenRounds
    /\ ReadyTasks # {}
    /\ \A t \in ReadyTasks : ~Refused(t)
    /\ joining' = ReadyTasks
    /\ work' = Spawned(ReadyTasks)
    /\ UNCHANGED <<workflow, state, outcome, attempts, results, checkpoint, recoveries>>

(* The tasks before the refused one are spawned already, and state is not   *)
(* touched.                                                                 *)
AbandonRound ==
    /\ BetweenRounds
    /\ \E t \in ReadyTasks :
         /\ First(t, {u \in ReadyTasks : Refused(u)})
         /\ work' = Spawned({u \in ReadyTasks : Rank[u] < Rank[t]})
         /\ outcome' = IF Unresolved(t) THEN "input" ELSE "no_executor"
    /\ UNCHANGED <<workflow, state, attempts, joining, results, checkpoint, recoveries>>

Complete ==
    /\ BetweenRounds
    /\ ReadyTasks = {}
    /\ state' = "completed"
    /\ outcome' = "ok"
    /\ UNCHANGED <<workflow, work, attempts, joining, results, checkpoint, recoveries>>

-----------------------------------------------------------------------------
(* The spawned tasks.  A permit is held from the first attempt to the last, *)
(* the pauses between attempts included.                                    *)

(* Mutant: a failed task keeps its permit. *)
HoldingFailed == {t \in Tasks : work[t] \in {"running", "backoff", "failed"}}

Holding == {t \in Tasks : work[t] \in {"running", "backoff"}}

Become(t, from, to) ==
    /\ work[t] = from
    /\ work' = [work EXCEPT ![t] = to]
    /\ UNCHANGED <<workflow, state, outcome, joining, results, checkpoint, recoveries>>

Acquire(t) ==
    /\ Cardinality(Holding) < permits
    /\ Become(t, "waiting", "running")
    /\ attempts' = [attempts EXCEPT ![t] = 1]

(* good: an output with an acceptable artifact; bare: one without. *)
Finish(t) ==
    /\ \E result \in Done : Become(t, "running", result)
    /\ UNCHANGED attempts

(* Mutant: one attempt too many. *)
FailTransientLate(t) ==
    /\ Become(t, "running", IF attempts[t] <= MaxAttempts[t] THEN "backoff" ELSE "failed")
    /\ UNCHANGED attempts

FailTransient(t) ==
    /\ Become(t, "running", IF attempts[t] < MaxAttempts[t] THEN "backoff" ELSE "failed")
    /\ UNCHANGED attempts

Retry(t) ==
    /\ Become(t, "backoff", "running")
    /\ attempts' = [attempts EXCEPT ![t] = @ + 1]

-----------------------------------------------------------------------------
(* Awaiting the handles of the round. *)

(* Mutant: rigor is not enforced. *)
AcceptedAnyRigor(t) == work[t] \in {"good", "bare"}

Accepted(t) == work[t] = "good" \/ (work[t] = "bare" /\ Rigor = "light")

Panicked(t) ==
    /\ work[t] = "panicked"
    /\ outcome' = "panicked"
    /\ joining' = {}
    /\ UNCHANGED <<state, results, checkpoint>>

Fail(t) ==
    /\ ~Accepted(t) /\ work[t] # "panicked"
    /\ strategy[t] \in Fatal
    /\ state' = "failed"
    /\ outcome' = "task_failed"
    /\ joining' = {}
    /\ UNCHANGED <<results, checkpoint>>

(* Accepted, or failed where the failure does not end the workflow. *)
Settleable(t) ==
    \/ Accepted(t)
    \/ (work[t] # "panicked" /\ strategy[t] \notin Fatal)

(* An accepted output, an ignored failure and a failure continued over.     *)
Settle(t) ==
    /\ Settleable(t)
    /\ completed' = completed \cup {t}
    /\ IF Accepted(t) \/ strategy[t] = "ignore"
       THEN outputs' = outputs \cup {t} /\ step' = step + 1
       ELSE UNCHANGED <<outputs, step>>
    /\ artifacts' = IF work[t] = "good" THEN artifacts \cup {t} ELSE artifacts

(* The round's last handle is followed by the checkpoint. *)
Proceed(t) ==
    /\ joining' = joining \ {t}
    /\ checkpoint' = IF joining' = {} THEN [step |-> step', tasks |-> outputs']
                     ELSE checkpoint
    /\ UNCHANGED <<state, outcome>>

(* Mutant: whichever handle is done first. *)
JoinAnyOrder ==
    /\ \E t \in joining :
         /\ work[t] \in Done
         /\ \/ Panicked(t)
            \/ Fail(t)
            \/ Settle(t) /\ Proceed(t)
    /\ UNCHANGED <<workflow, work, attempts, recoveries>>

Join ==
    /\ \E t \in Tasks :
         /\ First(t, joining)
         /\ work[t] \in Done
         /\ \/ Panicked(t)
            \/ Fail(t)
            \/ Settle(t) /\ Proceed(t)
    /\ UNCHANGED <<workflow, work, attempts, recoveries>>

-----------------------------------------------------------------------------
(* Mutant: the restored tasks are not marked completed. *)
RecoverForgetting ==
    /\ outcome \notin {"ok", "dag_invalid", "invalid_config"}
    /\ recoveries < MaxRecoveries
    /\ recoveries' = recoveries + 1
    /\ state # "defined"
    /\ state' = "running" /\ outcome' = "none"
    /\ work' = [t \in Tasks |-> "none"]
    /\ attempts' = [t \in Tasks |-> 0]
    /\ joining' = {}
    /\ completed' = {} /\ outputs' = checkpoint.tasks
    /\ artifacts' = {}
    /\ step' = checkpoint.step
    /\ UNCHANGED <<workflow, checkpoint>>

(* A new executor recovers from the latest checkpoint and executes the      *)
(* workflow again; the tasks the old one left behind write to nothing it    *)
(* reads.                                                                   *)
Recover ==
    /\ outcome \notin {"ok", "dag_invalid", "invalid_config"}
    /\ recoveries < MaxRecoveries
    /\ recoveries' = recoveries + 1
    /\ state # "defined"
    /\ state' = "running" /\ outcome' = "none"
    /\ work' = [t \in Tasks |-> "none"]
    /\ attempts' = [t \in Tasks |-> 0]
    /\ joining' = {}
    /\ completed' = checkpoint.tasks /\ outputs' = checkpoint.tasks
    /\ artifacts' = {}
    /\ step' = checkpoint.step
    /\ UNCHANGED <<workflow, checkpoint>>

TaskStep(t) == Acquire(t) \/ Finish(t) \/ FailTransient(t) \/ Retry(t)

Drive == ValidateGraph \/ Start \/ Reject \/ StartRound \/ AbandonRound \/ Complete \/ Join

Next == Drive \/ Recover \/ \E t \in Tasks : TaskStep(t)

Spec == Init /\ [][Next]_vars

(* The runtime polls the caller and the tasks, and attempts end. *)
Fairness == WF_vars(Drive) /\ \A t \in Tasks : WF_vars(TaskStep(t))

FairSpec == Spec /\ Fairness

-----------------------------------------------------------------------------
(* Properties. *)

(* A task is spawned only when all that it depends on is settled, and it is *)
(* settled only after the task it spawned is done, in whatever order the    *)
(* tasks of a round finish; a checkpoint excuses the tasks it restores.     *)
DependencyOrder ==
    \A t \in Tasks :
      /\ work[t] # "none" => Deps[t] \subseteq completed
      /\ t \in completed => work[t] \in Done \/ t \in checkpoint.tasks

(* execute returns Ok only when every task is settled; then every task has  *)
(* an output unless it failed under ContinueOnError, and under deep rigor    *)
(* ("a node that completes without an acceptable artifact is failed",        *)
(* DSL_STANDARD.md) every output has an artifact unless the failure is       *)
(* ignored or the output was restored from a checkpoint.                     *)
OkMeansAll ==
    outcome = "ok" =>
      /\ completed = Tasks
      /\ \A t \in Tasks \ outputs : strategy[t] = "continue" /\ work[t] \in {"failed", "bare"}
      /\ Rigor = "deep" /\ recoveries = 0 =>
           \A t \in outputs : t \in artifacts \/ strategy[t] = "ignore"

(* Which failure ends the workflow does not depend on which task of the    *)
(* round finished first: it is the first in priority order.                 *)
FirstFailureReported ==
    outcome \in {"task_failed", "panicked"} =>
      \E t \in Tasks \ completed :
        /\ work[t] \in (IF outcome = "panicked" THEN {"panicked"} ELSE {"failed", "bare"})
        /\ \A u \in Tasks : Rank[u] < Rank[t] /\ work[u] # "none" => u \in completed

(* A task whose output a checkpoint committed is not executed again after   *)
(* recovery.                                                                *)
RestoredNotRerun ==
    [][ \A t \in Tasks : work[t] = "none" /\ work'[t] # "none" => t \notin checkpoint.tasks ]_vars

(* execute returns, whatever the tasks do: no schedule of permits, pauses   *)
(* and failures leaves the executor waiting for ever.                       *)
Terminates == <>[](outcome # "none")
=============================================================================
