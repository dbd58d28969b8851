----------------------- MODULE WorkflowExecutorProofs -----------------------
(***************************************************************************)
(* Proofs about WorkflowExecutor: for every finite workflow, whatever its  *)
(* graph, its strategies, its limits and the outcomes of its tasks, the    *)
(* executor settles tasks in dependency order, returns Ok only when all    *)
(* are settled, reports the first failure and does not run a restored task.*)
(*                                                                         *)
(* That Ok means all rests on the graph: the executor stops when nothing   *)
(* is ready, and in a graph that validate accepted something is ready      *)
(* until every task is settled (TopologicalOrderProofs).  The rest rests   *)
(* on the round: a task that was spawned and is not settled is still to be *)
(* awaited, until execute returns.                                         *)
(***************************************************************************)
EXTENDS WorkflowExecutor, TopologicalOrderProofs

(* What is known of the graph: while it is validated, and after.            *)
GraphInv ==
    /\ state = "defined" => SortInv /\ completed = {} /\ joining = {}
    /\ state # "defined" =>
         Orderable(Deps) /\ verdict = "none" /\ \A t \in Tasks : strategy[t] \in Strategies[t]

RoundInv ==
    /\ outcome # "none" => joining = {}
    /\ \A t \in joining : t \notin completed /\ work[t] # "none"
    /\ outcome = "none" => \A t \in Tasks \ completed : work[t] # "none" => t \in joining

SettledInv ==
    /\ checkpoint.tasks \subseteq outputs /\ outputs \subseteq completed
    /\ \A t \in completed \ outputs : strategy[t] = "continue" /\ work[t] \in {"failed", "bare"}
    /\ Rigor = "deep" /\ recoveries = 0 => \A t \in outputs : t \in artifacts \/ strategy[t] = "ignore"
    /\ outcome = "ok" => completed = Tasks

AttemptsLeft == \A t \in Tasks : work[t] = "backoff" => attempts[t] < MaxAttempts[t]

Inv ==
    /\ TypeOK /\ AttemptsLeft
    /\ GraphInv /\ RoundInv /\ DependencyOrder /\ SettledInv /\ FirstFailureReported

-----------------------------------------------------------------------------
\* A workflow that was not started satisfies the invariant.
LEMMA InvInit == Init => Inv
<1> SUFFICES ASSUME Init PROVE Inv
  OBVIOUS
<1>1. SortInv
  BY SortInit DEF Init
<1>2. TypeOK
  BY <1>1, ExecutorAssumption DEF Init, TypeOK, SortInv, Outcomes
<1>3. GraphInv
  BY <1>1 DEF Init, GraphInv
<1>4. RoundInv /\ SettledInv /\ DependencyOrder /\ AttemptsLeft /\ FirstFailureReported
  BY DEF Init, RoundInv, SettledInv, DependencyOrder, AttemptsLeft, FirstFailureReported
<1> QED
  BY <1>2, <1>3, <1>4 DEF Inv

\* The tasks ready to run are not settled, and what they depend on is.
LEMMA ReadyFacts ==
    /\ ReadyTasks \subseteq Tasks \ completed
    /\ \A t \in ReadyTasks : Deps[t] \subseteq completed
BY DEF ReadyTasks, Ready

\* The graph stays what it is outside validation.
LEMMA GraphKept == repeats' = repeats => Deps' = Deps
BY DEF Deps

\* Validating the graph keeps the invariant.
LEMMA ValidateGraphStep == Inv /\ ValidateGraph => Inv'
<1> SUFFICES ASSUME Inv, ValidateGraph PROVE Inv'
  OBVIOUS
<1> USE DEF Inv, ValidateGraph, Before
<1>1. SortInv'
  BY SortStep DEF GraphInv
<1>2. Deps' = Deps
  BY GraphKept DEF Validate, Refuse, Pop, Return
<1>3. TypeOK'
  BY <1>1 DEF TypeOK, SortInv, results
<1>4. GraphInv'
  BY <1>1 DEF GraphInv, results
<1>5. RoundInv' /\ AttemptsLeft' /\ FirstFailureReported'
  BY DEF RoundInv, AttemptsLeft, FirstFailureReported, results
<1>6. SettledInv' /\ DependencyOrder'
  BY <1>2 DEF SettledInv, DependencyOrder, results
<1> QED
  BY <1>3, <1>4, <1>5, <1>6

\* A workflow starts with nothing spawned and nothing settled, in a graph that can be ordered.
LEMMA StartStep == Inv /\ Start => Inv'
<1> SUFFICES ASSUME Inv, Start PROVE Inv'
  OBVIOUS
<1> USE DEF Inv, Start, Before, Read, Dropped
<1>1. Deps' = Deps
  BY GraphKept
<1>2. Orderable(Deps)
  BY AcceptedOrderable DEF GraphInv
<1>3. completed = {} /\ joining = {} /\ completed' = {} /\ joining' = {}
  BY DEF GraphInv, results
<1>4. TypeOK'
  <2>1. /\ repeats' = repeats /\ degree' = degree /\ queue' = queue
        /\ order' = << >> /\ order' \in Seq(Tasks) /\ verdict' = "none"
    OBVIOUS
  <2>2. OrderTypeOK
    BY DEF TypeOK
  <2>3. OrderTypeOK'
    BY <2>1, <2>2 DEF OrderTypeOK
  <2> QED
    BY <2>3, ExecutorAssumption DEF TypeOK, results
<1>5. GraphInv'
  BY <1>1, <1>2 DEF GraphInv
<1>6. RoundInv' /\ AttemptsLeft' /\ FirstFailureReported'
  BY <1>3 DEF RoundInv, AttemptsLeft, FirstFailureReported, results
<1>7. SettledInv' /\ DependencyOrder'
  BY <1>1, <1>3 DEF SettledInv, DependencyOrder, results
<1> QED
  BY <1>4, <1>5, <1>6, <1>7

\* A rejected workflow leaves nothing to await.
LEMMA RejectStep == Inv /\ Reject => Inv'
<1> SUFFICES ASSUME Inv, Reject PROVE Inv'
  OBVIOUS
<1> USE DEF Inv, Reject, Before, workflow, orderVars, sorting, results
<1>1. Deps' = Deps
  BY GraphKept
<1>2. TypeOK'
  BY DEF TypeOK, OrderTypeOK, Outcomes
<1>3. outcome' \in {"invalid_config", "dag_invalid"}
  OBVIOUS
<1>4. GraphInv'
  <2>1. SortInv'
    BY SortStep DEF GraphInv
  <2> QED
    BY <2>1 DEF GraphInv
<1>5. RoundInv' /\ AttemptsLeft'
  BY <1>3 DEF RoundInv, AttemptsLeft, GraphInv
<1>6. SettledInv' /\ DependencyOrder' /\ FirstFailureReported'
  BY <1>1, <1>3 DEF SettledInv, DependencyOrder, FirstFailureReported
<1> QED
  BY <1>2, <1>4, <1>5, <1>6

-----------------------------------------------------------------------------
(* The rounds. *)

\* Spawning ready tasks, the rest unchanged, keeps what is known of the settled ones.
LEMMA SpawnKeeps ==
    ASSUME Inv, BetweenRounds, NEW T \in SUBSET ReadyTasks, work' = Spawned(T),
           UNCHANGED <<workflow, state, attempts, results, checkpoint, recoveries>>,
           outcome' \in {"none", "input", "no_executor"}
    PROVE  /\ GraphInv' /\ DependencyOrder' /\ SettledInv' /\ AttemptsLeft' /\ FirstFailureReported'
           /\ work' \in [Tasks -> {"none"} \cup Active \cup Done]
           /\ \A t \in Tasks : work'[t] # "none" => t \in T \/ t \in completed
           /\ OrderTypeOK'
<1> USE DEF Inv, workflow, orderVars, sorting, results
<1>1. Deps' = Deps
  BY GraphKept
<1>2. /\ T \subseteq Tasks \ completed
      /\ \A t \in Tasks : work'[t] = IF t \in T THEN "waiting" ELSE work[t]
  BY ReadyFacts DEF Spawned
<1>3. GraphInv'
  BY <1>1 DEF GraphInv, BetweenRounds
<1>4. DependencyOrder'
  BY <1>1, <1>2, ReadyFacts DEF DependencyOrder
<1>5. SettledInv'
  BY <1>2 DEF SettledInv, TypeOK
<1>6. work' \in [Tasks -> {"none"} \cup Active \cup Done]
  BY DEF TypeOK, Spawned, Active
<1>7. \A t \in Tasks : work'[t] # "none" => t \in T \/ t \in completed
  BY <1>2 DEF RoundInv, BetweenRounds
<1>8. AttemptsLeft' /\ FirstFailureReported' /\ OrderTypeOK'
  BY <1>2 DEF AttemptsLeft, FirstFailureReported, TypeOK, OrderTypeOK
<1> QED
  BY <1>3, <1>4, <1>5, <1>6, <1>7, <1>8

\* A round awaits all the tasks it spawns.
LEMMA StartRoundStep == Inv /\ StartRound => Inv'
<1> SUFFICES ASSUME Inv, StartRound PROVE Inv'
  OBVIOUS
<1> USE DEF Inv, StartRound
<1>1. outcome = "none" /\ outcome' = "none"
  BY DEF BetweenRounds
<1>2. /\ GraphInv' /\ DependencyOrder' /\ SettledInv' /\ AttemptsLeft' /\ FirstFailureReported'
      /\ work' \in [Tasks -> {"none"} \cup Active \cup Done]
      /\ \A t \in Tasks : work'[t] # "none" => t \in ReadyTasks \/ t \in completed
      /\ OrderTypeOK'
  BY <1>1, SpawnKeeps
<1>3. TypeOK'
  BY <1>2, ReadyFacts DEF TypeOK, workflow, results
<1>4. RoundInv'
  BY <1>1, <1>2, ReadyFacts DEF RoundInv, Spawned, results
<1> QED
  BY <1>2, <1>3, <1>4

\* A round that is abandoned returns, whatever it spawned.
LEMMA AbandonRoundStep == Inv /\ AbandonRound => Inv'
<1> SUFFICES ASSUME Inv, AbandonRound PROVE Inv'
  OBVIOUS
<1> USE DEF Inv, AbandonRound
<1>1. PICK t \in ReadyTasks :
        /\ work' = Spawned({u \in ReadyTasks : Rank[u] < Rank[t]})
        /\ outcome' = IF Unresolved(t) THEN "input" ELSE "no_executor"
  OBVIOUS
<1>2. outcome' \in {"input", "no_executor"} /\ joining = {} /\ joining' = {}
  BY <1>1 DEF BetweenRounds
<1>3. /\ GraphInv' /\ DependencyOrder' /\ SettledInv' /\ AttemptsLeft' /\ FirstFailureReported'
      /\ work' \in [Tasks -> {"none"} \cup Active \cup Done]
      /\ OrderTypeOK'
  BY <1>1, <1>2, SpawnKeeps
<1>4. TypeOK'
  BY <1>2, <1>3 DEF TypeOK, workflow, results, Outcomes
<1>5. RoundInv'
  BY <1>2 DEF RoundInv
<1> QED
  BY <1>3, <1>4, <1>5

\* Nothing is ready only when every task is settled.
LEMMA CompleteStep == Inv /\ Complete => Inv'
<1> SUFFICES ASSUME Inv, Complete PROVE Inv'
  OBVIOUS
<1> USE DEF Inv, Complete, BetweenRounds, workflow, orderVars, sorting, results
<1>1. Deps' = Deps
  BY GraphKept
<1>2. completed = Tasks
  <2>1. Orderable(Deps) /\ completed \in SUBSET Tasks
    BY DEF GraphInv, TypeOK
  <2> SUFFICES ASSUME completed # Tasks PROVE FALSE
    OBVIOUS
  <2>2. PICK t \in Tasks \ completed : Deps[t] \subseteq completed
    BY <2>1, DepsType, OrderedProgress
  <2> QED
    BY <2>2 DEF ReadyTasks, Ready
<1>3. TypeOK'
  BY DEF TypeOK, OrderTypeOK, Outcomes
<1>4. GraphInv'
  BY <1>1 DEF GraphInv
<1>5. RoundInv' /\ AttemptsLeft' /\ FirstFailureReported'
  BY DEF RoundInv, AttemptsLeft, FirstFailureReported
<1>6. SettledInv' /\ DependencyOrder'
  BY <1>1, <1>2 DEF SettledInv, DependencyOrder
<1> QED
  BY <1>3, <1>4, <1>5, <1>6

-----------------------------------------------------------------------------
(* The spawned tasks. *)

\* A task that moves on stays spawned, and a task that is done stays as it is.
LEMMA BecomeKeeps ==
    ASSUME Inv, NEW t \in Tasks, NEW to, work[t] \in Active, to \in Active \cup Done,
           work' = [work EXCEPT ![t] = to],
           UNCHANGED <<workflow, state, outcome, joining, results, checkpoint, recoveries>>
    PROVE  /\ GraphInv' /\ RoundInv' /\ DependencyOrder' /\ SettledInv' /\ FirstFailureReported'
           /\ (\A u \in Tasks : attempts'[u] \in 0 .. MaxAttempts[u]) => TypeOK'
<1> USE DEF Inv, workflow, orderVars, sorting, results
<1>1. Deps' = Deps
  BY GraphKept
<1>2. \A u \in Tasks : work'[u] = IF u = t THEN to ELSE work[u]
  BY DEF TypeOK
<1>3. work[t] \notin Done /\ work[t] # "none" /\ to # "none"
  BY DEF Active, Done
<1>4. t \notin completed \/ t \in checkpoint.tasks
  BY <1>3 DEF DependencyOrder
<1>5. GraphInv'
  <2>1. SortInv => SortInv'
    BY SortStep
  <2> QED
    BY <1>1, <2>1 DEF GraphInv
<1>6. RoundInv'
  BY <1>2, <1>3 DEF RoundInv, TypeOK
<1>7. DependencyOrder'
  BY <1>1, <1>2, <1>3, <1>4 DEF DependencyOrder
<1>8. SettledInv'
  BY <1>2, <1>3, <1>4 DEF SettledInv, Done, TypeOK
<1>9. FirstFailureReported'
  BY <1>2, <1>3 DEF FirstFailureReported, Done
<1>10. (\A u \in Tasks : attempts'[u] \in 0 .. MaxAttempts[u]) => TypeOK'
  BY DEF TypeOK, OrderTypeOK
<1> QED
  BY <1>5, <1>6, <1>7, <1>8, <1>9, <1>10

\* No task makes more attempts than it may.
LEMMA TaskSteps == Inv /\ (\E t \in Tasks : TaskStep(t)) => Inv'
<1> SUFFICES ASSUME Inv, NEW t \in Tasks, TaskStep(t) PROVE Inv'
  OBVIOUS
<1> DEFINE Moved(to) ==
             /\ work' = [work EXCEPT ![t] = to] /\ to \in Active \cup Done /\ work[t] \in Active
             /\ UNCHANGED <<workflow, state, outcome, joining, results, checkpoint, recoveries>>
<1>1. /\ \A u \in Tasks : MaxAttempts[u] \in Nat \ {0} /\ attempts[u] \in 0 .. MaxAttempts[u]
      /\ work \in [Tasks -> {"none"} \cup Active \cup Done]
      /\ \A u \in Tasks : work[u] = "backoff" => attempts[u] < MaxAttempts[u]
  BY ExecutorAssumption DEF Inv, TypeOK, AttemptsLeft
<1>2. ASSUME NEW to, Moved(to), \A u \in Tasks : attempts'[u] \in 0 .. MaxAttempts[u],
             \A u \in Tasks : work'[u] = "backoff" => attempts'[u] < MaxAttempts[u]
      PROVE  Inv'
  BY <1>2, BecomeKeeps DEF Inv, AttemptsLeft
<1>3. CASE Acquire(t)
  <2>1. Moved("running") /\ attempts' = [attempts EXCEPT ![t] = 1]
    BY <1>3 DEF Acquire, Become, Active
  <2>2. \A u \in Tasks : attempts'[u] \in 0 .. MaxAttempts[u]
    BY <1>1, <2>1
  <2>3. \A u \in Tasks : work'[u] = "backoff" => attempts'[u] < MaxAttempts[u]
    BY <1>1, <2>1
  <2> QED
    BY <1>2, <2>1, <2>2, <2>3
<1>4. CASE Finish(t)
  <2>1. PICK result \in Done : Moved(result) /\ attempts' = attempts
    BY <1>4 DEF Finish, Become, Active
  <2>2. \A u \in Tasks : work'[u] = "backoff" => attempts'[u] < MaxAttempts[u]
    BY <1>1, <2>1 DEF Done
  <2> QED
    BY <1>1, <1>2, <2>1, <2>2
<1>5. CASE FailTransient(t)
  <2> DEFINE to == IF attempts[t] < MaxAttempts[t] THEN "backoff" ELSE "failed"
  <2>1. Moved(to) /\ attempts' = attempts
    BY <1>5 DEF FailTransient, Become, Active, Done
  <2>2. \A u \in Tasks : work'[u] = "backoff" => attempts'[u] < MaxAttempts[u]
    BY <1>1, <2>1
  <2> QED
    BY <1>1, <1>2, <2>1, <2>2
<1>6. CASE Retry(t)
  <2>1. Moved("running") /\ work[t] = "backoff" /\ attempts' = [attempts EXCEPT ![t] = @ + 1]
    BY <1>6 DEF Retry, Become, Active
  <2>2. \A u \in Tasks : attempts'[u] \in 0 .. MaxAttempts[u]
    BY <1>1, <2>1
  <2>3. \A u \in Tasks : work'[u] = "backoff" => attempts'[u] < MaxAttempts[u]
    BY <1>1, <2>1
  <2> QED
    BY <1>2, <2>1, <2>2, <2>3
<1> QED
  BY <1>3, <1>4, <1>5, <1>6 DEF TaskStep

-----------------------------------------------------------------------------
(* Awaiting the handles. *)

\* Every way a handle is awaited keeps the invariant.
LEMMA JoinStep == Inv /\ Join => Inv'
<1> SUFFICES ASSUME Inv, Join PROVE Inv'
  OBVIOUS
<1> USE DEF Inv, workflow, orderVars, sorting, results
<1>1. PICK t \in Tasks :
        /\ First(t, joining) /\ work[t] \in Done
        /\ Panicked(t) \/ Fail(t) \/ (Settle(t) /\ Proceed(t))
  BY DEF Join
<1>2. UNCHANGED <<workflow, work, attempts, recoveries>>
  BY DEF Join
<1>3. Deps' = Deps
  BY <1>2, GraphKept
<1>4. /\ t \in joining /\ t \notin completed /\ outcome = "none" /\ state # "defined"
      /\ joining \subseteq Tasks
  BY <1>1 DEF First, RoundInv, GraphInv, TypeOK
<1>5. \A u \in Tasks : Rank[u] < Rank[t] /\ work[u] # "none" => u \in completed
  BY <1>1, <1>4, ExecutorAssumption DEF First, RoundInv
<1>6. AttemptsLeft'
  BY <1>2 DEF AttemptsLeft
<1>7. OrderTypeOK'
  BY <1>2 DEF TypeOK, OrderTypeOK
<1>8. CASE Panicked(t)
  <2> USE DEF Panicked
  <2>1. TypeOK'
    BY <1>2, <1>7, <1>8 DEF TypeOK, Outcomes
  <2>2. GraphInv' /\ RoundInv'
    BY <1>2, <1>3, <1>4, <1>8 DEF GraphInv, RoundInv
  <2>3. DependencyOrder' /\ SettledInv'
    BY <1>2, <1>3, <1>8 DEF DependencyOrder, SettledInv
  <2>4. FirstFailureReported'
    BY <1>2, <1>4, <1>5, <1>8 DEF FirstFailureReported
  <2> QED
    BY <1>6, <2>1, <2>2, <2>3, <2>4
<1>9. CASE Fail(t)
  <2> USE DEF Fail
  <2>1. TypeOK'
    BY <1>2, <1>7, <1>9 DEF TypeOK, Outcomes
  <2>2. GraphInv' /\ RoundInv'
    BY <1>2, <1>3, <1>4, <1>9 DEF GraphInv, RoundInv
  <2>3. DependencyOrder' /\ SettledInv'
    BY <1>2, <1>3, <1>9 DEF DependencyOrder, SettledInv
  <2>4. work[t] \in {"failed", "bare"}
    BY <1>1, <1>9 DEF Accepted, Done
  <2>5. FirstFailureReported'
    BY <1>2, <1>4, <1>5, <1>9, <2>4 DEF FirstFailureReported
  <2> QED
    BY <1>6, <2>1, <2>2, <2>3, <2>5
<1>10. CASE Settle(t) /\ Proceed(t)
  <2>1. /\ completed' = completed \cup {t} /\ joining' = joining \ {t}
        /\ UNCHANGED <<state, outcome>>
        /\ checkpoint' = checkpoint \/ checkpoint' = [step |-> step', tasks |-> outputs']
    BY <1>10 DEF Settle, Proceed
  <2>2. \/ outputs' = outputs \cup {t} /\ step' = step + 1 /\ (Accepted(t) \/ strategy[t] = "ignore")
        \/ /\ outputs' = outputs /\ step' = step
           /\ strategy[t] = "continue" /\ work[t] \in {"failed", "bare"}
    <3>1. strategy[t] \in {"fail_fast", "retry", "abort", "continue", "ignore"}
      BY <1>4, ExecutorAssumption DEF GraphInv
    <3> QED
      BY <1>1, <1>10, <3>1 DEF Settle, Settleable, Accepted, Fatal, Done
  <2>3. /\ artifacts \subseteq artifacts' /\ artifacts' \subseteq Tasks
        /\ Rigor = "deep" /\ Accepted(t) => t \in artifacts'
    BY <1>10 DEF Settle, Accepted, TypeOK
  <2>4. outputs \subseteq outputs' /\ outputs' \subseteq outputs \cup {t} /\ outputs' \subseteq completed'
    BY <2>1, <2>2 DEF SettledInv
  <2>5. TypeOK'
    <3>1. step' \in Nat /\ outputs' \subseteq Tasks /\ completed' \subseteq Tasks /\ joining' \subseteq Tasks
      BY <2>1, <2>2 DEF TypeOK
    <3>2. checkpoint' \in [step : Nat, tasks : SUBSET Tasks]
      BY <2>1, <3>1 DEF TypeOK
    <3> QED
      BY <1>2, <1>7, <2>1, <2>3, <3>1, <3>2 DEF TypeOK
  <2>6. GraphInv' /\ RoundInv'
    BY <1>2, <1>3, <1>4, <2>1 DEF GraphInv, RoundInv
  <2>7. checkpoint.tasks \subseteq checkpoint'.tasks /\ checkpoint'.tasks \subseteq outputs'
    BY <2>1, <2>4 DEF SettledInv
  <2>8. DependencyOrder'
    BY <1>1, <1>2, <1>3, <2>1, <2>7 DEF DependencyOrder
  <2>9. SettledInv'
    <3>1. \A u \in completed' \ outputs' : strategy[u] = "continue" /\ work[u] \in {"failed", "bare"}
      BY <2>1, <2>2, <2>4 DEF SettledInv
    <3>2. Rigor = "deep" /\ recoveries = 0 =>
            \A u \in outputs' : u \in artifacts' \/ strategy[u] = "ignore"
      BY <2>2, <2>3 DEF SettledInv
    <3> QED
      BY <1>2, <1>4, <2>1, <2>4, <2>7, <3>1, <3>2 DEF SettledInv
  <2>10. FirstFailureReported'
    BY <1>4, <2>1 DEF FirstFailureReported
  <2> QED
    BY <1>6, <2>5, <2>6, <2>8, <2>9, <2>10
<1> QED
  BY <1>1, <1>8, <1>9, <1>10

\* Recovery starts from what the checkpoint holds, all of it settled.
LEMMA RecoverStep == Inv /\ Recover => Inv'
<1> SUFFICES ASSUME Inv, Recover PROVE Inv'
  OBVIOUS
<1> USE DEF Inv, Recover, workflow, orderVars, sorting, results
<1>1. Deps' = Deps
  BY GraphKept
<1>2. checkpoint.tasks \subseteq Tasks /\ checkpoint.step \in Nat /\ recoveries' \in 1 .. MaxRecoveries
  BY ExecutorAssumption DEF TypeOK
<1>3. TypeOK'
  <2>1. OrderTypeOK'
    BY DEF TypeOK, OrderTypeOK
  <2>2. work' \in [Tasks -> {"none"} \cup Active \cup Done]
    OBVIOUS
  <2>3. \A t \in Tasks : attempts'[t] \in 0 .. MaxAttempts[t]
    BY ExecutorAssumption
  <2>4. \A t \in Tasks : /\ strategy'[t] \in Strategies[t] \cup {"unread"}
                         /\ needs'[t] \in Needs[t] \cup {"unread"}
    BY DEF TypeOK
  <2>5. recoveries' \in 0 .. MaxRecoveries
    BY <1>2, ExecutorAssumption
  <2> QED
    BY <1>2, <2>1, <2>2, <2>3, <2>4, <2>5 DEF TypeOK, Outcomes
<1>4. GraphInv'
  BY <1>1 DEF GraphInv
<1>5. RoundInv' /\ AttemptsLeft' /\ FirstFailureReported'
  BY DEF RoundInv, AttemptsLeft, FirstFailureReported
<1>6. DependencyOrder'
  BY DEF DependencyOrder
<1>7. SettledInv'
  BY <1>2 DEF SettledInv
<1> QED
  BY <1>3, <1>4, <1>5, <1>6, <1>7

-----------------------------------------------------------------------------
(* The theorems. *)

\* Every step of the executor and of its tasks keeps the invariant.
LEMMA InvStep == Inv /\ [Next]_vars => Inv'
<1> SUFFICES ASSUME Inv, [Next]_vars PROVE Inv'
  OBVIOUS
<1>1. CASE Next
  BY <1>1, ValidateGraphStep, StartStep, RejectStep, StartRoundStep, AbandonRoundStep, CompleteStep,
     JoinStep, RecoverStep, TaskSteps DEF Next, Drive
<1>2. CASE UNCHANGED vars
  <2> USE DEF vars, workflow, orderVars, sorting, results
  <2>1. Deps' = Deps
    BY <1>2, GraphKept
  <2>2. TypeOK'
    BY <1>2 DEF Inv, TypeOK, OrderTypeOK
  <2>3. SortInv => SortInv'
    BY <1>2, SortStep
  <2>4. GraphInv'
    BY <1>2, <2>1, <2>3 DEF Inv, GraphInv
  <2>5. RoundInv' /\ AttemptsLeft' /\ FirstFailureReported'
    BY <1>2 DEF Inv, RoundInv, AttemptsLeft, FirstFailureReported
  <2>6. DependencyOrder' /\ SettledInv'
    BY <1>2, <2>1 DEF Inv, DependencyOrder, SettledInv
  <2> QED
    BY <2>2, <2>4, <2>5, <2>6 DEF Inv
<1> QED
  BY <1>1, <1>2

\* The invariant holds throughout an execution.
LEMMA Invariance == Spec => []Inv
BY InvInit, InvStep, PTL DEF Spec

\* The executor keeps its types: no task makes more attempts than its retry policy allows, and
\* no more is awaited than the workflow has tasks.
THEOREM TypeCorrect == Spec => []TypeOK
BY Invariance, PTL DEF Inv

\* A task is spawned only after all that it depends on is settled, and settled only after it
\* is done, in every graph and under every order in which tasks finish.
THEOREM DependencyOrderCorrect == Spec => []DependencyOrder
BY Invariance, PTL DEF Inv

\* execute returns Ok only when every task of the graph is settled: no accepted graph lets the
\* rounds end early.
THEOREM OkMeansAllCorrect == Spec => []OkMeansAll
<1>1. Inv => OkMeansAll
  BY DEF Inv, OkMeansAll, SettledInv
<1> QED
  BY <1>1, Invariance, PTL

\* The failure execute reports is the first of its round in the order of ready_tasks, whatever
\* the order in which the tasks end.
THEOREM FirstFailureCorrect == Spec => []FirstFailureReported
BY Invariance, PTL DEF Inv

\* What a checkpoint committed is not spawned again.
THEOREM RestoredNotRerunCorrect == Spec => RestoredNotRerun
<1> DEFINE Kept == \A t \in Tasks : work[t] = "none" /\ work'[t] # "none" => t \notin checkpoint.tasks
<1>1. Inv /\ [Next]_vars => [Kept]_vars
  <2> SUFFICES ASSUME Inv, Next PROVE Kept
    OBVIOUS
  <2>1. checkpoint.tasks \subseteq completed /\ ReadyTasks \cap completed = {}
    BY ReadyFacts DEF Inv, SettledInv
  <2>2. CASE StartRound \/ AbandonRound
    BY <2>1, <2>2, ReadyFacts DEF StartRound, AbandonRound, Spawned
  <2>3. CASE Recover
    BY <2>3 DEF Recover
  <2>4. ASSUME NEW t \in Tasks, TaskStep(t) PROVE Kept
    BY <2>4 DEF TaskStep, Acquire, Finish, FailTransient, Retry, Become, Inv, TypeOK
  <2>5. CASE ValidateGraph \/ Start \/ Reject \/ Complete \/ Join
    BY <2>5 DEF ValidateGraph, Start, Reject, Complete, Join
  <2> QED
    BY <2>2, <2>3, <2>4, <2>5 DEF Next, Drive
<1> QED
  BY <1>1, Invariance, PTL DEF Spec, RestoredNotRerun
=============================================================================
