------------------------- MODULE MCWorkflowExecutor -------------------------
(* An instance of WorkflowExecutor for TLC. *)
EXTENDS WorkflowExecutor, TLC

CONSTANTS t1, t2, t3, gone

ThreeTasks == {t1, t2, t3}
OneAbsent == {gone}
ByNumber == (t1 :> 1) @@ (t2 :> 2) @@ (t3 :> 3)
SomeStrategies == (t1 :> {"fail_fast", "continue"}) @@ (t2 :> {"retry", "continue", "ignore"})
                  @@ (t3 :> {"abort", "ignore"})
SomeNeeds == (t1 :> {"nothing", "outputs"}) @@ (t2 :> {"nothing", "outputs", "executor"})
             @@ (t3 :> {"nothing", "outputs"})
SecondRetries == (t1 :> 1) @@ (t2 :> 2) @@ (t3 :> 1)
=============================================================================
