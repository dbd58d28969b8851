-------------------------- MODULE AgentDelegation --------------------------
(***************************************************************************)
(* Agent runs and the delegations between them (y-agent pool; y-service    *)
(* agent_service, task_delegation_orchestrator, agent_swarm_orchestrator),  *)
(* over the provider pool. A run loops: ask a model, execute the tools it   *)
(* names, ask again, until a final answer, an error, its iteration limit or *)
(* its turn's cancellation. A Task or AgentSwarm tool delegates to child    *)
(* runs, and so does the compaction of a history that has grown too long.   *)
(* Every delegated run holds a permit of the agent pool from before it      *)
(* begins until it has ended, while it waits for its own children too.      *)
(***************************************************************************)
EXTENDS ProviderPool, SequencesExt

CONSTANTS
    ChildrenOf,       \* [Callers -> Seq(Callers)]: whom a run may delegate to, in order
    Turns,            \* the runs a user starts; they need no permit
    MaxAgents,        \* max_concurrent_agents
    PerDelegation,    \* max_agents_per_delegation
    MaxIterations     \* [Callers -> Nat \ {0}]

Children(r) == ToSet(ChildrenOf[r])
Roots == Callers \ UNION {Children(r) : r \in Callers}

(* The turn a run belongs to, and that its cancellation is for.  A root     *)
(* that is not a turn (a workflow's agent) has no cancellation token.       *)
Family == [t \in Turns |->
    LET Of[n \in Nat] == IF n = 0 THEN {t}
                         ELSE Of[n - 1] \cup UNION {Children(r) : r \in Of[n - 1]}
    IN  Of[Cardinality(Callers)]]

ASSUME AgentAssumption ==
    /\ ChildrenOf \in [Callers -> Seq(Callers)]
    /\ \A r \in Callers : IsInjective(ChildrenOf[r])
    /\ Turns \subseteq Roots
    /\ MaxAgents \in Nat \ {0} /\ PerDelegation \in Nat \ {0}
    /\ MaxIterations \in [Callers -> Nat \ {0}]

VARIABLES
    run,         \* the phase of each run and what it is at
    batch,       \* the delegation each run awaits: its items and their results
    permits,     \* free permits of the agent pool
    tracked,     \* delegations in the DelegationTracker
    cancelled    \* turns whose token is cancelled

agentVars == <<run, batch, permits, tracked, cancelled>>
vars == <<poolVars, agentVars>>

Outcomes == {"ok", "failed", "cancelled"}
Results  == {"completed", "failed", "aborted", "not_started"}

(* "tool" awaits a tool's delegation, "compact" that of the summarizer.     *)
NewRun == [phase |-> "idle", iteration |-> 0, fresh |-> TRUE, again |-> FALSE]
NoBatch == [items |-> <<>>, admitted |-> 0, swarm |-> FALSE, results |-> <<>>]

Phases == {"idle", "queued", "waiting", "looping", "preflight", "asking", "tool", "compact"}
              \cup Outcomes

TypeOK ==
    /\ PoolTypeOK
    /\ run \in [Callers -> [phase : Phases, iteration : Nat, fresh : BOOLEAN, again : BOOLEAN]]
    /\ \A r \in Callers :
          /\ ToSet(batch[r].items) \subseteq Children(r)
          /\ batch[r].admitted \in 0..Len(batch[r].items)
          /\ DOMAIN batch[r].results = ToSet(batch[r].items)
          /\ \A c \in DOMAIN batch[r].results : batch[r].results[c] \in Results \cup {"none"}
    /\ permits \in 0..MaxAgents
    /\ tracked \in SUBSET Callers
    /\ cancelled \in SUBSET Turns

Init ==
    /\ PoolInit
    /\ run = [r \in Callers |-> NewRun]
    /\ batch = [r \in Callers |-> NoBatch]
    /\ permits = MaxAgents
    /\ tracked = {}
    /\ cancelled = {}

TurnCancelled(r) == \E t \in cancelled : r \in Family[t]

(* The token of a run is cancelled.  A Task or AgentSwarm hands the token   *)
(* on, to all that its runs delegate; a compaction of the turn itself does  *)
(* not, and the summarizer it waits for has none.                           *)
Cancelled(r) == \E t \in cancelled : r \in Family[t] /\ (r = t \/ run[t].phase # "compact")

Delegated(r)  == r \notin Turns
Running(r)    == run[r].phase \notin {"idle", "queued", "waiting"} \cup Outcomes
Move(r, phase) == run' = [run EXCEPT ![r].phase = phase]

------------------------------------------------------------------------------
(* Whatever ends after the cancellation counts as aborted.                  *)
ResultOfCancelled(q, outcome) ==
    CASE batch[q].swarm /\ Cancelled(q)   -> "aborted"
      [] OTHER -> IF outcome = "ok" THEN "completed" ELSE "failed"

(* A run ends: a delegated one gives its permit back, and its result is     *)
(* seen by the run that awaits it. An error after cancellation counts as    *)
(* aborted, in a swarm.                                                     *)
ResultOf(q, outcome) ==
    IF outcome = "ok" THEN "completed"
    ELSE IF batch[q].swarm /\ Cancelled(q) THEN "aborted" ELSE "failed"

End(r, outcome) ==
    /\ Move(r, outcome)
    /\ permits' = IF Delegated(r) THEN permits + 1 ELSE permits
    /\ tracked' = tracked \ {r}
    /\ batch' = [q \in Callers |->
          IF r \in DOMAIN batch[q].results
          THEN [batch[q] EXCEPT !.results[r] = ResultOf(q, outcome)] ELSE batch[q]]

(* A user starts a turn, or a workflow delegates to an agent.               *)
Begin(r) ==
    /\ r \in Roots /\ run[r].phase = "idle"
    /\ Move(r, IF Delegated(r) THEN "waiting" ELSE "looping")
    /\ UNCHANGED <<poolVars, batch, permits, tracked, cancelled>>

(* The last permit is kept back.                                            *)
AcquireReserving(r) ==
    /\ run[r].phase = "waiting" /\ permits > 1
    /\ permits' = permits - 1
    /\ tracked' = tracked \cup {r}
    /\ Move(r, "looping")
    /\ UNCHANGED <<poolVars, batch, cancelled>>

(* delegate: nothing interrupts the wait for a permit.                      *)
Acquire(r) ==
    /\ run[r].phase = "waiting" /\ permits > 0
    /\ permits' = permits - 1
    /\ tracked' = tracked \cup {r}
    /\ Move(r, "looping")
    /\ UNCHANGED <<poolVars, batch, cancelled>>

(* The child session or its workspace cannot be made.                       *)
FailToStart(r) ==
    /\ Delegated(r) /\ run[r].phase = "looping" /\ run[r].iteration = 0
    /\ End(r, "failed")
    /\ UNCHANGED <<poolVars, cancelled>>

(* The top of the loop.                                                     *)
Iterate(r) ==
    /\ run[r].phase = "looping"
    /\ CASE Cancelled(r) -> End(r, "cancelled")
         [] ~Cancelled(r) /\ run[r].iteration = MaxIterations[r] -> End(r, "failed")
         [] OTHER -> /\ run' = [run EXCEPT ![r].phase = "preflight", ![r].iteration = @ + 1,
                                           ![r].again = FALSE]
                     /\ UNCHANGED <<batch, permits, tracked>>
    /\ UNCHANGED <<poolVars, cancelled>>

AskModel(r) ==
    /\ Ask(r, run[r].fresh)
    /\ UNCHANGED <<freeze, global, free, active, errors, dropped>>

(* The children of r are used in their order: the next are the i-th to n-th. *)
NextUnused(r, i, n) ==
    i <= n /\ \A k \in 1..n : run[ChildrenOf[r][k]].phase = "idle" <=> k >= i

Delegate(r, items, swarm, phase, again) ==
    /\ batch' = [batch EXCEPT ![r] =
          [items |-> items, admitted |-> 0, swarm |-> swarm,
           results |-> [c \in ToSet(items) |-> "none"]]]
    /\ run' = [q \in Callers |->
          CASE q = r             -> [run[r] EXCEPT !.phase = phase, !.again = again]
            [] q \in ToSet(items) -> [run[q] EXCEPT !.phase = "queued"]
            [] OTHER             -> run[q]]

Summarize(r, again) ==
    \E i \in DOMAIN ChildrenOf[r] :
       NextUnused(r, i, i) /\ Delegate(r, <<ChildrenOf[r][i]>>, FALSE, "compact", again)

(* A history near the context window is compacted first, by an agent.       *)
Preflight(r) ==
    /\ run[r].phase = "preflight"
    /\ \/ AskModel(r) /\ Move(r, "asking") /\ UNCHANGED batch
       \/ Summarize(r, FALSE) /\ UNCHANGED poolVars
    /\ UNCHANGED <<permits, tracked, cancelled>>

Hear(r, phase) ==
    /\ run[r].phase = "asking" /\ call[r].phase = phase
    /\ call' = [call EXCEPT ![r] = NoCall]
    /\ UNCHANGED <<freeze, global, free, active, errors, dropped, cancelled>>

(* The response names tools: some delegate, one child at a time or several. *)
UseTools(r) ==
    /\ Hear(r, "answered")
    /\ \/ run' = [run EXCEPT ![r].phase = "looping", ![r].fresh = FALSE] /\ UNCHANGED batch
       \/ \E i, n \in DOMAIN ChildrenOf[r], swarm \in BOOLEAN :
             NextUnused(r, i, n) /\ Delegate(r, SubSeq(ChildrenOf[r], i, n), swarm, "tool", FALSE)
    /\ UNCHANGED <<permits, tracked>>

(* Or it is final; the empty answer of a delegated run is a failure.        *)
Finish(r) ==
    /\ Hear(r, "answered")
    /\ \/ End(r, "ok")
       \/ Delegated(r) /\ End(r, "failed")

(* A context overflow is answered once with an emergency compaction.        *)
ModelFails(r) ==
    /\ Hear(r, "failed")
    /\ \/ End(r, "failed")
       \/ /\ call[r].error = "request" /\ ~run[r].again /\ ~Cancelled(r)
          /\ Summarize(r, TRUE)
          /\ UNCHANGED <<permits, tracked>>

ModelCancelled(r) == Hear(r, "cancelled") /\ End(r, "cancelled")

Settled(r) == \A i \in 1..batch[r].admitted : batch[r].results[batch[r].items[i]] # "none"

(* The next chunk of a swarm, the next Task of a response: not once the     *)
(* token is cancelled.                                                      *)
Admit(r) ==
    LET b     == batch[r]
        next  == IF b.swarm THEN IF b.admitted + PerDelegation < Len(b.items)
                                 THEN b.admitted + PerDelegation ELSE Len(b.items)
                            ELSE b.admitted + 1
        chunk == {b.items[i] : i \in (b.admitted + 1)..next}
    IN  /\ run[r].phase \in {"tool", "compact"} /\ Settled(r) /\ b.admitted < Len(b.items)
        /\ IF run[r].phase = "tool" /\ Cancelled(r)
           THEN /\ batch' = [batch EXCEPT ![r].admitted = next,
                     ![r].results = [c \in DOMAIN @ |-> IF c \in chunk THEN "not_started" ELSE @[c]]]
                /\ UNCHANGED run
           ELSE /\ batch' = [batch EXCEPT ![r].admitted = next]
                /\ run' = [q \in Callers |->
                     IF q \in chunk THEN [run[q] EXCEPT !.phase = "waiting"] ELSE run[q]]
        /\ UNCHANGED <<poolVars, permits, tracked, cancelled>>

Over(r) == Settled(r) /\ batch[r].admitted = Len(batch[r].items)

(* Every item has its result: they go back to the model.                    *)
GatherTools(r) ==
    /\ run[r].phase = "tool" /\ Over(r)
    /\ run' = [run EXCEPT ![r].phase = "looping", ![r].fresh = FALSE]
    /\ UNCHANGED <<poolVars, batch, permits, tracked, cancelled>>

(* A failed preflight compaction is ignored; a failed emergency one ends it. *)
Compacted(r) ==
    /\ run[r].phase = "compact" /\ Over(r)
    /\ \/ /\ run[r].again /\ End(r, "failed")
          /\ UNCHANGED poolVars
       \/ /\ run[r].again => "completed" \in Range(batch[r].results)
          /\ AskModel(r) /\ Move(r, "asking")
          /\ UNCHANGED <<batch, permits, tracked>>
    /\ UNCHANGED cancelled

CancelTurn(t) ==
    /\ t \notin cancelled /\ Running(t)
    /\ cancelled' = cancelled \cup {t}
    /\ UNCHANGED <<poolVars, run, batch, permits, tracked>>

(* The call of a run, in the provider pool.                                 *)
Calls(r) == Converse(r) /\ UNCHANGED agentVars
Fails(r) == Fail(r) /\ UNCHANGED agentVars
CancelsCall(r) == Cancelled(r) /\ CancelCall(r) /\ UNCHANGED agentVars

Proceed == \E r \in Callers :
    \/ Acquire(r) \/ Iterate(r) \/ Preflight(r) \/ UseTools(r) \/ Finish(r) \/ ModelFails(r)
    \/ ModelCancelled(r) \/ Admit(r) \/ GatherTools(r) \/ Compacted(r)
    \/ Calls(r) \/ CancelsCall(r)

Next ==
    \/ Proceed
    \/ \E r \in Callers : Begin(r) \/ FailToStart(r) \/ Fails(r)
    \/ \E t \in Turns : CancelTurn(t)
    \/ \E p \in Providers : (Expire(p) \/ CheckAndThaw(p)) /\ UNCHANGED agentVars

Spec == Init /\ [][Next]_vars

(* Runs are tasks the runtime polls, and a request answers or times out.    *)
FairSpec == Spec /\ WF_vars(Proceed)

------------------------------------------------------------------------------
(* Permits, tracker and counters agree with the runs and calls that hold    *)
(* them on every path: errors, limits, cancellation at any point, streams.  *)
Accounted ==
    /\ PoolAccounted
    /\ tracked = {r \in Callers : Delegated(r) /\ Running(r)}
    /\ permits + Cardinality(tracked) = MaxAgents

(* docs/standards/AGENT_AUTONOMY.md 4.7, rules 2, 4 and 6: what a batch     *)
(* reports of an item is what became of its run, whatever became of the     *)
(* others, and no more of them run at once than a delegation may have.      *)
BatchFaithful ==
    \A r \in Callers : LET b == batch[r] IN
        /\ \A c \in DOMAIN b.results :
              /\ b.results[c] = "completed" <=> run[c].phase = "ok"
              /\ b.results[c] = "none" => run[c].phase \notin Outcomes
              /\ b.results[c] = "not_started" => run[c].phase = "queued" /\ TurnCancelled(r)
              /\ b.results[c] = "aborted" => TurnCancelled(r)
        /\ b.swarm => Cardinality({c \in DOMAIN b.results :
                          run[c].phase = "waiting" \/ Running(c)}) <= PerDelegation

(* Every run that has begun ends, whatever fails: in the end none is left.  *)
AllEnd == <>[](\A r \in Callers : run[r].phase # "waiting" /\ ~Running(r))
=============================================================================
