--------------------------- MODULE BackgroundWake ---------------------------
(***************************************************************************)
(* Automatic turns for background tasks that completed: the runtime that   *)
(* reports a completion, the callers that poll or kill the task meanwhile, *)
(* and the policy that reserves, commits or releases the wake turn.        *)
(* The policy's sets are guarded by one mutex, so each of its methods is   *)
(* one step; everything between two awaits is a step of its own.           *)
(***************************************************************************)
EXTENDS Integers, Sequences, FiniteSetsExt

CONSTANTS
    Tasks,            \* background processes
    NoTask,           \* what an idle caller works on
    Sessions,
    SessionOf,        \* the session that owns each task
    Early,            \* tasks whose wake turn was started before the clock
    Callers,          \* clients and tool calls that poll, write or kill
    Cooldown,         \* cooldown_secs
    Window,           \* the rolling hour of max_wakes_per_hour
    MaxWakes,         \* max_wakes_per_hour
    AllowDuringPlan,  \* allow_during_orchestration
    MaxTime,          \* bound: the clock stops there
    MaxActs           \* bound: calls, turns and plans of users, and faults

ASSUME WakeAssumption ==
    /\ NoTask \notin Tasks
    /\ SessionOf \in [Tasks -> Sessions]
    /\ Early \subseteq Tasks
    /\ \A t, u \in Early : SessionOf[t] = SessionOf[u] => t = u
    /\ {Cooldown, Window, MaxWakes, MaxTime, MaxActs} \subseteq Nat
    /\ AllowDuringPlan \in BOOLEAN

VARIABLES
    now,
    process,      \* "running", "exited" (a pipe is still read), "closed", "gone"
    monitored,    \* tasks whose completion monitor still loops
    notified,     \* terminal_notified of the entry
    events,       \* published to the wake loop and not received yet
    consumed, killed, observing, reserved, delivered,   \* BackgroundWakeState
    history,      \* successful_wakes
    wake,         \* where the handling of the task's completion is
    retried,      \* tasks admitted again after an observation
    wakeTurns,    \* tasks whose wake turn is counted in active_turns
    users,        \* what the users of a session run: "turn", "plan"
    caller,       \* what each caller is doing
    committedAt,  \* when its wake was committed, for the properties
    rivals,       \* tasks of its session reserved at the same time, likewise
    acts          \* calls, turns and faults so far

runtime == <<process, monitored, notified, events>>
policy  == <<consumed, killed, observing, reserved, delivered, history>>
turns   == <<wakeTurns, users>>
vars    == <<now, runtime, policy, wake, retried, turns, caller, committedAt, rivals, acts>>

Asking     == {"turn", "plan", "reserve"}               \* admit_terminal_event
Starting   == {"preparing", "begun"}  \* start_wake_turn
Stages     == {"none", "deferred", "done", "dropped"} \cup Asking \cup Starting
Idle       == [task |-> NoTask, at |-> "idle"]
Happened   == [task : Tasks, kind : {"done", "killed"}]

\* A session may already have had a wake turn, at time zero.
Init ==
    /\ now = 0
    /\ process = [t \in Tasks |-> IF t \in Early THEN "gone" ELSE "running"]
    /\ monitored = Tasks \ Early
    /\ notified = Early
    /\ events = <<>>
    /\ consumed = {} /\ killed = {} /\ observing = {} /\ reserved = {} /\ delivered = Early
    /\ history = [s \in Sessions |-> IF \E t \in Early : SessionOf[t] = s THEN <<0>> ELSE <<>>]
    /\ wake = [t \in Tasks |-> IF t \in Early THEN "done" ELSE "none"]
    /\ retried = {}
    /\ wakeTurns = {}
    /\ users = [s \in Sessions |-> {}]
    /\ caller = [c \in Callers |-> Idle]
    /\ committedAt = [t \in Tasks |-> IF t \in Early THEN 0 ELSE MaxTime + 1]
    /\ rivals = [t \in Tasks |-> {}]
    /\ acts = 0

Count ==
    /\ acts < MaxActs
    /\ acts' = acts + 1

(***************************************************************************)
(* The runtime.  Its monitor looks every 25 ms and stops at the first look *)
(* that finds the process ended, whether or not there is something to      *)
(* publish: while a pipe is still read there is not.                       *)
(***************************************************************************)
Exit(t) ==
    /\ process[t] = "running"
    /\ process' = [process EXCEPT ![t] = "exited"]
    /\ UNCHANGED <<now, monitored, notified, events, policy, wake, retried, turns, caller, committedAt, rivals, acts>>

ClosePipes(t) ==
    /\ process[t] = "exited"
    /\ process' = [process EXCEPT ![t] = "closed"]
    /\ UNCHANGED <<now, monitored, notified, events, policy, wake, retried, turns, caller, committedAt, rivals, acts>>

\* take_terminal_event and publish_event
PublishTerminal(t) ==
    IF process[t] = "closed" /\ t \notin notified
    THEN /\ notified' = notified \cup {t}
         /\ events' = Append(events, [task |-> t, kind |-> "done"])
    ELSE UNCHANGED <<notified, events>>

Monitor(t) ==
    /\ t \in monitored
    /\ process[t] # "running"
    /\ monitored' = monitored \ {t}
    /\ PublishTerminal(t)
    /\ UNCHANGED <<now, process, policy, wake, retried, turns, caller, committedAt, rivals, acts>>

\* The event is not persisted, or the wake loop lags behind the channel.
LoseEvent ==
    /\ events # <<>>
    /\ events' = Tail(events)
    /\ Count
    /\ UNCHANGED <<now, process, monitored, notified, policy, wake, retried, turns, caller, committedAt, rivals>>

(***************************************************************************)
(* The policy.                                                             *)
(***************************************************************************)
Settled == consumed \cup killed

FinishObservation(t, seen) ==
    /\ observing' = observing \ {t}
    /\ consumed' = IF seen THEN consumed \cup {t} ELSE consumed
    /\ reserved' = IF seen THEN reserved \ {t} ELSE reserved

MarkKilled(t) ==
    /\ observing' = observing \ {t}
    /\ reserved' = reserved \ {t}
    /\ killed' = killed \cup {t}

\* The history once try_reserve has popped what is older than the window off
\* its front.
Recent(s) ==
    LET h    == history[s]
        kept == {i \in 1..Len(h) : h[i] > now - Window} \cup {Len(h) + 1}
    IN  SubSeq(h, Min(kept), Len(h))

LastIn(h) == h[Len(h)]

\* Mutant: what was killed is not looked up.
SuppressedUnlessKilled(t) == t \in consumed \/ t \in reserved \cup delivered

\* AlreadyConsumed, UserKilled, AlreadyReservedOrDelivered
Suppressed(t) == t \in Settled \/ t \in reserved \cup delivered

WithinBudget(h) ==
    /\ h # <<>> => now - LastIn(h) >= Cooldown
    /\ Len(h) < MaxWakes

\* Mutant: the history holds the end of the cooldown instead of the wake.
CommitUntil(t) ==
    /\ reserved' = reserved \ {t}
    /\ IF t \in reserved
       THEN /\ delivered' = delivered \cup {t}
            /\ history' = [history EXCEPT ![SessionOf[t]] = Append(@, now + Cooldown)]
       ELSE UNCHANGED <<delivered, history>>

\* Mutant: a wake is delivered without being counted.
CommitUncounted(t) ==
    /\ reserved' = reserved \ {t}
    /\ delivered' = IF t \in reserved THEN delivered \cup {t} ELSE delivered
    /\ UNCHANGED history

Commit(t) ==
    /\ reserved' = reserved \ {t}
    /\ IF t \in reserved
       THEN /\ delivered' = delivered \cup {t}
            /\ history' = [history EXCEPT ![SessionOf[t]] = Append(@, now)]
       ELSE UNCHANGED <<delivered, history>>

\* Mutant: a reservation outlives the turn that could not be started.
ReleaseNot(t) == UNCHANGED reserved

Release(t) == reserved' = reserved \ {t}

(***************************************************************************)
(* The wake loop handles one event at a time; the turns it starts and the  *)
(* completions it defers run as tasks of their own.                        *)
(***************************************************************************)
LoopIdle == \A t \in Tasks : wake[t] \in Asking => t \in retried

Receive ==
    /\ LoopIdle
    /\ events # <<>>
    /\ LET e == Head(events)
       IN  IF e.kind = "killed"
           THEN /\ MarkKilled(e.task)
                /\ UNCHANGED <<consumed, wake>>
           ELSE /\ wake' = [wake EXCEPT ![e.task] = "turn"]
                /\ UNCHANGED <<consumed, killed, observing, reserved>>
    /\ events' = Tail(events)
    /\ UNCHANGED <<now, process, monitored, notified, delivered, history, retried, turns, caller, committedAt, rivals, acts>>

TurnActive(s) == "turn" \in users[s] \/ \E t \in wakeTurns : SessionOf[t] = s
PlanActive(s) == "plan" \in users[s]

To(t, stage) == wake' = [wake EXCEPT ![t] = stage]

AskTurn(t) ==
    /\ wake[t] = "turn"
    /\ To(t, IF TurnActive(SessionOf[t]) THEN "dropped" ELSE "plan")
    /\ UNCHANGED <<now, runtime, policy, retried, turns, caller, committedAt, rivals, acts>>

AskPlan(t) ==
    /\ wake[t] = "plan"
    /\ To(t, IF PlanActive(SessionOf[t]) /\ ~AllowDuringPlan THEN "dropped" ELSE "reserve")
    /\ UNCHANGED <<now, runtime, policy, retried, turns, caller, committedAt, rivals, acts>>

\* The reservations of a session that are open at the same time.
Meet(t) ==
    LET open == {u \in reserved : SessionOf[u] = SessionOf[t]}
    IN  [u \in Tasks |-> IF u = t THEN rivals[u] \cup open
                         ELSE IF u \in open THEN rivals[u] \cup {t} ELSE rivals[u]]

TryReserve(t) ==
    /\ wake[t] = "reserve"
    /\ UNCHANGED <<now, runtime, consumed, killed, observing, delivered, retried, turns, caller, committedAt, acts>>
    /\ \/ /\ Suppressed(t)
          /\ t \in Settled \/ t \notin observing
          /\ To(t, "dropped")
          /\ UNCHANGED <<reserved, history, rivals>>
       \/ /\ t \notin Settled /\ t \in observing
          /\ To(t, IF t \in retried THEN "dropped" ELSE "deferred")
          /\ UNCHANGED <<reserved, history, rivals>>
       \/ /\ ~Suppressed(t) /\ t \notin observing
          /\ history' = [history EXCEPT ![SessionOf[t]] = Recent(SessionOf[t])]
          /\ IF WithinBudget(Recent(SessionOf[t]))
             THEN /\ reserved' = reserved \cup {t}
                  /\ rivals' = Meet(t)
                  /\ To(t, "preparing")
             ELSE /\ To(t, "dropped")
                  /\ UNCHANGED <<reserved, rivals>>

\* The observation ended: admit again.
Recheck(t) ==
    /\ wake[t] = "deferred"
    /\ t \notin observing
    /\ To(t, "turn")
    /\ retried' = retried \cup {t}
    /\ UNCHANGED <<now, runtime, policy, turns, caller, committedAt, rivals, acts>>

\* Mutant: the completion waits for its observer for ever.
DeferTimeoutNever(t) == FALSE

\* It did not end within OBSERVATION_WAIT_TIMEOUT.
DeferTimeout(t) ==
    /\ wake[t] = "deferred"
    /\ t \in observing
    /\ To(t, "dropped")
    /\ UNCHANGED <<now, runtime, policy, retried, turns, caller, committedAt, rivals, acts>>

(***************************************************************************)
(* start_wake_turn.  Any await of it may fail; nothing in it looks at the  *)
(* session or at the policy again.                                         *)
(***************************************************************************)
\* prepare_turn, ChatStarted made durable, and begin_turn.
StartTurn(t) ==
    /\ wake[t] = "preparing"
    /\ To(t, "begun")
    /\ wakeTurns' = wakeTurns \cup {t}
    /\ UNCHANGED <<now, runtime, policy, retried, users, caller, committedAt, rivals, acts>>

CommitStart(t) ==
    /\ wake[t] = "begun"
    /\ Commit(t)
    /\ To(t, "done")
    /\ committedAt' = IF t \in reserved THEN [committedAt EXCEPT ![t] = now] ELSE committedAt
    /\ UNCHANGED <<now, runtime, consumed, killed, observing, retried, turns, caller, rivals, acts>>

\* prepare_turn or the publication of ChatStarted fails.
FailStart(t) ==
    /\ wake[t] = "preparing"
    /\ Release(t)
    /\ To(t, "dropped")
    /\ Count
    /\ UNCHANGED <<now, runtime, consumed, killed, observing, delivered, history, retried, turns, caller, committedAt, rivals>>

\* The worker ends the turn, perhaps before the commit.
EndWakeTurn(t) ==
    /\ t \in wakeTurns
    /\ wakeTurns' = wakeTurns \ {t}
    /\ UNCHANGED <<now, runtime, policy, wake, retried, users, caller, committedAt, rivals, acts>>

(***************************************************************************)
(* Callers: poll and write observe a task around a read of its process,    *)
(* kill announces the intent before it ends the process.                   *)
(***************************************************************************)
Doing(c, t, at) == caller' = [caller EXCEPT ![c] = [task |-> t, at |-> at]]
Rest(c) == caller' = [caller EXCEPT ![c] = Idle]
At(c, at) == caller[c].at = at

BeginObservation(c, t) ==
    /\ At(c, "idle")
    /\ observing' = observing \cup {t}
    /\ Doing(c, t, "reading")
    /\ Count
    /\ UNCHANGED <<now, runtime, consumed, killed, reserved, delivered, history, wake, retried, turns, committedAt, rivals>>

\* The pipes of an exited process may close after the terminal event was
\* looked for and before the entry is removed: then it is never published.
ReadProcess(c) ==
    LET t == caller[c].task
    IN  /\ At(c, "reading")
        /\ PublishTerminal(t)
        /\ \/ /\ process[t] \in {"exited", "closed"}
              /\ process' = [process EXCEPT ![t] = "gone"]
           \/ /\ process[t] # "closed"
              /\ UNCHANGED process
        /\ Doing(c, t, IF process[t] \in {"exited", "closed"} THEN "terminal" ELSE "nothing")
        /\ UNCHANGED <<now, monitored, policy, wake, retried, turns, committedAt, rivals, acts>>

\* The read fails, the input is refused, or the tool call is cancelled.
ReadFails(c) ==
    /\ caller[c].at \in {"reading", "terminal"}
    /\ Doing(c, caller[c].task, "nothing")
    /\ Count
    /\ UNCHANGED <<now, runtime, policy, wake, retried, turns, committedAt, rivals>>

EndObservation(c) ==
    /\ caller[c].at \in {"terminal", "nothing"}
    /\ FinishObservation(caller[c].task, At(c, "terminal"))
    /\ Rest(c)
    /\ UNCHANGED <<now, runtime, killed, delivered, history, wake, retried, turns, committedAt, rivals, acts>>

\* The client disconnects and its request is dropped where it awaits.
DropCaller(c) ==
    /\ caller[c].at \in {"reading", "killing"}
    /\ Rest(c)
    /\ Count
    /\ UNCHANGED <<now, runtime, policy, wake, retried, turns, committedAt, rivals>>

AnnounceKill(c, t) ==
    /\ At(c, "idle")
    /\ MarkKilled(t)
    /\ Doing(c, t, "killing")
    /\ Count
    /\ UNCHANGED <<now, runtime, consumed, delivered, history, wake, retried, turns, committedAt, rivals>>

KillProcess(c) ==
    LET t == caller[c].task
    IN  /\ At(c, "killing")
        /\ IF process[t] = "gone"
           THEN UNCHANGED <<process, events>>
           ELSE /\ process' = [process EXCEPT ![t] = "gone"]
                /\ events' = Append(events, [task |-> t, kind |-> "killed"])
        /\ Rest(c)
        /\ UNCHANGED <<now, monitored, notified, policy, wake, retried, turns, committedAt, rivals, acts>>

\* The entry is removed, but the kill fails or its request is dropped.
KillFails(c) ==
    /\ At(c, "killing")
    /\ process[caller[c].task] # "gone"
    /\ process' = [process EXCEPT ![caller[c].task] = "gone"]
    /\ Rest(c)
    /\ Count
    /\ UNCHANGED <<now, monitored, notified, events, policy, wake, retried, turns, committedAt, rivals>>

UserBegins(s, what) ==
    /\ what \notin users[s]
    /\ users' = [users EXCEPT ![s] = @ \cup {what}]
    /\ Count
    /\ UNCHANGED <<now, runtime, policy, wake, retried, wakeTurns, caller, committedAt, rivals>>

UserEnds(s, what) ==
    /\ what \in users[s]
    /\ users' = [users EXCEPT ![s] = @ \ {what}]
    /\ UNCHANGED <<now, runtime, policy, wake, retried, wakeTurns, caller, committedAt, rivals, acts>>

Clock ==
    /\ now < MaxTime
    /\ now' = now + 1
    /\ UNCHANGED <<runtime, policy, wake, retried, turns, caller, committedAt, rivals, acts>>

Runtime == \E t \in Tasks : Exit(t) \/ ClosePipes(t) \/ Monitor(t)

\* What the wake loop and the tasks it spawned do next.
Handle(t) ==
    \/ AskTurn(t) \/ AskPlan(t) \/ TryReserve(t)
    \/ Recheck(t) \/ DeferTimeout(t)
    \/ StartTurn(t) \/ CommitStart(t)

Calls ==
    \E c \in Callers :
        \/ \E t \in Tasks : BeginObservation(c, t) \/ AnnounceKill(c, t)
        \/ ReadProcess(c) \/ ReadFails(c) \/ EndObservation(c) \/ DropCaller(c)
        \/ KillProcess(c) \/ KillFails(c)

Users == \E s \in Sessions, what \in {"turn", "plan"} : UserBegins(s, what) \/ UserEnds(s, what)

Next ==
    \/ Runtime \/ Calls \/ Users \/ Clock
    \/ LoseEvent \/ Receive
    \/ \E t \in Tasks : Handle(t) \/ FailStart(t) \/ EndWakeTurn(t)

Spec == Init /\ [][Next]_vars

(***************************************************************************)
(* The wake loop and the tasks it spawns are polled; callers, users and    *)
(* the processes themselves owe nothing.                                   *)
(***************************************************************************)
FairSpec == Spec /\ WF_vars(Receive) /\ \A t \in Tasks : WF_vars(Handle(t))

-----------------------------------------------------------------------------
(***************************************************************************)
(* Properties                                                              *)
(***************************************************************************)
\* The type of the state.
TypeOK ==
    /\ now \in 0..MaxTime
    /\ process \in [Tasks -> {"running", "exited", "closed", "gone"}]
    /\ monitored \subseteq Tasks /\ notified \subseteq Tasks
    /\ events \in Seq(Happened)
    /\ consumed \subseteq Tasks /\ killed \subseteq Tasks /\ observing \subseteq Tasks
    /\ reserved \subseteq Tasks /\ delivered \subseteq Tasks
    /\ history \in [Sessions -> Seq(0..MaxTime)]
    /\ wake \in [Tasks -> Stages]
    /\ retried \subseteq Tasks /\ wakeTurns \subseteq Tasks
    /\ users \in [Sessions -> SUBSET {"turn", "plan"}]
    /\ caller \in [Callers -> [task : Tasks \cup {NoTask},
                               at : {"idle", "reading", "terminal", "nothing", "killing"}]]
    /\ committedAt \in [Tasks -> 0..(MaxTime + 1)]
    /\ rivals \in [Tasks -> SUBSET Tasks]
    /\ acts \in 0..MaxActs

\* Monitor, polls and writes race to publish the completion of a task, and the
\* wake loop still handles it once: a completion that waits in the channel is the
\* only one of its task, and nothing was done for it before.
Unreceived(i) == events[i].kind = "done"

PublishedOnce ==
    /\ \A i \in 1..Len(events) :
          Unreceived(i) => events[i].task \in notified /\ wake[events[i].task] = "none"
    /\ \A i, j \in 1..Len(events) :
          Unreceived(i) /\ Unreceived(j) /\ i # j => events[i].task # events[j].task
    /\ \A t \in Tasks \ notified : wake[t] = "none"

\* A reservation belongs to a wake turn that is being started and whose task
\* nobody has seen the result of or killed, and every such turn has one:
\* commit, release, finish_observation and mark_killed between them leave no
\* reservation behind and take none that is still needed.
ReservationOwned == reserved = {t \in Tasks : wake[t] \in Starting} \ Settled

\* A completion is delivered only by the turn that reserved it, never together
\* with a reservation, and a turn that was started without being delivered was
\* overtaken by a caller who saw the result or killed the task.
DeliveredOrSettled ==
    /\ delivered \cap reserved = {}
    /\ delivered \subseteq {t \in Tasks : wake[t] = "done"}
    /\ {t \in Tasks : wake[t] = "done"} \subseteq delivered \cup Settled

\* What becomes of a completion, from the race that publishes it to the turn that
\* delivers it, whatever callers see, kill or abandon in between: it is received
\* once, reserved by one turn, and delivered or settled.
CompletionsKept == PublishedOnce /\ ReservationOwned /\ DeliveredOrSettled

\* What the comments on max_wakes_per_hour and cooldown_secs promise of the
\* wakes that were started: a wake is committed at least the cooldown after every
\* other of its session, and fewer than max_wakes_per_hour of them fall into the
\* rolling hour before it.  The limits are looked at when a task is reserved and
\* spent when its turn has started: the wakes that were reserved meanwhile are
\* the ones that do not count.  The history that try_reserve prunes tells as much
\* as the whole past, as long as the cooldown is no longer than that hour.
BudgetKept ==
    [][\A u \in delivered' \ delivered :
           LET before == {t \in delivered : SessionOf[t] = SessionOf[u] /\ t \notin rivals[u]}
           IN  /\ \A t \in before : now - committedAt[t] >= Cooldown
               /\ Cardinality({t \in before : committedAt[t] > now - Window}) < MaxWakes]_vars

\* Once its result was seen or it was killed, a task is neither reserved nor
\* delivered any more.
SettledStaysQuiet ==
    [][\A t \in Settled : t \in reserved' \cup delivered' => t \in delivered]_vars

\* A completion the wake loop received ends in a turn or is dropped, whatever
\* its observers do: also when they never finish.
CompletionDecided ==
    \A t \in Tasks : wake[t] \notin {"none", "done", "dropped"} ~> wake[t] \in {"done", "dropped"}

=============================================================================
