------------------------ MODULE BackgroundWakeProofs ------------------------
(***************************************************************************)
(* Proofs about BackgroundWake for every set of tasks, sessions and        *)
(* callers, and every cooldown, window and budget.  The reservations come  *)
(* first, the history of wakes and what it limits after them.              *)
(***************************************************************************)
EXTENDS BackgroundWake, FiniteSetTheorems, SequenceTheorems, WellFoundedInduction, TLAPS

\* The types the proofs need.
WakeTypes ==
    /\ process \in [Tasks -> {"running", "exited", "closed", "gone"}]
    /\ notified \subseteq Tasks
    /\ events \in Seq(Happened)
    /\ consumed \subseteq Tasks /\ killed \subseteq Tasks
    /\ reserved \subseteq Tasks /\ delivered \subseteq Tasks
    /\ wake \in [Tasks -> Stages]
    /\ caller \in [Callers -> [task : Tasks \cup {NoTask},
                               at : {"idle", "reading", "terminal", "nothing", "killing"}]]
    /\ \A c \in Callers : caller[c].at # "idle" => caller[c].task \in Tasks

\* The channel to the wake loop when an event is published,
LEMMA Appended ==
    ASSUME events \in Seq(Happened), NEW t \in Tasks, NEW k \in {"done", "killed"}
    PROVE  LET e == [task |-> t, kind |-> k]
           IN  /\ Append(events, e) \in Seq(Happened)
               /\ Len(Append(events, e)) = Len(events) + 1
               /\ \A i \in 1..Len(events) : Append(events, e)[i] = events[i]
               /\ Append(events, e)[Len(events) + 1] = e
<1>1. [task |-> t, kind |-> k] \in Happened
  BY DEF Happened
<1> QED
  BY <1>1, AppendProperties

\* and when one is received or lost.
LEMMA Taken ==
    ASSUME events \in Seq(Happened), events # <<>>
    PROVE  /\ Head(events) \in Happened
           /\ Head(events) = events[1]
           /\ 1 \in 1..Len(events)
           /\ Tail(events) \in Seq(Happened)
           /\ Len(Tail(events)) = Len(events) - 1
           /\ \A i \in 1..Len(Tail(events)) : Tail(events)[i] = events[i + 1]
<1>1. Len(events) \in Nat \ {0}
  BY EmptySeq
<1> QED
  BY <1>1, HeadTailProperties

\* What waits in the channel is an event of a task.
LEMMA EventTask ==
    ASSUME events \in Seq(Happened), NEW i \in 1..Len(events)
    PROVE  events[i].task \in Tasks
<1>1. events[i] \in Happened
  BY ElementOfSeq
<1> QED
  BY <1>1 DEF Happened

\* The publication of a completion keeps the types.
LEMMA PublishTyped ==
    ASSUME WakeTypes, NEW t \in Tasks, PublishTerminal(t)
    PROVE  notified' \subseteq Tasks /\ events' \in Seq(Happened)
BY Appended DEF WakeTypes, PublishTerminal

\* Every step keeps the types.
LEMMA TypesStep == WakeTypes /\ [Next]_vars => WakeTypes'
<1> SUFFICES ASSUME WakeTypes, [Next]_vars PROVE WakeTypes'
  OBVIOUS
<1> USE DEF WakeTypes
<1>1. ASSUME NEW t \in Tasks, Exit(t) \/ ClosePipes(t) PROVE WakeTypes'
  BY <1>1 DEF Exit, ClosePipes, policy
<1>2. ASSUME NEW t \in Tasks, Monitor(t) PROVE WakeTypes'
  BY <1>2, PublishTyped DEF Monitor, policy
<1>3. CASE LoseEvent
  BY <1>3, Taken DEF LoseEvent, policy
<1>4. CASE Receive
  BY <1>4, Taken DEF Receive, MarkKilled, Happened, Stages, Asking
<1>5. ASSUME NEW t \in Tasks, AskTurn(t) \/ AskPlan(t) \/ Recheck(t) \/ DeferTimeout(t) PROVE WakeTypes'
  BY <1>5 DEF AskTurn, AskPlan, Recheck, DeferTimeout, To, Stages, Asking, runtime, policy
<1>6. ASSUME NEW t \in Tasks, TryReserve(t) PROVE WakeTypes'
  BY <1>6 DEF TryReserve, To, Stages, Starting, runtime
<1>7. ASSUME NEW t \in Tasks, StartTurn(t) \/ EndWakeTurn(t) PROVE WakeTypes'
  BY <1>7 DEF StartTurn, EndWakeTurn, To, Stages, Starting, runtime, policy
<1>8. ASSUME NEW t \in Tasks, CommitStart(t) \/ FailStart(t) PROVE WakeTypes'
  BY <1>8 DEF CommitStart, FailStart, Commit, Release, To, Stages, runtime
<1>9. ASSUME NEW c \in Callers, NEW t \in Tasks, BeginObservation(c, t) \/ AnnounceKill(c, t) PROVE WakeTypes'
  BY <1>9 DEF BeginObservation, AnnounceKill, MarkKilled, Doing, runtime
<1>10. ASSUME NEW c \in Callers, ReadProcess(c) PROVE WakeTypes'
  <2>1. caller[c].task \in Tasks
    BY <1>10 DEF ReadProcess, At
  <2>2. notified' \subseteq Tasks /\ events' \in Seq(Happened)
    BY <1>10, <2>1, PublishTyped DEF ReadProcess
  <2> QED
    BY <1>10, <2>1, <2>2 DEF ReadProcess, Doing, policy
<1>11. ASSUME NEW c \in Callers, ReadFails(c) \/ EndObservation(c) \/ DropCaller(c) PROVE WakeTypes'
  <2>1. CASE ReadFails(c)
    <3>1. caller[c].task \in Tasks
      BY <2>1 DEF ReadFails
    <3>2. caller' = [caller EXCEPT ![c] = [task |-> caller[c].task, at |-> "nothing"]]
      BY <2>1 DEF ReadFails, Doing
    <3>3. UNCHANGED <<process, notified, events, consumed, killed, reserved, delivered, wake>>
      BY <2>1 DEF ReadFails, runtime, policy
    <3> QED
      BY <3>1, <3>2, <3>3
  <2>2. CASE EndObservation(c) \/ DropCaller(c)
    <3>1. caller' = [caller EXCEPT ![c] = Idle]
      BY <2>2 DEF EndObservation, DropCaller, Rest
    <3>2. consumed' \subseteq Tasks /\ reserved' \subseteq Tasks
      BY <2>2 DEF EndObservation, DropCaller, FinishObservation, policy
    <3>3. UNCHANGED <<process, notified, events, killed, delivered, wake>>
      BY <2>2 DEF EndObservation, DropCaller, runtime, policy
    <3> QED
      BY <3>1, <3>2, <3>3 DEF Idle
  <2> QED
    BY <1>11, <2>1, <2>2
<1>12. ASSUME NEW c \in Callers, KillProcess(c) \/ KillFails(c) PROVE WakeTypes'
  <2>1. caller[c].task \in Tasks
    BY <1>12 DEF KillProcess, KillFails, At
  <2>2. events' = events \/ events' = Append(events, [task |-> caller[c].task, kind |-> "killed"])
    BY <1>12 DEF KillProcess, KillFails
  <2>3. events' \in Seq(Happened)
    BY <2>1, <2>2, Appended
  <2>4. process' \in [Tasks -> {"running", "exited", "closed", "gone"}]
    BY <1>12, <2>1 DEF KillProcess, KillFails
  <2>5. caller' = [caller EXCEPT ![c] = Idle] /\ UNCHANGED <<notified, policy, wake>>
    BY <1>12 DEF KillProcess, KillFails, Rest
  <2> QED
    BY <2>3, <2>4, <2>5 DEF Idle, policy
<1>13. CASE Users \/ Clock
  BY <1>13 DEF Users, UserBegins, UserEnds, Clock, runtime, policy
<1>14. CASE UNCHANGED vars
  BY <1>14 DEF vars, runtime, policy
<1> QED
  BY <1>1, <1>2, <1>3, <1>4, <1>5, <1>6, <1>7, <1>8, <1>9, <1>10, <1>11, <1>12, <1>13, <1>14
  DEF Next, Runtime, Calls, Handle

-----------------------------------------------------------------------------
(***************************************************************************)
(* A completion is received once: nothing is done for a task before its    *)
(* completion is received, and what is published is remembered.            *)
(***************************************************************************)

\* A step that neither publishes nor receives, and starts nothing for a task
\* whose completion was not received.
Elsewhere == UNCHANGED <<events, notified>>
             /\ \A t \in Tasks : wake[t] = "none" <=> wake'[t] = "none"

\* Such a step leaves what is published and received alone.
LEMMA PublishedElsewhere ==
    ASSUME WakeTypes, PublishedOnce, Elsewhere
    PROVE  PublishedOnce'
<1>1. \A i \in 1..Len(events) : events[i].task \in Tasks
  BY EventTask DEF WakeTypes
<1> QED
  BY <1>1 DEF PublishedOnce, Unreceived, Elsewhere

\* A completion is only published for a task that is not yet notified, so it
\* is the first of its task in the channel.
LEMMA PublishedByTerminal ==
    ASSUME WakeTypes, PublishedOnce, NEW t \in Tasks, PublishTerminal(t), UNCHANGED wake
    PROVE  PublishedOnce'
<1>1. CASE UNCHANGED <<notified, events>>
  BY <1>1, PublishedElsewhere DEF Elsewhere
<1>2. CASE /\ t \notin notified
           /\ notified' = notified \cup {t}
           /\ events' = Append(events, [task |-> t, kind |-> "done"])
  <2>1. /\ Len(events) \in Nat
        /\ Len(events') = Len(events) + 1
        /\ \A i \in 1..Len(events) : events'[i] = events[i]
        /\ events'[Len(events) + 1].task = t
    BY <1>2, Appended, LenProperties DEF WakeTypes
  <2>2. \A i \in 1..Len(events') : i \in 1..Len(events) \/ i = Len(events) + 1
    BY <2>1
  <2>3. \A i \in 1..Len(events) : Unreceived(i)' => Unreceived(i) /\ events'[i].task \in notified
    BY <2>1 DEF PublishedOnce, Unreceived
  <2>4. \A i \in 1..Len(events) : Unreceived(i)' => events'[i].task # t
    BY <1>2, <2>3
  <2>5. \A i \in 1..Len(events') :
           Unreceived(i)' => events'[i].task \in notified' /\ wake'[events'[i].task] = "none"
    BY <1>2, <2>1, <2>2, <2>3 DEF PublishedOnce
  <2>6. \A i, j \in 1..Len(events') :
           Unreceived(i)' /\ Unreceived(j)' /\ i # j => events'[i].task # events'[j].task
    BY <2>1, <2>2, <2>3, <2>4 DEF PublishedOnce
  <2>7. \A u \in Tasks \ notified' : wake'[u] = "none"
    BY <1>2 DEF PublishedOnce
  <2> QED
    BY <2>5, <2>6, <2>7 DEF PublishedOnce
<1> QED
  BY <1>1, <1>2 DEF PublishTerminal

\* A kill is published behind the completions, and is none.
LEMMA PublishedByKill ==
    ASSUME WakeTypes, PublishedOnce, NEW t \in Tasks, UNCHANGED <<notified, wake>>,
           events' = Append(events, [task |-> t, kind |-> "killed"])
    PROVE  PublishedOnce'
<1>1. /\ Len(events) \in Nat
      /\ Len(events') = Len(events) + 1
      /\ \A i \in 1..Len(events) : events'[i] = events[i]
      /\ events'[Len(events) + 1].kind = "killed"
  BY Appended, LenProperties DEF WakeTypes
<1>2. \A i \in 1..Len(events') : Unreceived(i)' => i \in 1..Len(events) /\ Unreceived(i)
  BY <1>1 DEF Unreceived
<1> QED
  BY <1>1, <1>2 DEF PublishedOnce

\* When the first event of the channel is lost or received, only its own task
\* moves on.
LEMMA PublishedByTail ==
    ASSUME WakeTypes, PublishedOnce, events # <<>>, events' = Tail(events), UNCHANGED notified,
           wake' \in [Tasks -> Stages],
           \A t \in Tasks : wake'[t] # wake[t] => Unreceived(1) /\ t = events[1].task
    PROVE  PublishedOnce'
<1>1. /\ Len(events) \in Nat \ {0}
      /\ Len(events') = Len(events) - 1
      /\ \A i \in 1..Len(events') : i + 1 \in 1..Len(events) /\ i + 1 # 1 /\ events'[i] = events[i + 1]
  BY Taken, EmptySeq DEF WakeTypes
<1>2. \A i \in 1..Len(events') : events'[i].task \in Tasks
  BY <1>1, EventTask DEF WakeTypes
<1>3. \A i \in 1..Len(events') : Unreceived(i)' => Unreceived(i + 1)
  BY <1>1 DEF Unreceived
<1>4. \A i \in 1..Len(events') :
         Unreceived(i)' => events'[i].task \in notified' /\ wake'[events'[i].task] = "none"
  <2> SUFFICES ASSUME NEW i \in 1..Len(events'), Unreceived(i)'
               PROVE  events'[i].task \in notified' /\ wake'[events'[i].task] = "none"
    OBVIOUS
  <2>1. /\ events'[i].task \in notified
        /\ wake[events'[i].task] = "none"
    BY <1>1, <1>3 DEF PublishedOnce
  <2>2. Unreceived(1) => events'[i].task # events[1].task
    BY <1>1, <1>3 DEF PublishedOnce
  <2> QED
    BY <1>2, <2>1, <2>2
<1>5. \A i, j \in 1..Len(events') :
         Unreceived(i)' /\ Unreceived(j)' /\ i # j => events'[i].task # events'[j].task
  BY <1>1, <1>3 DEF PublishedOnce
<1>6. \A t \in Tasks \ notified' : wake'[t] = "none"
  BY <1>1 DEF PublishedOnce
<1> QED
  BY <1>4, <1>5, <1>6 DEF PublishedOnce

\* No step publishes or receives a completion twice: monitor and readers look at
\* terminal_notified when they publish, and a kill publishes an event of its own.
LEMMA PublishedStep == WakeTypes /\ PublishedOnce /\ [Next]_vars => PublishedOnce'
<1> SUFFICES ASSUME WakeTypes, PublishedOnce, [Next]_vars PROVE PublishedOnce'
  OBVIOUS
<1>0. WakeTypes'
  BY TypesStep
<1>1. CASE Elsewhere
  BY <1>1, PublishedElsewhere
<1>2. ASSUME NEW t \in Tasks, Monitor(t) PROVE PublishedOnce'
  BY <1>2, PublishedByTerminal DEF Monitor
<1>3. ASSUME NEW c \in Callers, ReadProcess(c) PROVE PublishedOnce'
  <2>1. caller[c].task \in Tasks
    BY <1>3 DEF ReadProcess, At, WakeTypes
  <2> QED
    BY <1>3, <2>1, PublishedByTerminal DEF ReadProcess
<1>4. ASSUME NEW c \in Callers, KillProcess(c) PROVE PublishedOnce' \/ Elsewhere
  <2>1. caller[c].task \in Tasks
    BY <1>4 DEF KillProcess, At, WakeTypes
  <2> QED
    BY <1>4, <2>1, PublishedByKill DEF KillProcess, Elsewhere
<1>5. CASE LoseEvent
  BY <1>0, <1>5, PublishedByTail DEF LoseEvent, WakeTypes
<1>6. CASE Receive
  <2>1. \A t \in Tasks : wake'[t] # wake[t] => Unreceived(1) /\ t = events[1].task
    BY <1>6, Taken DEF Receive, WakeTypes, Unreceived, Happened
  <2> QED
    BY <1>0, <1>6, <2>1, PublishedByTail DEF Receive, WakeTypes
<1>7. ASSUME NEW t \in Tasks,
             Exit(t) \/ ClosePipes(t) \/ Handle(t) \/ FailStart(t) \/ EndWakeTurn(t)
      PROVE  Elsewhere
  BY <1>7 DEF WakeTypes, Elsewhere, Exit, ClosePipes, Handle, AskTurn, AskPlan, TryReserve, Recheck,
         DeferTimeout, StartTurn, CommitStart, FailStart, EndWakeTurn, To, runtime
<1>8. ASSUME NEW c \in Callers,
             \/ \E t \in Tasks : BeginObservation(c, t) \/ AnnounceKill(c, t)
             \/ ReadFails(c) \/ EndObservation(c) \/ DropCaller(c) \/ KillFails(c)
      PROVE  Elsewhere
  BY <1>8 DEF Elsewhere, BeginObservation, AnnounceKill, ReadFails, EndObservation, DropCaller,
         KillFails, runtime
<1>9. ASSUME Users \/ Clock \/ UNCHANGED vars PROVE Elsewhere
  BY <1>9 DEF Elsewhere, Users, UserBegins, UserEnds, Clock, runtime, vars
<1> QED
  BY <1>1, <1>2, <1>3, <1>4, <1>5, <1>6, <1>7, <1>8, <1>9 DEF Next, Runtime, Calls

-----------------------------------------------------------------------------
(***************************************************************************)
(* Reservations and deliveries, task by task.                              *)
(***************************************************************************)
Owned(t) == t \in reserved <=> wake[t] \in Starting /\ t \notin Settled

Decided(t) ==
    /\ t \in delivered => t \notin reserved /\ wake[t] = "done"
    /\ wake[t] = "done" => t \in delivered \cup Settled

\* Nothing the policy knows about the task changes.
Untouched(t) ==
    /\ t \in reserved' <=> t \in reserved
    /\ t \in delivered' <=> t \in delivered
    /\ t \in Settled' <=> t \in Settled
    /\ wake'[t] \in Starting <=> wake[t] \in Starting
    /\ wake'[t] = "done" <=> wake[t] = "done"

\* A task that is settled loses its reservation and keeps where it is.
SettledNow(t) ==
    /\ t \in Settled' /\ t \notin reserved'
    /\ t \in delivered' <=> t \in delivered
    /\ wake'[t] = wake[t]

\* A reservation is taken only for a task that is neither settled nor delivered.
ReservedNow(t) ==
    /\ t \notin Settled /\ t \notin Settled'
    /\ t \notin delivered /\ t \notin delivered'
    /\ t \in reserved' /\ wake'[t] = "preparing"

\* A commit delivers what is still reserved; it and a release end the turn's
\* claim on the task.
CommittedNow(t) ==
    /\ wake[t] \in Starting /\ wake'[t] = "done"
    /\ t \notin reserved'
    /\ t \in delivered' <=> t \in delivered \/ t \in reserved
    /\ t \in Settled' <=> t \in Settled

ReleasedNow(t) ==
    /\ wake[t] \in Starting /\ wake'[t] = "dropped"
    /\ t \notin reserved'
    /\ t \in delivered' <=> t \in delivered
    /\ t \in Settled' <=> t \in Settled

Moves(t) == Untouched(t) \/ SettledNow(t) \/ ReservedNow(t) \/ CommittedNow(t) \/ ReleasedNow(t)

\* Every step of the code does one of these to every task.  That receiving a
\* completion starts nothing over rests on PublishedOnce.
LEMMA TaskMoves ==
    ASSUME WakeTypes, PublishedOnce, [Next]_vars, NEW u \in Tasks
    PROVE  Moves(u)
<1> USE DEF WakeTypes, Moves
<1>1. ASSUME NEW t \in Tasks, Exit(t) \/ ClosePipes(t) \/ Monitor(t) \/ EndWakeTurn(t) PROVE Untouched(u)
  BY <1>1 DEF Untouched, Settled, Exit, ClosePipes, Monitor, EndWakeTurn, policy
<1>2. CASE LoseEvent \/ Users \/ Clock \/ UNCHANGED vars
  BY <1>2 DEF Untouched, Settled, LoseEvent, Users, UserBegins, UserEnds, Clock, policy, vars
<1>3. CASE Receive
  <2>1. Head(events) \in Happened /\ Head(events) = events[1] /\ 1 \in 1..Len(events)
    BY <1>3, Taken DEF Receive
  <2>2. CASE Head(events).kind = "killed"
    BY <1>3, <2>1, <2>2 DEF Receive, MarkKilled, Untouched, SettledNow, Settled
  <2>3. CASE Head(events).kind = "done"
    <3>1. wake[Head(events).task] = "none"
      BY <2>1, <2>3 DEF PublishedOnce, Unreceived
    <3>2. wake' = [wake EXCEPT ![Head(events).task] = "turn"]
          /\ UNCHANGED <<consumed, killed, reserved, delivered>>
      BY <1>3, <2>3 DEF Receive
    <3> QED
      BY <3>1, <3>2 DEF Untouched, Settled, Starting
  <2> QED
    BY <2>1, <2>2, <2>3 DEF Happened
<1>4. ASSUME NEW t \in Tasks, AskTurn(t) \/ AskPlan(t) \/ Recheck(t) \/ DeferTimeout(t) PROVE Untouched(u)
  BY <1>4 DEF AskTurn, AskPlan, Recheck, DeferTimeout, To, Untouched, Settled, Starting, policy
<1>5. ASSUME NEW t \in Tasks, TryReserve(t) PROVE Untouched(u) \/ ReservedNow(u)
  <2>1. CASE UNCHANGED reserved /\ wake' \in {[wake EXCEPT ![t] = "dropped"], [wake EXCEPT ![t] = "deferred"]}
    BY <1>5, <2>1 DEF TryReserve, Untouched, Settled, Starting
  <2>2. CASE ~Suppressed(t) /\ reserved' = reserved \cup {t} /\ wake' = [wake EXCEPT ![t] = "preparing"]
    BY <1>5, <2>2 DEF TryReserve, Suppressed, Untouched, ReservedNow, Settled
  <2> QED
    BY <1>5, <2>1, <2>2 DEF TryReserve, To
<1>6. ASSUME NEW t \in Tasks, StartTurn(t) PROVE Untouched(u)
  BY <1>6 DEF StartTurn, To, Untouched, Settled, Starting, policy
<1>7. ASSUME NEW t \in Tasks, CommitStart(t) PROVE Untouched(u) \/ CommittedNow(u)
  BY <1>7 DEF CommitStart, Commit, To, Untouched, CommittedNow, Settled, Starting
<1>8. ASSUME NEW t \in Tasks, FailStart(t) PROVE Untouched(u) \/ ReleasedNow(u)
  BY <1>8 DEF FailStart, Release, To, Untouched, ReleasedNow, Settled, Starting
<1>9. ASSUME NEW c \in Callers,
             \/ \E t \in Tasks : BeginObservation(c, t)
             \/ ReadProcess(c) \/ ReadFails(c) \/ DropCaller(c) \/ KillProcess(c) \/ KillFails(c)
      PROVE  Untouched(u)
  BY <1>9 DEF BeginObservation, ReadProcess, ReadFails, DropCaller, KillProcess, KillFails,
         Untouched, Settled, policy
<1>10. ASSUME NEW c \in Callers, EndObservation(c) PROVE Untouched(u) \/ SettledNow(u)
  BY <1>10 DEF EndObservation, FinishObservation, Untouched, SettledNow, Settled
<1>11. ASSUME NEW c \in Callers, NEW t \in Tasks, AnnounceKill(c, t) PROVE Untouched(u) \/ SettledNow(u)
  BY <1>11 DEF AnnounceKill, MarkKilled, Untouched, SettledNow, Settled
<1> QED
  BY <1>1, <1>2, <1>3, <1>4, <1>5, <1>6, <1>7, <1>8, <1>9, <1>10, <1>11 DEF Next, Runtime, Calls, Handle

\* A reservation is owned by the turn that is being started, task by task.
LEMMA OwnedStep ==
    ASSUME WakeTypes, PublishedOnce, ReservationOwned, [Next]_vars
    PROVE  ReservationOwned'
<1>1. WakeTypes'
  BY TypesStep
<1>2. ASSUME NEW t \in Tasks PROVE Owned(t)'
  <2>1. Owned(t)
    BY DEF ReservationOwned, Owned
  <2>2. Moves(t)
    BY TaskMoves
  <2> QED
    BY <2>1, <2>2 DEF Owned, Moves, Untouched, SettledNow, ReservedNow, CommittedNow, ReleasedNow, Starting
<1>3. reserved' \subseteq Tasks
  BY <1>1 DEF WakeTypes
<1> QED
  BY <1>2, <1>3 DEF ReservationOwned, Owned

\* A delivery needs the reservation: when the commit finds none, the owner of
\* the turn lost it to a caller who settled the task.
LEMMA DeliveredStep ==
    ASSUME WakeTypes, PublishedOnce, ReservationOwned, DeliveredOrSettled, [Next]_vars
    PROVE  DeliveredOrSettled'
<1>1. WakeTypes'
  BY TypesStep
<1>2. ASSUME NEW t \in Tasks PROVE Decided(t)'
  <2>1. Owned(t) /\ Decided(t)
    BY DEF ReservationOwned, DeliveredOrSettled, Owned, Decided
  <2>2. Moves(t)
    BY TaskMoves
  <2> QED
    BY <2>1, <2>2 DEF Owned, Decided, Moves, Untouched, SettledNow, ReservedNow, CommittedNow, ReleasedNow, Starting
<1>3. delivered' \subseteq Tasks
  BY <1>1 DEF WakeTypes
<1> QED
  BY <1>2, <1>3 DEF DeliveredOrSettled, Decided

\* A settled task is not reserved, so no commit delivers it.
LEMMA QuietStep ==
    ASSUME WakeTypes, PublishedOnce, ReservationOwned, [Next]_vars,
           NEW t \in Settled, t \in reserved' \cup delivered'
    PROVE  t \in delivered
<1>1. t \in Tasks
  BY DEF Settled, WakeTypes
<1>2. t \notin reserved
  BY DEF ReservationOwned
<1>3. Moves(t)
  BY <1>1, TaskMoves
<1> QED
  BY <1>2, <1>3 DEF Moves, Untouched, SettledNow, ReservedNow, CommittedNow, ReleasedNow

-----------------------------------------------------------------------------
(***************************************************************************)
(* The properties of the specification.                                    *)
(***************************************************************************)
WakeInv == WakeTypes /\ PublishedOnce /\ ReservationOwned /\ DeliveredOrSettled

\* Nothing has happened to any task when the wake loop starts, except to those
\* whose wake is in the past.
LEMMA WakeInvInit == Init => WakeInv
<1> SUFFICES ASSUME Init PROVE WakeInv
  OBVIOUS
<1>1. events \in Seq(Happened) /\ Len(events) = 0
  BY EmptySeq DEF Init
<1>2. WakeTypes
  BY <1>1, WakeAssumption DEF Init, WakeTypes, Stages, Idle
<1>3. PublishedOnce
  BY <1>1 DEF Init, PublishedOnce
<1>4. ReservationOwned /\ DeliveredOrSettled
  BY WakeAssumption DEF Init, ReservationOwned, DeliveredOrSettled, Settled, Starting
<1> QED
  BY <1>2, <1>3, <1>4 DEF WakeInv

\* The four parts hold together: each step lemma uses the parts before its own.
LEMMA WakeInvariant == Spec => []WakeInv
<1>1. WakeInv /\ [Next]_vars => WakeInv'
  BY TypesStep, PublishedStep, OwnedStep, DeliveredStep DEF WakeInv
<1> QED
  BY WakeInvInit, <1>1, PTL DEF Spec

\* A completion is published and received once, whichever of the monitor and the
\* callers' reads sees the process end first.
THEOREM PublishedOnceCorrect == Spec => []PublishedOnce
<1>1. WakeInv => PublishedOnce
  BY DEF WakeInv
<1> QED
  BY WakeInvariant, <1>1, PTL

\* No reservation of BackgroundWakePolicy is left behind by the turn that took
\* it or taken away from a turn that still needs it.
THEOREM ReservationCorrect == Spec => []ReservationOwned
<1>1. WakeInv => ReservationOwned
  BY DEF WakeInv
<1> QED
  BY WakeInvariant, <1>1, PTL

\* A wake turn that was started is delivered, or its task was consumed or killed
\* while it started; nothing is both delivered and reserved.
THEOREM DeliveredCorrect == Spec => []DeliveredOrSettled
<1>1. WakeInv => DeliveredOrSettled
  BY DEF WakeInv
<1> QED
  BY WakeInvariant, <1>1, PTL

\* The three together: what the policy promises of a completion.
THEOREM CompletionsKeptCorrect == Spec => []CompletionsKept
<1>1. PublishedOnce /\ ReservationOwned /\ DeliveredOrSettled => CompletionsKept
  BY DEF CompletionsKept
<1> QED
  BY PublishedOnceCorrect, ReservationCorrect, DeliveredCorrect, <1>1, PTL

\* After finish_observation saw the result, or mark_killed, no try_reserve or
\* commit that was under way reserves or delivers the task.
THEOREM QuietCorrect == Spec => SettledStaysQuiet
<1>1. WakeInv /\ [Next]_vars
        => [\A t \in Settled : t \in reserved' \cup delivered' => t \in delivered]_vars
  BY QuietStep DEF WakeInv
<1> QED
  BY WakeInvariant, <1>1, PTL DEF Spec, SettledStaysQuiet

-----------------------------------------------------------------------------
(***************************************************************************)
(* The history of wakes.                                                   *)
(***************************************************************************)

\* The types that reservations do not depend on.
OtherTypes ==
    /\ now \in 0..MaxTime
    /\ monitored \subseteq Tasks /\ observing \subseteq Tasks
    /\ retried \subseteq Tasks /\ wakeTurns \subseteq Tasks
    /\ users \in [Sessions -> SUBSET {"turn", "plan"}]
    /\ committedAt \in [Tasks -> 0..(MaxTime + 1)]
    /\ acts \in 0..MaxActs

HistoryType == history \in [Sessions -> Seq(0..MaxTime)]

RivalsType == rivals \in [Tasks -> SUBSET Tasks]

\* A set of numbers that is not empty has a smallest one.
LEMMA LeastNatural ==
    ASSUME NEW S \in SUBSET Nat, S # {}
    PROVE  Min(S) \in S /\ \A m \in S : Min(S) <= m
<1>1. IsWellFoundedOn(OpToRel(<, Nat), Nat)
  BY NatLessThanWellFounded
<1>2. PICK R : R = {ss \in Nat \X Nat : ss[1] < ss[2]}
  OBVIOUS
<1>3. IsWellFoundedOn(R, Nat)
  BY <1>1, <1>2 DEF OpToRel
<1>4. PICK x \in S : \A y \in S : ~ (<<y, x>> \in R)
  BY <1>3, WFMin
<1>5. ASSUME NEW m \in S PROVE x <= m
  <2>1. ~ (<<m, x>> \in R)
    BY <1>4
  <2> QED
    BY <1>2, <2>1
<1> QED
  BY <1>4, <1>5 DEF Min

\* What try_reserve pops off the front of a history, and what it leaves.
LEMMA Popped ==
    ASSUME NEW s \in Sessions, HistoryType, now \in Nat
    PROVE  /\ Recent(s) \in Seq(0..MaxTime)
           /\ \E k \in 0..Len(history[s]) :
                /\ Len(Recent(s)) = Len(history[s]) - k
                /\ \A i \in 1..Len(Recent(s)) : Recent(s)[i] = history[s][i + k]
                /\ \A i \in 1..k : history[s][i] <= now - Window
<1>1. PICK h : h = history[s]
  OBVIOUS
<1>2. h \in Seq(0..MaxTime) /\ Len(h) \in Nat /\ MaxTime \in Nat /\ Window \in Nat
  BY <1>1, LenProperties, WakeAssumption DEF HistoryType
<1>3. PICK kept : kept = {i \in 1..Len(h) : h[i] > now - Window} \cup {Len(h) + 1}
  OBVIOUS
<1>4. kept \in SUBSET Nat /\ kept # {} /\ kept \subseteq 1..(Len(h) + 1)
  BY <1>2, <1>3
<1>5. PICK m : m = Min(kept)
  OBVIOUS
<1>6. m \in kept /\ \A i \in kept : m <= i
  BY <1>4, <1>5, LeastNatural
<1>7. m \in 1..(Len(h) + 1)
  BY <1>4, <1>6
<1>8. Recent(s) = SubSeq(h, m, Len(h))
  BY <1>1, <1>3, <1>5 DEF Recent
<1>9. \A i \in m..Len(h) : h[i] \in 0..MaxTime
  BY <1>2, <1>7, ElementOfSeq
<1>10. /\ SubSeq(h, m, Len(h)) \in Seq(0..MaxTime)
       /\ Len(SubSeq(h, m, Len(h))) = Len(h) - (m - 1)
       /\ \A i \in 1..(Len(h) - m + 1) : SubSeq(h, m, Len(h))[i] = h[m + i - 1]
  BY <1>2, <1>7, <1>9, SubSeqProperties
<1>11. ASSUME NEW i \in 1..(m - 1) PROVE h[i] <= now - Window
  <2>1. i \in 1..Len(h) /\ i \notin kept
    BY <1>2, <1>6, <1>7
  <2>2. h[i] \in 0..MaxTime
    BY <1>2, <2>1, ElementOfSeq
  <2> QED
    BY <1>2, <1>3, <2>1, <2>2
<1>12. m - 1 \in 0..Len(h)
  BY <1>2, <1>7
<1>13. \A i \in 1..(Len(h) - (m - 1)) : SubSeq(h, m, Len(h))[i] = h[i + (m - 1)]
  BY <1>2, <1>7, <1>10
<1>14. PICK r : r = Recent(s)
  OBVIOUS
<1>15. /\ r \in Seq(0..MaxTime) /\ Len(r) = Len(h) - (m - 1)
       /\ \A i \in 1..Len(r) : r[i] = h[i + (m - 1)]
  BY <1>8, <1>10, <1>13, <1>14
<1>16. PICK k \in 0..Len(h) : k = m - 1
  BY <1>12
<1>17. /\ Len(r) = Len(h) - k
       /\ \A i \in 1..Len(r) : r[i] = h[i + k]
       /\ \A i \in 1..k : h[i] <= now - Window
  BY <1>11, <1>15, <1>16
<1> QED
  BY <1>1, <1>14, <1>15, <1>17

\* What a step does to the history: nothing, except that time may pass,
Ageing == UNCHANGED <<history, delivered, committedAt>> /\ now' >= now

\* pop what is too old off the history of a session,
Popping(s) ==
    /\ UNCHANGED <<now, delivered, committedAt>>
    /\ history' = [history EXCEPT ![s] = Recent(s)]

\* or add the commit of a reserved wake to it.
Committing(t) ==
    /\ t \in reserved /\ UNCHANGED now
    /\ delivered' = delivered \cup {t}
    /\ committedAt' = [committedAt EXCEPT ![t] = now]
    /\ history' = [history EXCEPT ![SessionOf[t]] = Append(@, now)]

HistoryMoves == Ageing \/ (\E s \in Sessions : Popping(s)) \/ (\E t \in Tasks : Committing(t))

\* Only try_reserve and commit write the history.
LEMMA HistoryStep ==
    ASSUME now \in Int, [Next]_vars
    PROVE  HistoryMoves
<1> USE DEF HistoryMoves
<1>1. ASSUME NEW t \in Tasks,
             \/ Exit(t) \/ ClosePipes(t) \/ Monitor(t) \/ EndWakeTurn(t) \/ FailStart(t)
             \/ AskTurn(t) \/ AskPlan(t) \/ Recheck(t) \/ DeferTimeout(t) \/ StartTurn(t)
      PROVE  Ageing
  BY <1>1 DEF Ageing, Exit, ClosePipes, Monitor, EndWakeTurn, FailStart, AskTurn, AskPlan, Recheck,
         DeferTimeout, StartTurn, policy
<1>2. ASSUME LoseEvent \/ Receive \/ Users \/ Clock \/ UNCHANGED vars PROVE Ageing
  BY <1>2 DEF Ageing, LoseEvent, Receive, Users, UserBegins, UserEnds, Clock, policy, vars
<1>3. ASSUME NEW c \in Callers,
             \/ \E t \in Tasks : BeginObservation(c, t) \/ AnnounceKill(c, t)
             \/ ReadProcess(c) \/ ReadFails(c) \/ EndObservation(c) \/ DropCaller(c)
             \/ KillProcess(c) \/ KillFails(c)
      PROVE  Ageing
  BY <1>3 DEF Ageing, BeginObservation, AnnounceKill, ReadProcess, ReadFails, EndObservation,
         DropCaller, KillProcess, KillFails, policy
<1>4. ASSUME NEW t \in Tasks, TryReserve(t) PROVE Ageing \/ Popping(SessionOf[t])
  BY <1>4 DEF TryReserve, Ageing, Popping
<1>5. ASSUME NEW t \in Tasks, CommitStart(t) PROVE Ageing \/ Committing(t)
  BY <1>5 DEF CommitStart, Commit, Ageing, Committing
<1>6. \A t \in Tasks : SessionOf[t] \in Sessions
  BY WakeAssumption
<1> QED
  BY <1>1, <1>2, <1>3, <1>4, <1>5, <1>6 DEF Next, Runtime, Calls, Handle

\* The other types are kept by every step,
LEMMA OtherTypesStep == WakeTypes /\ OtherTypes /\ [Next]_vars => OtherTypes'
<1> SUFFICES ASSUME WakeTypes, OtherTypes, [Next]_vars PROVE OtherTypes'
  OBVIOUS
<1> USE DEF OtherTypes, Count
<1>0. MaxTime \in Nat /\ MaxActs \in Nat
  BY WakeAssumption
<1>1. ASSUME NEW t \in Tasks,
             \/ Exit(t) \/ ClosePipes(t) \/ Monitor(t) \/ EndWakeTurn(t)
             \/ AskTurn(t) \/ AskPlan(t) \/ Recheck(t) \/ DeferTimeout(t) \/ StartTurn(t)
      PROVE  OtherTypes'
  BY <1>1 DEF Exit, ClosePipes, Monitor, EndWakeTurn, AskTurn, AskPlan, Recheck,
         DeferTimeout, StartTurn, policy, turns, runtime
<1>2. CASE LoseEvent
  BY <1>0, <1>2 DEF LoseEvent, policy, turns
<1>3. CASE Receive
  BY <1>3 DEF Receive, MarkKilled, turns
<1>4. CASE Clock
  BY <1>0, <1>4 DEF Clock, policy, turns, runtime
<1>5. CASE Users
  BY <1>0, <1>5 DEF Users, UserBegins, UserEnds, policy, runtime
<1>6. ASSUME NEW t \in Tasks, TryReserve(t) \/ FailStart(t) PROVE OtherTypes'
  BY <1>0, <1>6 DEF TryReserve, FailStart, turns, runtime
<1>7. ASSUME NEW t \in Tasks, CommitStart(t) PROVE OtherTypes'
  BY <1>0, <1>7 DEF CommitStart, turns, runtime
<1>8. ASSUME NEW c \in Callers, NEW t \in Tasks, BeginObservation(c, t) \/ AnnounceKill(c, t)
      PROVE  OtherTypes'
  BY <1>0, <1>8 DEF BeginObservation, AnnounceKill, MarkKilled, turns, runtime
<1>9. ASSUME NEW c \in Callers, ReadProcess(c) \/ EndObservation(c) \/ KillProcess(c) PROVE OtherTypes'
  BY <1>9 DEF ReadProcess, EndObservation, FinishObservation, KillProcess, policy, turns, runtime
<1>10. ASSUME NEW c \in Callers, ReadFails(c) \/ DropCaller(c) \/ KillFails(c) PROVE OtherTypes'
  BY <1>0, <1>10 DEF ReadFails, DropCaller, KillFails, policy, turns, runtime
<1>11. CASE UNCHANGED vars
  BY <1>11 DEF vars, policy, turns, runtime
<1> QED
  BY <1>1, <1>2, <1>3, <1>4, <1>5, <1>6, <1>7, <1>8, <1>9, <1>10, <1>11 DEF Next, Runtime, Calls, Handle

\* and so is that of the history.
LEMMA HistoryTypeStep ==
    ASSUME OtherTypes, HistoryType, [Next]_vars
    PROVE  HistoryType'
<1>1. now \in 0..MaxTime /\ MaxTime \in Nat /\ now \in Nat
  BY WakeAssumption DEF OtherTypes
<1>2. HistoryMoves
  BY <1>1, HistoryStep
<1>3. CASE Ageing
  BY <1>3 DEF Ageing, HistoryType
<1>4. ASSUME NEW s \in Sessions, Popping(s) PROVE HistoryType'
  <2>1. Recent(s) \in Seq(0..MaxTime)
    BY <1>1, Popped
  <2> QED
    BY <1>4, <2>1 DEF Popping, HistoryType
<1>5. ASSUME NEW t \in Tasks, Committing(t) PROVE HistoryType'
  <2>1. SessionOf[t] \in Sessions /\ history[SessionOf[t]] \in Seq(0..MaxTime)
    BY WakeAssumption DEF HistoryType
  <2>2. Append(history[SessionOf[t]], now) \in Seq(0..MaxTime)
    BY <1>1, <2>1, AppendProperties
  <2> QED
    BY <1>5, <2>2 DEF Committing, HistoryType
<1> QED
  BY <1>2, <1>3, <1>4, <1>5 DEF HistoryMoves

-----------------------------------------------------------------------------
(***************************************************************************)
(* The budget.                                                             *)
(***************************************************************************)

\* The wakes of the session that lie in the rolling hour.
Counted(s) == {t \in delivered : SessionOf[t] = s /\ committedAt[t] > now - Window}

\* The history is in the order of time,
Sorted(s) ==
    /\ \A i \in 1..Len(history[s]) : history[s][i] <= now
    /\ \A i, j \in 1..Len(history[s]) : i <= j => history[s][i] <= history[s][j]

\* and each wake of the rolling hour has a place of its own in it.
PlacedBy(s, place) ==
    /\ place \in [Counted(s) -> 1..Len(history[s])]
    /\ \A t, u \in Counted(s) : place[t] = place[u] => t = u
    /\ \A t \in Counted(s) : history[s][place[t]] = committedAt[t]

Placed(s) == \E place : PlacedBy(s, place)

HistoryKept == \A s \in Sessions : Sorted(s) /\ Placed(s)

\* What is known of the numbers in a history.
LEMMA HistoryTyped ==
    ASSUME OtherTypes, HistoryType, WakeTypes, NEW s \in Sessions
    PROVE  /\ now \in Nat /\ MaxTime \in Nat /\ Window \in Nat /\ Cooldown \in Nat
           /\ history[s] \in Seq(0..MaxTime) /\ Len(history[s]) \in Nat
           /\ \A i \in 1..Len(history[s]) : history[s][i] \in Nat
           /\ \A t \in delivered : t \in Tasks /\ committedAt[t] \in Nat
<1>1. history[s] \in Seq(0..MaxTime)
  BY DEF HistoryType
<1>2. MaxTime \in Nat /\ Window \in Nat /\ Cooldown \in Nat
  BY WakeAssumption
<1>3. Len(history[s]) \in Nat /\ \A i \in 1..Len(history[s]) : history[s][i] \in 0..MaxTime
  BY <1>1, LenProperties, ElementOfSeq
<1>4. now \in Nat /\ \A t \in delivered : t \in Tasks /\ committedAt[t] \in Nat
  BY <1>2 DEF OtherTypes, WakeTypes
<1> QED
  BY <1>1, <1>2, <1>3, <1>4

\* When time passes the hour holds fewer wakes.
LEMMA AgeingKeeps ==
    ASSUME OtherTypes, HistoryType, WakeTypes, now' \in Nat, NEW s \in Sessions,
           Sorted(s), Placed(s), Ageing
    PROVE  Sorted(s)' /\ Placed(s)'
<1>1. /\ now \in Nat /\ Window \in Nat
      /\ \A i \in 1..Len(history[s]) : history[s][i] \in Nat
      /\ \A t \in delivered : committedAt[t] \in Nat
  BY HistoryTyped
<1>2. Sorted(s)'
  BY <1>1 DEF Sorted, Ageing
<1>3. Counted(s)' \subseteq Counted(s)
  BY <1>1 DEF Counted, Ageing
<1>4. PICK place : PlacedBy(s, place)
  BY DEF Placed
<1>5. PICK p : p = [t \in Counted(s)' |-> place[t]]
  OBVIOUS
<1>6. history'[s] = history[s] /\ committedAt' = committedAt
  BY DEF Ageing
<1>7. p \in [Counted(s)' -> 1..Len(history'[s])]
  BY <1>3, <1>4, <1>5, <1>6 DEF PlacedBy
<1>8. \A t, u \in Counted(s)' : p[t] = p[u] => t = u
  BY <1>3, <1>4, <1>5 DEF PlacedBy
<1>9. \A t \in Counted(s)' : history'[s][p[t]] = committedAt'[t]
  BY <1>3, <1>4, <1>5, <1>6 DEF PlacedBy
<1> QED
  BY <1>2, <1>7, <1>8, <1>9 DEF Placed, PlacedBy

\* What is popped is no longer in the hour, so the places move up together.
LEMMA PoppingKeeps ==
    ASSUME OtherTypes, HistoryType, WakeTypes, NEW s \in Sessions, NEW u \in Sessions,
           Sorted(s), Placed(s), Popping(u)
    PROVE  Sorted(s)' /\ Placed(s)'
<1>1. CASE s # u
  <2>1. history'[s] = history[s] /\ UNCHANGED <<now, delivered, committedAt>>
    BY <1>1 DEF Popping, HistoryType
  <2>2. Counted(s)' = Counted(s)
    BY <2>1 DEF Counted
  <2> QED
    BY <2>1, <2>2 DEF Sorted, Placed, PlacedBy
<1>2. CASE s = u
  <2>1. /\ now \in Nat /\ Window \in Nat /\ Len(history[s]) \in Nat
        /\ \A i \in 1..Len(history[s]) : history[s][i] \in Nat
        /\ \A t \in delivered : committedAt[t] \in Nat
    BY HistoryTyped
  <2>2. history'[s] = Recent(s) /\ UNCHANGED <<now, delivered, committedAt>>
    BY <1>2 DEF Popping, HistoryType
  <2>3. PICK k \in 0..Len(history[s]) :
           /\ Len(Recent(s)) = Len(history[s]) - k
           /\ \A i \in 1..Len(Recent(s)) : Recent(s)[i] = history[s][i + k]
           /\ \A i \in 1..k : history[s][i] <= now - Window
    BY <2>1, Popped
  <2>4. \A i \in 1..Len(Recent(s)) : i + k \in 1..Len(history[s])
    BY <2>1, <2>3
  <2>5. Sorted(s)'
    <3>1. \A i \in 1..Len(Recent(s)) : Recent(s)[i] <= now
      BY <2>3, <2>4 DEF Sorted
    <3>2. \A i, j \in 1..Len(Recent(s)) : i <= j => Recent(s)[i] <= Recent(s)[j]
      <4> SUFFICES ASSUME NEW i \in 1..Len(Recent(s)), NEW j \in 1..Len(Recent(s)), i <= j
                   PROVE  Recent(s)[i] <= Recent(s)[j]
        OBVIOUS
      <4>1. i + k \in 1..Len(history[s]) /\ j + k \in 1..Len(history[s]) /\ i + k <= j + k
        BY <2>1, <2>3, <2>4
      <4>2. history[s][i + k] <= history[s][j + k]
        BY <4>1 DEF Sorted
      <4> QED
        BY <2>3, <4>2
    <3> QED
      BY <2>2, <3>1, <3>2 DEF Sorted
  <2>6. Counted(s)' = Counted(s)
    BY <2>2 DEF Counted
  <2>7. PICK place : PlacedBy(s, place)
    BY DEF Placed
  <2>8. ASSUME NEW t \in Counted(s) PROVE place[t] \in (k + 1)..Len(history[s])
    <3>1. place[t] \in 1..Len(history[s]) /\ history[s][place[t]] = committedAt[t]
      BY <2>7 DEF PlacedBy
    <3>2. committedAt[t] > now - Window
      BY DEF Counted
    <3>3. ~(place[t] \in 1..k)
      BY <2>1, <2>3, <3>1, <3>2
    <3> QED
      BY <2>1, <3>1, <3>3
  <2>9. PICK p : p = [t \in Counted(s) |-> place[t] - k]
    OBVIOUS
  <2>10. ASSUME NEW t \in Counted(s)
         PROVE  /\ p[t] \in 1..Len(Recent(s)) /\ p[t] + k = place[t]
                /\ Recent(s)[p[t]] = committedAt[t]
    <3>1. p[t] = place[t] - k
      BY <2>9
    <3>2. p[t] \in 1..Len(Recent(s)) /\ p[t] + k = place[t]
      BY <2>1, <2>3, <2>8, <3>1
    <3> QED
      BY <2>3, <2>7, <3>2 DEF PlacedBy
  <2>11. p \in [Counted(s)' -> 1..Len(history'[s])]
    BY <2>2, <2>6, <2>9, <2>10
  <2>12. \A t, v \in Counted(s)' : p[t] = p[v] => t = v
    BY <2>6, <2>7, <2>10 DEF PlacedBy
  <2>13. \A t \in Counted(s)' : history'[s][p[t]] = committedAt'[t]
    BY <2>2, <2>6, <2>10
  <2> QED
    BY <2>5, <2>11, <2>12, <2>13 DEF Placed, PlacedBy
<1> QED
  BY <1>1, <1>2

\* A commit appends the latest time and takes the place behind the others.
LEMMA CommittingKeeps ==
    ASSUME OtherTypes, HistoryType, WakeTypes, delivered \cap reserved = {},
           NEW s \in Sessions, NEW u \in Tasks, Sorted(s), Placed(s), Committing(u)
    PROVE  Sorted(s)' /\ Placed(s)'
<1>1. /\ now \in Nat /\ Window \in Nat /\ Len(history[s]) \in Nat /\ now \in 0..MaxTime
      /\ history[s] \in Seq(0..MaxTime)
      /\ \A i \in 1..Len(history[s]) : history[s][i] \in Nat
      /\ \A t \in delivered : committedAt[t] \in Nat
  BY HistoryTyped DEF OtherTypes
<1>2. /\ u \notin delivered /\ now' = now /\ delivered' = delivered \cup {u}
      /\ \A t \in delivered : committedAt'[t] = committedAt[t]
      /\ committedAt'[u] = now
  BY DEF Committing, OtherTypes, WakeTypes
<1>3. SessionOf[u] \in Sessions
  BY WakeAssumption
<1>4. CASE s # SessionOf[u]
  <2>1. history'[s] = history[s]
    BY <1>3, <1>4 DEF Committing, HistoryType
  <2>2. Counted(s)' = Counted(s)
    BY <1>2, <1>4 DEF Counted
  <2>3. \A t \in Counted(s) : committedAt'[t] = committedAt[t]
    BY <1>2 DEF Counted
  <2> QED
    BY <1>2, <2>1, <2>2, <2>3 DEF Sorted, Placed, PlacedBy
<1>5. CASE s = SessionOf[u]
  <2>1. history'[s] = Append(history[s], now)
    BY <1>3, <1>5 DEF Committing, HistoryType
  <2>2. PICK n \in Nat : n = Len(history[s])
    BY <1>1
  <2>3. /\ Len(history'[s]) = n + 1
        /\ \A i \in 1..n : history'[s][i] = history[s][i]
        /\ history'[s][n + 1] = now
    BY <1>1, <2>1, <2>2, AppendProperties
  <2>4. \A i \in 1..(n + 1) : i \in 1..n \/ i = n + 1
    BY <2>2
  <2>5. Sorted(s)'
    <3>1. \A i \in 1..n : history[s][i] <= now /\ history[s][i] \in Nat
      BY <1>1, <2>2 DEF Sorted
    <3>2. \A i \in 1..(n + 1) : history'[s][i] <= now
      BY <1>1, <2>3, <2>4, <3>1
    <3>3. \A i, j \in 1..(n + 1) : i <= j => history'[s][i] <= history'[s][j]
      <4> SUFFICES ASSUME NEW i \in 1..(n + 1), NEW j \in 1..(n + 1), i <= j
                   PROVE  history'[s][i] <= history'[s][j]
        OBVIOUS
      <4>1. CASE j \in 1..n
        <5>1. i \in 1..n
          BY <2>2, <4>1
        <5> QED
          BY <2>2, <2>3, <4>1, <5>1 DEF Sorted
      <4>2. CASE j = n + 1
        BY <2>3, <3>2, <4>2
      <4> QED
        BY <2>4, <4>1, <4>2
    <3> QED
      BY <1>2, <2>3, <3>2, <3>3 DEF Sorted
  <2>6. Counted(s)' \subseteq Counted(s) \cup {u}
    BY <1>2 DEF Counted
  <2>7. u \notin Counted(s)
    BY <1>2 DEF Counted
  <2>8. PICK place : PlacedBy(s, place)
    BY DEF Placed
  <2>9. PICK p : p = [t \in Counted(s)' |-> IF t = u THEN n + 1 ELSE place[t]]
    OBVIOUS
  <2>10. ASSUME NEW t \in Counted(s)'
         PROVE  /\ t = u => p[t] = n + 1
                /\ t # u => t \in Counted(s) /\ p[t] = place[t] /\ p[t] \in 1..n
    BY <2>2, <2>6, <2>8, <2>9 DEF PlacedBy
  <2>11. p \in [Counted(s)' -> 1..Len(history'[s])]
    BY <2>2, <2>3, <2>9, <2>10
  <2>12. ASSUME NEW t \in Counted(s)', NEW v \in Counted(s)', p[t] = p[v] PROVE t = v
    <3>1. CASE t = u \/ v = u
      BY <2>2, <2>10, <2>12, <3>1
    <3>2. CASE t # u /\ v # u
      BY <2>8, <2>10, <2>12, <3>2 DEF PlacedBy
    <3> QED
      BY <3>1, <3>2
  <2>13. ASSUME NEW t \in Counted(s)' PROVE history'[s][p[t]] = committedAt'[t]
    <3>1. CASE t = u
      BY <1>2, <2>3, <2>10, <3>1
    <3>2. CASE t # u
      <4>1. t \in Counted(s) /\ p[t] = place[t] /\ p[t] \in 1..n
        BY <2>10, <3>2
      <4>2. history[s][place[t]] = committedAt[t] /\ t \in delivered
        BY <2>8, <4>1 DEF PlacedBy, Counted
      <4> QED
        BY <1>2, <2>3, <4>1, <4>2
    <3> QED
      BY <3>1, <3>2
  <2> QED
    BY <2>5, <2>11, <2>12, <2>13 DEF Placed, PlacedBy
<1> QED
  BY <1>4, <1>5

\* Every step keeps the history in order and complete.
LEMMA HistoryKeptStep ==
    ASSUME WakeInv, OtherTypes, HistoryType, HistoryKept, [Next]_vars
    PROVE  HistoryKept'
<1>1. WakeTypes /\ delivered \cap reserved = {}
  BY DEF WakeInv, DeliveredOrSettled
<1>2. OtherTypes' /\ MaxTime \in Nat
  BY <1>1, OtherTypesStep, WakeAssumption
<1>3. now \in Int /\ now' \in Nat
  BY <1>2 DEF OtherTypes
<1>4. HistoryMoves
  BY <1>3, HistoryStep
<1>5. ASSUME NEW s \in Sessions PROVE Sorted(s)' /\ Placed(s)'
  <2>1. Sorted(s) /\ Placed(s)
    BY DEF HistoryKept
  <2>2. CASE Ageing
    BY <1>1, <1>3, <2>1, <2>2, AgeingKeeps
  <2>3. ASSUME NEW u \in Sessions, Popping(u) PROVE Sorted(s)' /\ Placed(s)'
    BY <1>1, <2>1, <2>3, PoppingKeeps
  <2>4. ASSUME NEW u \in Tasks, Committing(u) PROVE Sorted(s)' /\ Placed(s)'
    BY <1>1, <2>1, <2>4, CommittingKeeps
  <2> QED
    BY <1>4, <2>2, <2>3, <2>4 DEF HistoryMoves
<1> QED
  BY <1>5 DEF HistoryKept

-----------------------------------------------------------------------------
(***************************************************************************)
(* Reservations that are open together.                                    *)
(***************************************************************************)

\* What a step does to them: nothing but give some up,
Giving == reserved' \subseteq reserved /\ UNCHANGED rivals

\* or open one.
Reserving(t) ==
    /\ TryReserve(t) /\ WithinBudget(Recent(SessionOf[t]))
    /\ reserved' = reserved \cup {t} /\ rivals' = Meet(t)
    /\ UNCHANGED <<now, delivered, committedAt>>

\* Only try_reserve opens a reservation.
LEMMA ReservingStep ==
    ASSUME [Next]_vars
    PROVE  Giving \/ \E t \in Tasks : Reserving(t)
<1>1. ASSUME NEW t \in Tasks,
             \/ Exit(t) \/ ClosePipes(t) \/ Monitor(t) \/ EndWakeTurn(t) \/ FailStart(t)
             \/ AskTurn(t) \/ AskPlan(t) \/ Recheck(t) \/ DeferTimeout(t)
             \/ StartTurn(t) \/ CommitStart(t)
      PROVE  Giving
  BY <1>1 DEF Giving, Exit, ClosePipes, Monitor, EndWakeTurn, FailStart, AskTurn, AskPlan, Recheck,
     DeferTimeout, StartTurn, CommitStart, Commit, Release, policy
<1>2. ASSUME LoseEvent \/ Receive \/ Users \/ Clock \/ UNCHANGED vars PROVE Giving
  BY <1>2 DEF Giving, LoseEvent, Receive, MarkKilled, Users, UserBegins, UserEnds, Clock, policy, vars
<1>3. ASSUME NEW c \in Callers,
             \/ \E t \in Tasks : BeginObservation(c, t) \/ AnnounceKill(c, t)
             \/ ReadProcess(c) \/ ReadFails(c) \/ EndObservation(c) \/ DropCaller(c)
             \/ KillProcess(c) \/ KillFails(c)
      PROVE  Giving
  BY <1>3 DEF Giving, BeginObservation, AnnounceKill, MarkKilled, ReadProcess, ReadFails,
     EndObservation, FinishObservation, DropCaller, KillProcess, KillFails, policy
<1>4. ASSUME NEW t \in Tasks, TryReserve(t) PROVE Giving \/ Reserving(t)
  BY <1>4 DEF TryReserve, Giving, Reserving
<1> QED
  BY <1>1, <1>2, <1>3, <1>4 DEF Next, Runtime, Calls, Handle

\* A reservation that is opened meets those of its session.
LEMMA Meeting ==
    ASSUME RivalsType, reserved \subseteq Tasks, NEW t \in Tasks, Reserving(t)
    PROVE  /\ RivalsType'
           /\ \A u \in Tasks : rivals[u] \subseteq rivals'[u]
           /\ \A u \in reserved : SessionOf[u] = SessionOf[t] =>
                u \in rivals'[t] /\ (u # t => t \in rivals'[u])
<1>1. PICK open : open = {u \in reserved : SessionOf[u] = SessionOf[t]}
  OBVIOUS
<1>2. rivals' = [u \in Tasks |-> IF u = t THEN rivals[u] \cup open
                                 ELSE IF u \in open THEN rivals[u] \cup {t} ELSE rivals[u]]
  BY <1>1 DEF Reserving, Meet
<1>3. RivalsType'
  BY <1>1, <1>2 DEF RivalsType
<1>4. \A u \in Tasks : rivals[u] \subseteq rivals'[u]
  BY <1>2
<1>5. ASSUME NEW u \in reserved, SessionOf[u] = SessionOf[t]
      PROVE  u \in rivals'[t] /\ (u # t => t \in rivals'[u])
  <2>1. u \in open
    BY <1>1, <1>5
  <2> QED
    BY <1>2, <1>5, <2>1
<1> QED
  BY <1>3, <1>4, <1>5

LEMMA RivalsTypeStep ==
    ASSUME RivalsType, reserved \subseteq Tasks, [Next]_vars
    PROVE  RivalsType'
BY ReservingStep, Meeting DEF Giving, RivalsType

-----------------------------------------------------------------------------
(***************************************************************************)
(* The types, and what the budget means for the past.                      *)
(***************************************************************************)
PolicyInv == WakeInv /\ OtherTypes /\ HistoryType /\ RivalsType /\ HistoryKept

\* The history starts with the wake that a session already had, if any.
LEMMA PolicyInvInit == Init => PolicyInv
<1> SUFFICES ASSUME Init PROVE PolicyInv
  OBVIOUS
<1>1. MaxTime \in Nat /\ MaxActs \in Nat
  BY WakeAssumption
<1>2. OtherTypes
  BY <1>1, WakeAssumption DEF Init, OtherTypes
<1>3. /\ <<>> \in Seq(0..MaxTime) /\ Len(<<>>) = 0
      /\ <<0>> \in Seq(0..MaxTime) /\ Len(<<0>>) = 1 /\ <<0>>[1] = 0
  BY <1>1, EmptySeq
<1>4. HistoryType /\ RivalsType
  BY <1>3 DEF Init, HistoryType, RivalsType
<1>5. ASSUME NEW s \in Sessions PROVE Sorted(s) /\ Placed(s)
  <2>1. now = 0 /\ delivered = Early /\ \A t \in Early : committedAt[t] = 0
    BY WakeAssumption DEF Init
  <2>2. CASE \A t \in Early : SessionOf[t] # s
    <3>1. Len(history[s]) = 0 /\ Counted(s) = {}
      BY <1>3, <2>1, <2>2 DEF Init, Counted
    <3>2. PICK p : p = [t \in {} |-> 0]
      OBVIOUS
    <3>3. p \in [Counted(s) -> 1..Len(history[s])]
      BY <3>1, <3>2
    <3>4. PlacedBy(s, p)
      BY <3>1, <3>3 DEF PlacedBy
    <3> QED
      BY <3>1, <3>4 DEF Sorted, Placed
  <2>3. ASSUME NEW e \in Early, SessionOf[e] = s PROVE Sorted(s) /\ Placed(s)
    <3>1. history[s] = <<0>>
      BY <2>3 DEF Init
    <3>2. Len(history[s]) = 1 /\ history[s][1] = 0
      BY <1>3, <3>1
    <3>3. \A t \in Counted(s) : t = e /\ committedAt[t] = 0
      BY <2>1, <2>3, WakeAssumption DEF Counted
    <3>4. PICK p : p = [t \in Counted(s) |-> 1]
      OBVIOUS
    <3>5. PlacedBy(s, p)
      BY <3>2, <3>3, <3>4 DEF PlacedBy
    <3>6. \A i \in 1..Len(history[s]) : i = 1
      BY <3>2
    <3> QED
      BY <2>1, <3>2, <3>5, <3>6 DEF Sorted, Placed
  <2> QED
    BY <2>2, <2>3
<1> QED
  BY <1>2, <1>4, <1>5, WakeInvInit DEF PolicyInv, HistoryKept

\* The types and the history hold together with the reservations.
LEMMA PolicyInvariant == Spec => []PolicyInv
<1>1. PolicyInv /\ [Next]_vars => PolicyInv'
  BY TypesStep, PublishedStep, OwnedStep, DeliveredStep, OtherTypesStep, HistoryTypeStep,
     RivalsTypeStep, HistoryKeptStep
  DEF PolicyInv, WakeInv, WakeTypes
<1> QED
  BY PolicyInvInit, <1>1, PTL DEF Spec

\* The state of the runtime, the policy, the wake loop and the callers has its
\* type; the history holds times that were.
THEOREM TypeCorrect == Spec => []TypeOK
<1>1. PolicyInv => TypeOK
  BY DEF PolicyInv, WakeInv, WakeTypes, OtherTypes, HistoryType, RivalsType, TypeOK
<1> QED
  BY PolicyInvariant, <1>1, PTL

\* What try_reserve finds in the history it found of the past.
LEMMA BudgetStep ==
    ASSUME PolicyInv, Cooldown <= Window, NEW u \in Tasks, Reserving(u)
    PROVE  /\ \A t \in delivered : SessionOf[t] = SessionOf[u] => now - committedAt[t] >= Cooldown
           /\ IsFiniteSet(Counted(SessionOf[u])) /\ Cardinality(Counted(SessionOf[u])) < MaxWakes
<1>0. WakeTypes /\ OtherTypes /\ HistoryType /\ HistoryKept
  BY DEF PolicyInv, WakeInv
<1>1. WithinBudget(Recent(SessionOf[u]))
  BY DEF Reserving
<1>2. PICK s \in Sessions : s = SessionOf[u]
  BY WakeAssumption
<1>3. /\ now \in Nat /\ Window \in Nat /\ Cooldown \in Nat /\ Len(history[s]) \in Nat
      /\ \A i \in 1..Len(history[s]) : history[s][i] \in Nat
      /\ \A t \in delivered : committedAt[t] \in Nat
  BY <1>0, HistoryTyped
<1>4. PICK r : r = Recent(s)
  OBVIOUS
<1>5. PICK k \in 0..Len(history[s]) :
         /\ Len(r) = Len(history[s]) - k
         /\ \A i \in 1..Len(r) : r[i] = history[s][i + k]
         /\ \A i \in 1..k : history[s][i] <= now - Window
  BY <1>0, <1>3, <1>4, Popped
<1>6. r \in Seq(0..MaxTime)
  BY <1>0, <1>3, <1>4, Popped
<1>7. r # <<>> => now - r[Len(r)] >= Cooldown
  BY <1>1, <1>2, <1>4 DEF WithinBudget, LastIn
<1>8. Len(r) < MaxWakes /\ MaxWakes \in Nat
  BY <1>1, <1>2, <1>4, WakeAssumption DEF WithinBudget
<1>9. PICK place : PlacedBy(s, place)
  BY <1>0 DEF HistoryKept, Placed
<1>10. ASSUME NEW t \in Counted(s) PROVE place[t] \in (k + 1)..Len(history[s])
  <2>1. place[t] \in 1..Len(history[s]) /\ history[s][place[t]] = committedAt[t]
    BY <1>9 DEF PlacedBy
  <2>2. committedAt[t] > now - Window
    BY DEF Counted
  <2>3. ~(place[t] \in 1..k)
    BY <1>3, <1>5, <2>1, <2>2
  <2> QED
    BY <1>3, <2>1, <2>3
<1>11. ASSUME NEW t \in delivered, SessionOf[t] = s PROVE now - committedAt[t] >= Cooldown
  <2>1. CASE t \in Counted(s)
    <3>1. /\ place[t] \in (k + 1)..Len(history[s])
          /\ history[s][place[t]] = committedAt[t]
      BY <1>9, <1>10, <2>1 DEF PlacedBy
    <3>2. Len(r) \in Nat \ {0} /\ Len(r) + k = Len(history[s])
      BY <1>3, <1>5, <3>1
    <3>3. r # <<>>
      BY <3>2, EmptySeq
    <3>4. r[Len(r)] = history[s][Len(history[s])]
      BY <1>5, <3>2
    <3>5. history[s][place[t]] <= history[s][Len(history[s])]
      BY <1>0, <1>3, <1>5, <3>1 DEF HistoryKept, Sorted
    <3>6. Len(history[s]) \in 1..Len(history[s])
      BY <1>3, <1>5, <3>1
    <3>7. PICK last \in Nat : last = history[s][Len(history[s])]
      BY <1>3, <3>6
    <3>8. committedAt[t] <= last /\ now - last >= Cooldown
      BY <1>7, <3>1, <3>3, <3>4, <3>5, <3>7
    <3>9. committedAt[t] \in Nat
      BY <1>3, <1>11
    <3> QED
      BY <1>3, <3>7, <3>8, <3>9
  <2>2. CASE t \notin Counted(s)
    BY <1>3, <1>11, <2>2 DEF Counted
  <2> QED
    BY <2>1, <2>2
<1>12. PICK f : f = [t \in Counted(s) |-> place[t] - k]
  OBVIOUS
<1>13. ASSUME NEW t \in Counted(s) PROVE f[t] \in 1..Len(r) /\ f[t] + k = place[t]
  <2>1. f[t] = place[t] - k
    BY <1>12
  <2> QED
    BY <1>3, <1>5, <1>10, <2>1
<1>14. f \in [Counted(s) -> 1..Len(r)]
  BY <1>12, <1>13
<1>15. \A t, v \in Counted(s) : f[t] = f[v] => t = v
  BY <1>9, <1>13 DEF PlacedBy
<1>16. f \in Injection(Counted(s), 1..Len(r))
  BY <1>14, <1>15 DEF Injection, IsInjective
<1>17. Len(r) \in Nat /\ IsFiniteSet(1..Len(r)) /\ Cardinality(1..Len(r)) = Len(r)
  <2>1. Len(r) \in Nat
    BY <1>6, LenProperties
  <2>2. PICK n \in Int : n = Len(r)
    BY <2>1
  <2>3. IsFiniteSet(1..n) /\ Cardinality(1..n) = IF 1 > n THEN 0 ELSE n - 1 + 1
    BY FS_Interval
  <2> QED
    BY <2>1, <2>2, <2>3
<1>18. IsFiniteSet(Counted(s)) /\ Cardinality(Counted(s)) <= Len(r)
  BY <1>16, <1>17, FS_Injection
<1>19. Cardinality(Counted(s)) < MaxWakes
  BY <1>8, <1>17, <1>18, FS_CardinalityType
<1> QED
  BY <1>2, <1>11, <1>18, <1>19

-----------------------------------------------------------------------------
(***************************************************************************)
(* From the reservation to the commit.                                     *)
(***************************************************************************)

\* The wakes of its session that count for u, and those of the rolling hour.
Before(u) == {t \in delivered : SessionOf[t] = SessionOf[u] /\ t \notin rivals[u]}
Lately(u) == {t \in Before(u) : committedAt[t] > now - Window}

\* u may still be committed within the limits.
Room(u) ==
    /\ \A t \in Before(u) : now - committedAt[t] >= Cooldown
    /\ IsFiniteSet(Lately(u)) /\ Cardinality(Lately(u)) < MaxWakes

\* Reservations of a session that are open together know each other,
RivalsMeet ==
    \A u, v \in reserved : u # v /\ SessionOf[u] = SessionOf[v] => v \in rivals[u]

\* so what is committed between a reservation and its own commit does not count.
RoomKept == \A u \in reserved : Room(u)

BudgetInv == PolicyInv /\ RivalsMeet /\ RoomKept

\* With fewer wakes to count there is still room.
LEMMA RoomShrinks ==
    ASSUME PolicyInv, NEW u \in reserved, Room(u), now' >= now, now' \in Nat,
           Before(u)' \subseteq Before(u), \A t \in Before(u) : committedAt'[t] = committedAt[t]
    PROVE  Room(u)'
<1>1. WakeTypes /\ OtherTypes /\ HistoryType
  BY DEF PolicyInv, WakeInv
<1>2. /\ now \in Nat /\ Window \in Nat /\ Cooldown \in Nat /\ MaxWakes \in Nat
      /\ \A t \in Before(u) : committedAt[t] \in Nat
  BY <1>1, WakeAssumption DEF OtherTypes, WakeTypes, Before
<1>3. \A t \in Before(u)' : now' - committedAt'[t] >= Cooldown
  BY <1>2 DEF Room
<1>4. Lately(u)' \subseteq Lately(u)
  BY <1>2 DEF Lately
<1>5. IsFiniteSet(Lately(u)') /\ Cardinality(Lately(u)') <= Cardinality(Lately(u))
  BY <1>4, FS_Subset DEF Room
<1>6. Cardinality(Lately(u)') \in Nat /\ Cardinality(Lately(u)) \in Nat
  BY <1>5, FS_CardinalityType DEF Room
<1>7. Cardinality(Lately(u)') < MaxWakes
  BY <1>2, <1>5, <1>6 DEF Room
<1> QED
  BY <1>3, <1>5, <1>7 DEF Room

\* Reservations that are open together stay known to each other.
LEMMA RivalsMeetStep ==
    ASSUME PolicyInv, RivalsMeet, [Next]_vars
    PROVE  RivalsMeet'
<1>1. RivalsType /\ reserved \subseteq Tasks
  BY DEF PolicyInv, WakeInv, WakeTypes
<1>2. CASE Giving
  BY <1>2 DEF Giving, RivalsMeet
<1>3. ASSUME NEW t \in Tasks, Reserving(t) PROVE RivalsMeet'
  <2>1. reserved' = reserved \cup {t}
    BY <1>3 DEF Reserving
  <2>2. \A u \in Tasks : rivals[u] \subseteq rivals'[u]
    BY <1>1, <1>3, Meeting
  <2>3. \A u \in reserved : SessionOf[u] = SessionOf[t] => u \in rivals'[t] /\ (u # t => t \in rivals'[u])
    BY <1>1, <1>3, Meeting
  <2> QED
    BY <1>1, <2>1, <2>2, <2>3 DEF RivalsMeet
<1> QED
  BY <1>2, <1>3, ReservingStep

\* A reservation that is open has room until it is committed.
LEMMA RoomStep ==
    ASSUME PolicyInv, Cooldown <= Window, RivalsMeet, RoomKept, PolicyInv', [Next]_vars
    PROVE  RoomKept'
<1>1. /\ RivalsType /\ reserved \subseteq Tasks /\ delivered \cap reserved = {}
      /\ delivered \subseteq Tasks /\ committedAt \in [Tasks -> 0..(MaxTime + 1)]
      /\ delivered' \cap reserved' = {}
      /\ now \in Nat /\ now' \in Nat
  BY WakeAssumption DEF PolicyInv, WakeInv, WakeTypes, OtherTypes, DeliveredOrSettled
<1>2. CASE Giving
  <2> SUFFICES ASSUME NEW u \in reserved' PROVE Room(u)'
    BY DEF RoomKept
  <2>1. u \in reserved /\ Room(u) /\ UNCHANGED rivals
    BY <1>2 DEF Giving, RoomKept
  <2>2. CASE UNCHANGED <<delivered, committedAt>> /\ now' >= now
    <3>1. Before(u)' = Before(u)
      BY <2>1, <2>2 DEF Before
    <3> QED
      BY <1>1, <2>1, <2>2, <3>1, RoomShrinks
  <2>3. ASSUME NEW t \in Tasks, Committing(t) PROVE Room(u)'
    <3>1. t \in reserved /\ delivered' = delivered \cup {t} /\ now' = now
          /\ committedAt' = [committedAt EXCEPT ![t] = now]
      BY <2>3 DEF Committing
    <3>2. t # u /\ (SessionOf[t] = SessionOf[u] => t \in rivals[u])
      BY <1>1, <2>1, <3>1 DEF RivalsMeet
    <3>3. Before(u)' = Before(u)
      BY <2>1, <3>1, <3>2 DEF Before
    <3>4. \A v \in Before(u) : committedAt'[v] = committedAt[v]
      BY <1>1, <3>1 DEF Before
    <3> QED
      BY <1>1, <2>1, <3>1, <3>3, <3>4, RoomShrinks
  <2> QED
    BY <1>1, <2>2, <2>3, HistoryStep DEF HistoryMoves, Ageing, Popping
<1>3. ASSUME NEW r \in Tasks, Reserving(r) PROVE RoomKept'
  <2> SUFFICES ASSUME NEW u \in reserved' PROVE Room(u)'
    BY DEF RoomKept
  <2>1. UNCHANGED <<now, delivered, committedAt>> /\ reserved' = reserved \cup {r}
        /\ \A v \in Tasks : rivals[v] \subseteq rivals'[v]
    BY <1>1, <1>3, Meeting DEF Reserving
  <2>2. u \in Tasks
    BY <1>1, <2>1
  <2>3. Before(u)' \subseteq Before(u)
    BY <2>1, <2>2 DEF Before
  <2>4. CASE u \in reserved
    BY <1>1, <2>1, <2>3, <2>4, RoomShrinks DEF RoomKept
  <2>5. CASE u = r
    <3>1. /\ \A t \in delivered : SessionOf[t] = SessionOf[u] => now - committedAt[t] >= Cooldown
          /\ IsFiniteSet(Counted(SessionOf[u])) /\ Cardinality(Counted(SessionOf[u])) < MaxWakes
      BY <1>3, <2>5, BudgetStep
    <3>2. Lately(u)' \subseteq Counted(SessionOf[u])
      BY <2>1 DEF Lately, Before, Counted
    <3>3. IsFiniteSet(Lately(u)') /\ Cardinality(Lately(u)') <= Cardinality(Counted(SessionOf[u]))
      BY <3>1, <3>2, FS_Subset
    <3>4. Cardinality(Lately(u)') < MaxWakes
      BY <3>1, <3>3, FS_CardinalityType, WakeAssumption
    <3>5. \A t \in Before(u)' : now' - committedAt'[t] >= Cooldown
      BY <2>1, <3>1 DEF Before
    <3> QED
      BY <3>3, <3>4, <3>5 DEF Room
  <2> QED
    BY <2>1, <2>4, <2>5
<1> QED
  BY <1>2, <1>3, ReservingStep

LEMMA BudgetInvariant == ASSUME Cooldown <= Window PROVE Spec => []BudgetInv
<1>1. Init => BudgetInv
  <2>1. Init => reserved = {}
    BY DEF Init
  <2> QED
    BY <2>1, PolicyInvInit DEF BudgetInv, RivalsMeet, RoomKept
<1>2. PolicyInv /\ [Next]_vars => PolicyInv'
  BY TypesStep, PublishedStep, OwnedStep, DeliveredStep, OtherTypesStep, HistoryTypeStep,
     RivalsTypeStep, HistoryKeptStep
  DEF PolicyInv, WakeInv, WakeTypes
<1>3. BudgetInv /\ [Next]_vars => BudgetInv'
  BY <1>2, RivalsMeetStep, RoomStep DEF BudgetInv
<1> QED
  BY <1>1, <1>3, PTL DEF Spec

\* A task that is delivered was reserved, and there was room for it.
LEMMA CommitStep ==
    ASSUME BudgetInv, [Next]_vars, NEW u \in delivered' \ delivered
    PROVE  Room(u)
<1>1. now \in Nat
  BY WakeAssumption DEF BudgetInv, PolicyInv, OtherTypes
<1>2. u \in reserved
  BY <1>1, HistoryStep DEF HistoryMoves, Ageing, Popping, Committing
<1> QED
  BY <1>2 DEF BudgetInv, RoomKept

\* cooldown_secs and max_wakes_per_hour hold of the wakes of a session when they
\* are committed, those apart whose reservations overlapped, although try_reserve
\* forgets what is older than an hour: provided that the cooldown is no longer
\* than that.
THEOREM BudgetCorrect == ASSUME Cooldown <= Window PROVE Spec => BudgetKept
<1>1. BudgetInv /\ [Next]_vars
        => [\A u \in delivered' \ delivered :
              LET before == {t \in delivered : SessionOf[t] = SessionOf[u] /\ t \notin rivals[u]}
              IN  /\ \A t \in before : now - committedAt[t] >= Cooldown
                  /\ Cardinality({t \in before : committedAt[t] > now - Window}) < MaxWakes]_vars
  BY CommitStep DEF Room, Before, Lately
<1> QED
  BY BudgetInvariant, <1>1, PTL DEF Spec, BudgetKept

=============================================================================
