----------------------------- MODULE ChatTurns -----------------------------
(***************************************************************************)
(* The chat runs of one session: the worker that executes a turn, the      *)
(* forwarder that publishes its progress, the TODO queue and the steer     *)
(* slot that clients fill while the turn runs, its questions, and its      *)
(* cancellation.  Runs of one session may overlap: nothing refuses a       *)
(* second request.                                                         *)
(***************************************************************************)
EXTENDS SessionEvents, SequencesExt

CONSTANTS
  Todos,     \* TODO messages
  MaxSteps,  \* max_iterations of the agent
  MaxMoves   \* how often a client steers, takes back or deletes a TODO

ASSUME TurnsAssumption == MaxSteps \in Nat \ {0} /\ MaxMoves \in Nat

VARIABLES
  run,    \* each run: [at, token, outcome, steps, notes]
  queue,  \* the session's follow-up queue: [open, accepting, items, steering]
  slot,   \* the session's steering slot, a set of at most one TODO
  fate,   \* what became of each TODO (history)
  moves

turnVars == <<run, queue, slot, fate, moves>>
vars == <<eventVars, turnVars>>

NoQueue == [open |-> FALSE, accepting |-> FALSE, items |-> <<>>, steering |-> {}]
NewQueue == [NoQueue EXCEPT !.open = TRUE, !.accepting = TRUE]

Preparing == {"cleared", "prepared", "publishing", "opening", "counting"}
Executing == {"top", "calling", "asking", "stopping"}
Ending == {"ending", "closed", "reporting", "cleaning"}
Over == {"done", "refused", "dropped"}

Items == {queue.items[i] : i \in DOMAIN queue.items}
Live(r) == run[r].at \in Executing \cup {"ending"}

TypeOK ==
  /\ EventsTypeOK
  /\ \A r \in Runs :
       /\ run[r].at \in {"idle"} \cup Preparing \cup Executing \cup Ending \cup Over
       /\ run[r].token \in {"none", "held", "cancelled"}
       /\ run[r].outcome \in {"none", "complete", "error", "panic"}
       /\ run[r].steps \in 0..MaxSteps + 1
       /\ run[r].notes \in Seq({"ask", "note"})
  /\ queue.items \in Seq(Todos) /\ queue.steering \subseteq Items
  /\ Cardinality(Items) = Len(queue.items)
  /\ slot \subseteq Todos /\ Cardinality(slot) <= 1
  /\ fate \in [Todos -> {"new", "queued", "injected", "deleted", "discarded"}]
  /\ moves \in 0..MaxMoves

Init ==
  /\ EventsInit
  /\ run = [r \in Runs |-> [at |-> "idle", token |-> "none", outcome |-> "none",
                            steps |-> 0, notes |-> <<>>]]
  /\ queue = NoQueue /\ slot = {}
  /\ fate = [t \in Todos |-> "new"]
  /\ moves = 0

---------------------------------------------------------------------------
(* The operations of the TODO queue, each under its locks. *)

Go(r, stage) == run' = [run EXCEPT ![r].at = stage]

Discard ==
  fate' = [t \in Todos |-> IF t \in Items /\ fate[t] = "queued"
                           THEN "discarded" ELSE fate[t]]

\* clear_pending_steer.
ClearSteer ==
  /\ slot' = {}
  /\ queue' = [queue EXCEPT !.steering = @ \ slot]
  /\ UNCHANGED fate

\* clear_follow_ups, and the first half of finish_follow_up_run.
DropQueue ==
  /\ queue' = NoQueue
  /\ Discard
  /\ UNCHANGED slot

\* begin_follow_up_run.
OpenQueue ==
  /\ queue' = NewQueue
  /\ Discard
  /\ UNCHANGED slot

\* retain, with the identifier of the TODO in T, if there is one: identifiers are
\* unique, so at most one item goes.
Retained(T) ==
  LET gone == {i \in DOMAIN queue.items : queue.items[i] \in T}
  IN  IF gone = {} THEN queue.items
      ELSE RemoveAt(queue.items, CHOOSE i \in gone : TRUE)

\* Mutant: the taken TODO keeps its steering mark.
WithoutItem(T) == [queue EXCEPT !.items = Retained(T)]

Without(T) == [queue EXCEPT !.items = Retained(T), !.steering = @ \ T]

Injects(T) == fate' = [t \in Todos |-> IF t \in T THEN "injected" ELSE fate[t]]

\* take_pending_steer.
TakeSteer ==
  /\ slot' = {}
  /\ queue' = Without(slot)
  /\ Injects(slot)

\* take_next_run_input_or_close.  A queue that another run closed gives None
\* and leaves the slot alone.
NextInput ==
  IF ~queue.open THEN {}
  ELSE IF slot # {} THEN slot
  ELSE IF queue.items # <<>> THEN {Head(queue.items)} ELSE {}

\* Mutant: an empty queue is left accepting.
TakeNext ==
  /\ queue' = Without(NextInput)
  /\ slot' = IF queue.open THEN {} ELSE slot
  /\ Injects(NextInput)

TakeNextOrClose ==
  /\ queue' = IF queue.open /\ NextInput = {}
              THEN [queue EXCEPT !.accepting = FALSE]
              ELSE Without(NextInput)
  /\ slot' = IF queue.open THEN {} ELSE slot
  /\ Injects(NextInput)

Taken(T) == IF T = {} THEN <<>> ELSE <<"note">>

---------------------------------------------------------------------------
(* chat_send: prepare_turn, then spawn_llm_worker up to the spawned task. *)

Prepare(r) ==
  /\ run[r].at = "idle"
  /\ Go(r, "cleared")
  /\ ClearSteer
  /\ UNCHANGED <<eventVars, moves>>

PrepareQueue(r) ==
  /\ run[r].at = "cleared"
  /\ Go(r, "prepared")
  /\ DropQueue
  /\ UNCHANGED <<eventVars, moves>>

Register(r) ==
  /\ run[r].at = "prepared"
  /\ run' = [run EXCEPT ![r].at = "publishing", ![r].token = "held"]
  /\ UNCHANGED <<eventVars, queue, slot, fate, moves>>

PublishStarted(r) ==
  /\ run[r].at = "publishing"
  /\ \/ /\ Insert("started", r)
        /\ Go(r, "opening")
        /\ UNCHANGED faults
     \/ /\ Fail
        /\ run' = [run EXCEPT ![r].at = "refused", ![r].token = "none"]
        /\ UNCHANGED <<log, unsent>>
  /\ UNCHANGED <<open, feed, breaks, queue, slot, fate, moves>>

OpenTurn(r) ==
  /\ run[r].at = "opening"
  /\ Go(r, "counting")
  /\ OpenQueue
  /\ UNCHANGED <<eventVars, moves>>

\* The run is announced once its queue is open.
Launch(r) ==
  /\ run[r].at = "counting"
  /\ Go(r, "top")
  /\ \E i \in unsent : log[i] = [kind |-> "started", run |-> r] /\ Broadcast(i)
  /\ UNCHANGED <<log, open, faults, breaks, queue, slot, fate, moves>>

\* The client goes away and the request handler is dropped at an await, or
\* the preparation of the turn fails.
DropRequest(r) ==
  /\ run[r].at \in Preparing \ {"cleared"}
  /\ breaks < MaxBreaks
  /\ breaks' = breaks + 1
  /\ Go(r, "dropped")
  /\ UNCHANGED <<log, unsent, open, feed, faults, queue, slot, fate, moves>>

---------------------------------------------------------------------------
(* The turn: the loop of the agent executor. *)

End(r, outcome) ==
  run' = [run EXCEPT ![r].at = "ending", ![r].outcome = outcome]

Quiet == UNCHANGED <<eventVars, queue, slot, fate, moves>>

\* The token is looked at before each iteration and during the model's call.
Cancelled(r) ==
  /\ run[r].at \in {"top", "calling"}
  /\ run[r].token = "cancelled"
  /\ End(r, "error")
  /\ Quiet

\* A steer is taken even by the iteration that exceeds the limit.
LoopTop(r) ==
  /\ run[r].at = "top"
  /\ run[r].token # "cancelled"
  /\ TakeSteer
  /\ run' = [run EXCEPT
       ![r].steps = @ + 1,
       ![r].notes = @ \o Taken(slot)
                      \o IF run[r].steps = MaxSteps THEN <<"note">> ELSE <<>>,
       ![r].at = IF run[r].steps = MaxSteps THEN "ending" ELSE "calling",
       ![r].outcome = IF run[r].steps = MaxSteps THEN "error" ELSE @]
  /\ UNCHANGED <<eventVars, moves>>

\* The model answers with tool calls.
CallTools(r) ==
  /\ run[r].at = "calling"
  /\ run' = [run EXCEPT ![r].at = "top", ![r].notes = Append(@, "note")]
  /\ Quiet

\* One of the tools asks the user.
Ask(r) ==
  /\ run[r].at = "calling"
  /\ r \notin open /\ ~Asked(r)
  /\ \A i \in DOMAIN run[r].notes : run[r].notes[i] # "ask"
  /\ open' = open \cup {r}
  /\ run' = [run EXCEPT ![r].at = "asking", ![r].notes = @ \o <<"ask", "note">>]
  /\ UNCHANGED <<log, unsent, feed, faults, breaks, queue, slot, fate, moves>>

\* The answer arrived, or the time is over, or the run is cancelled.
Resume(r) ==
  /\ run[r].at = "asking"
  /\ open' = open \ {r}
  /\ Go(r, "top")
  /\ UNCHANGED <<log, unsent, feed, faults, breaks, queue, slot, fate, moves>>

\* The model stops.
Stop(r) ==
  /\ run[r].at = "calling"
  /\ Go(r, "stopping")
  /\ Quiet

NextOrFinal(r) ==
  /\ run[r].at = "stopping"
  /\ TakeNextOrClose
  /\ run' = IF NextInput # {}
            THEN [run EXCEPT ![r].at = "top", ![r].notes = Append(@, "note")]
            ELSE [run EXCEPT ![r].at = "ending", ![r].outcome = "complete"]
  /\ UNCHANGED <<eventVars, moves>>

CallFails(r) ==
  /\ run[r].at = "calling"
  /\ \/ run' = [run EXCEPT ![r].at = "ending", ![r].outcome = "error",
                             ![r].notes = Append(@, "note")]
     \/ End(r, "panic")
  /\ Quiet

---------------------------------------------------------------------------
(* The forwarder of a run's progress: each event is inserted, then emitted; *)
(* what cannot be inserted is not emitted.                                  *)

Forwarded(r) == {i \in unsent : log[i].run = r /\ log[i].kind \in {"ask", "note"}}

Forward(r) ==
  /\ run[r].notes # <<>>
  /\ Forwarded(r) = {}
  /\ run' = [run EXCEPT ![r].notes = Tail(@)]
  /\ LET kind == Head(run[r].notes) IN
     \/ Insert(kind, r) /\ UNCHANGED faults
     \/ Fail /\ UNCHANGED <<log, unsent>>
  /\ UNCHANGED <<open, feed, breaks, queue, slot, fate, moves>>

Emit(r) ==
  /\ \E i \in unsent : log[i].run = r /\ log[i].kind # "started" /\ Broadcast(i)
  /\ UNCHANGED <<log, open, faults, breaks, turnVars>>

---------------------------------------------------------------------------
(* The end of the worker.  After a panic nobody waits for the forwarder. *)

Flushed(r) == run[r].notes = <<>> /\ Forwarded(r) = {}

Finish(r) ==
  /\ run[r].at = "ending"
  /\ run[r].outcome = "panic" \/ Flushed(r)
  /\ Go(r, "closed")
  /\ DropQueue
  /\ UNCHANGED <<eventVars, moves>>

FinishSteer(r) ==
  /\ run[r].at = "closed"
  /\ Go(r, "reporting")
  /\ ClearSteer
  /\ UNCHANGED <<eventVars, moves>>

Report(r) ==
  /\ run[r].at = "reporting"
  /\ Go(r, "cleaning")
  /\ \/ /\ Insert(IF run[r].outcome = "complete" THEN "complete" ELSE "error", r)
        /\ UNCHANGED faults
     \/ Fail /\ UNCHANGED <<log, unsent>>
  /\ UNCHANGED <<open, feed, breaks, queue, slot, fate, moves>>

\* Mutant: a run whose end was not recorded is not cleaned up.
CleanReported(r) ==
  /\ run[r].at = "cleaning"
  /\ \E i \in DOMAIN log \ unsent : log[i].run = r /\ log[i].kind \in Terminal
  /\ run' = [run EXCEPT ![r].at = "done", ![r].token = "none"]
  /\ UNCHANGED <<eventVars, queue, slot, fate, moves>>

Clean(r) ==
  /\ run[r].at = "cleaning"
  /\ \A i \in unsent : log[i].run = r => log[i].kind \notin Terminal
  /\ run' = [run EXCEPT ![r].at = "done", ![r].token = "none"]
  /\ UNCHANGED <<eventVars, queue, slot, fate, moves>>

---------------------------------------------------------------------------
(* Clients. *)

\* chat_cancel: the token is taken out of pending_runs and cancelled.
Cancel(r) ==
  /\ run[r].token = "held"
  /\ run' = [run EXCEPT ![r].token = "cancelled"]
  /\ Quiet

AddTodo(t) ==
  /\ fate[t] = "new"
  /\ queue.accepting
  /\ queue' = [queue EXCEPT !.items = Append(@, t)]
  /\ fate' = [fate EXCEPT ![t] = "queued"]
  /\ UNCHANGED <<eventVars, run, slot, moves>>

Move ==
  /\ moves < MaxMoves
  /\ moves' = moves + 1
  /\ UNCHANGED <<eventVars, run>>

SteerTodo(t) ==
  /\ slot = {}
  /\ queue.accepting /\ t \in Items
  /\ slot' = {t}
  /\ queue' = [queue EXCEPT !.steering = @ \cup {t}]
  /\ UNCHANGED fate
  /\ Move

UnsteerTodo(t) ==
  /\ slot = {t}
  /\ queue.accepting /\ t \in Items
  /\ slot' = {}
  /\ queue' = [queue EXCEPT !.steering = @ \ {t}]
  /\ UNCHANGED fate
  /\ Move

DeleteTodo(t) ==
  /\ t \in Items \ queue.steering
  /\ queue' = Without({t})
  /\ fate' = [fate EXCEPT ![t] = "deleted"]
  /\ UNCHANGED slot
  /\ Move

---------------------------------------------------------------------------
TurnStep(r) ==
  \/ Cancelled(r) \/ LoopTop(r) \/ CallTools(r) \/ Ask(r) \/ Resume(r)
  \/ Stop(r) \/ NextOrFinal(r) \/ CallFails(r)
  \/ Finish(r) \/ FinishSteer(r) \/ Report(r) \/ Clean(r)

RequestStep(r) ==
  \/ PrepareQueue(r) \/ Register(r) \/ PublishStarted(r)
  \/ OpenTurn(r) \/ Launch(r)

UserStep(t) == AddTodo(t) \/ SteerTodo(t) \/ UnsteerTodo(t) \/ DeleteTodo(t)

Next ==
  \/ \E r \in Runs : \/ Prepare(r) \/ RequestStep(r) \/ DropRequest(r)
                     \/ TurnStep(r) \/ Forward(r) \/ Emit(r) \/ Cancel(r)
  \/ \E t \in Todos : UserStep(t)
  \/ \E s \in Clients : ClientStep(s) /\ UNCHANGED turnVars

Spec == Init /\ [][Next]_vars

FairSpec ==
  /\ Spec
  /\ \A r \in Runs : /\ WF_vars(RequestStep(r)) /\ WF_vars(TurnStep(r))
                     /\ WF_vars(Forward(r)) /\ WF_vars(Emit(r))
  /\ \A s \in Clients : WF_vars(StreamStep(s) /\ UNCHANGED turnVars)

---------------------------------------------------------------------------
(* Properties. *)

Reader(s) == [in |-> feed[s].stage # "off" \/ feed[s].begun,
              at |-> feed[s].cursor, begun |-> feed[s].begun]

Feeds == INSTANCE EventLog WITH Readers <- Clients, length <- Len(log),
                                place <- [s \in Clients |-> Reader(s)]
(* ARCHITECTURE.md, Replayable Session Event Contract: whatever races the   *)
(* floor, the subscription, the replay and the live channel, however the    *)
(* broadcasts of two publishers are ordered, whatever lags, fails or breaks,*)
(* a client reads each event after the place where it joined once, in order.*)
FeedSpec == Feeds!Spec

(* A question that awaits its answer is on the page of every client whose   *)
(* stream is past it, even of one that connected after it was asked: the    *)
(* floor, the list of open questions and their rows are three reads.        *)
QuestionShown ==
  \A s \in Clients, r \in open :
    \A i \in 1..feed[s].cursor :
      feed[s].stage = "live" /\ log[i] = [kind |-> "ask", run |-> r]
        => r \in feed[s].shown

\* From the request until the run's queue and steer are cleared.
Present(r) == run[r].at \in Preparing \cup Executing \cup {"ending", "closed"}

(* A TODO that was accepted is answered or taken back: the run closes its   *)
(* queue in the step that finds it empty.  It is lost only to a run that    *)
(* was cancelled or failed, to a second run of the session, or to a request *)
(* that died after it had opened the queue.  An injected TODO is gone from  *)
(* the queue and the slot, so it is injected once.                          *)
TodosKept ==
  /\ [](\A t \in Todos : fate[t] = "injected" => t \notin Items \cup slot)
  /\ [][\A t \in Todos :
          fate[t] = "queued" /\ fate'[t] = "discarded"
          => \/ \E r \in Runs : run[r].at = "ending" /\ run[r].outcome # "complete"
             \/ \E r \in Runs : run[r].at = "dropped"
             \/ \E r, q \in Runs : r # q /\ Present(r) /\ Present(q)]_vars

Ended(r) == \E i \in DOMAIN log : log[i].run = r /\ log[i].kind \in Terminal

(* Unless a storage call fails, the end of a run (and with FeedSpec all     *)
(* before it) reaches every client that stays connected.                    *)
RunEndReaches ==
  \A s \in Clients, r \in Runs :
    feed[s].stage = "live" /\ Ended(r)
    ~> feed[s].stage # "live" \/ faults > 0
       \/ \E i \in 1..feed[s].cursor : log[i].run = r /\ log[i].kind \in Terminal

(* Whatever the model, the tools and the clients do, a run ends, and no TODO*)
(* is left in its queue.                                                    *)
TurnsEnd ==
  /\ \A r \in Runs : run[r].at \in Executing ~> run[r].at = "done"
  /\ \A t \in Todos :
       fate[t] = "queued" /\ (\E r \in Runs : Live(r)) ~> fate[t] # "queued"
=============================================================================
