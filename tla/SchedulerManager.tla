-------------------------- MODULE SchedulerManager --------------------------
(***************************************************************************)
(* The scheduler of one process: the trigger evaluation loop, the bounded  *)
(* trigger queue, the executor loop, missed-schedule recovery, the         *)
(* execution history (crates/y-scheduler/src) and the service operations   *)
(* that keep memory and SQLite in step (y-service scheduler_service.rs).   *)
(*                                                                         *)
(* The two loops, the caller of start, every service call and every        *)
(* dispatched workflow are tasks that interleave at their await points.  A *)
(* schedule's last_fire is written when the executor loop HANDLES a        *)
(* trigger, not when the evaluation loop emits it, and is mirrored to      *)
(* SQLite by a later await.  An execution row references its schedule's    *)
(* row, without a cascade.  A one-shot CLI process writes the rows alone.  *)
(*                                                                         *)
(* Schedule identifiers are fresh uuids, so a removed one is not created   *)
(* again.  Start and stop are called by the lease supervisor, one after    *)
(* the other (SingletonSupervisor), with a dispatcher already injected.    *)
(***************************************************************************)
EXTENDS Integers, Sequences, FiniteSets, Functions

CONSTANTS
    Schedules,      \* schedule identifiers
    Kind,           \* [Schedules -> Kinds], the TriggerConfig variant
    Param,          \* [Schedules -> Nat], period of a repeating trigger, `at` of a one-time one
    Missed,         \* [Schedules -> Policies], policies.missed_policy
    QueueCapacity,  \* DEFAULT_QUEUE_CAPACITY
    BackfillCap,    \* most occurrences recovery replays for a schedule
    Retention,      \* ExecutionStore.max_per_schedule
    MaxTime,        \* bound: clock
    MaxExecutions,  \* bound: execution records ever created
    Operations,     \* bound: which service operations are called
    Outcomes,       \* bound: how dispatched workflows end
    OneShot,        \* bound: whether CLI processes write rows as well
    MaxCalls,       \* bound: service calls ever made
    MaxOpen,        \* bound: service calls open at a time
    MaxFaults       \* bound: failed writes and process restarts

Kinds == {"cron", "interval", "onetime", "event"}
Policies == {"skip", "catch_up", "backfill"}
Ops == {"create", "update", "delete", "pause", "resume", "trigger"}

ASSUME SchedulerAssumption ==
    /\ IsFiniteSet(Schedules)
    /\ Kind \in [Schedules -> Kinds]
    /\ Param \in [Schedules -> Nat]
    /\ \A s \in Schedules : Kind[s] \in {"cron", "interval"} => Param[s] > 0
    /\ Missed \in [Schedules -> Policies]
    /\ {QueueCapacity, BackfillCap, Retention, MaxTime} \subseteq Nat \ {0}
    /\ {MaxExecutions, MaxCalls, MaxOpen, MaxFaults} \subseteq Nat
    /\ Operations \subseteq Ops
    /\ Outcomes \subseteq {"completed", "failed"}
    /\ OneShot \in BOOLEAN

VARIABLES
    now,        \* Utc::now
    store,      \* ScheduleStore: registered schedules, [enabled, last]
    rows,       \* schedule_definitions: [enabled, last] of the rows
    created,    \* identifiers used so far
    calls,      \* service calls made, with the step each is waiting for
    phase,      \* "stopped", "starting" or "running"
    ticks,      \* interval ticks the evaluation loop has not consumed
    pending,    \* recovery triggers start has yet to send
    batch,      \* fired triggers the evaluation loop has yet to send
    queue,      \* the trigger channel
    handling,   \* what the executor loop is persisting: {} or {[id, step]}
    runs,       \* every execution record created, by identifier
    kept,       \* identifiers the in-memory ExecutionStore retains
    saved,      \* schedule_executions: status of the rows, by identifier
    inFlight,   \* dispatched workflows that have not returned
    settling,   \* those whose outcome is in memory and not yet written
    faults

vars == <<now, store, rows, created, calls, phase, ticks, pending, batch, queue,
          handling, runs, kept, saved, inFlight, settling, faults>>

storeVars == <<store, rows, created, calls>>
loopVars == <<phase, ticks, pending, batch, queue, handling>>
runVars == <<runs, kept, saved, inFlight, settling>>

Never == -1
Times == Never .. MaxTime
Statuses == {"running", "completed", "failed"}
Triggers == [schedule : Schedules, at : Nat]
Entries == UNION {[S -> [enabled : BOOLEAN, last : Times]] : S \in SUBSET Schedules}
Steps == {"row", "unregister", "register", "done"}
Ids == 1 .. Len(runs)

TypeOK ==
    /\ now \in 0 .. MaxTime
    /\ created \subseteq Schedules
    /\ store \in Entries /\ rows \in Entries
    /\ DOMAIN store \cup DOMAIN rows \subseteq created
    /\ calls \in Seq([op : Ops, schedule : Schedules, run : {0} \cup Ids, step : Steps])
    /\ phase \in {"stopped", "starting", "running"}
    /\ ticks \in Nat
    /\ pending \subseteq Triggers
    /\ batch \subseteq Triggers
    /\ queue \in Seq(Triggers)
    /\ handling \in {{}} \cup {{[id |-> i, step |-> p]} : i \in Ids, p \in {"fire", "record"}}
    /\ runs \in Seq([schedule : Schedules, at : Nat, started : Nat,
                     status : Statuses, manual : BOOLEAN])
    /\ kept \subseteq Ids
    /\ saved \in UNION {[I -> Statuses] : I \in SUBSET Ids}
    /\ inFlight \subseteq Ids /\ settling \subseteq Ids
    /\ faults \in 0 .. MaxFaults

Init ==
    /\ now = 0
    /\ store = << >> /\ rows = << >> /\ created = {} /\ calls = << >>
    /\ phase = "stopped" /\ ticks = 0
    /\ pending = {} /\ batch = {} /\ queue = << >> /\ handling = {}
    /\ runs = << >> /\ kept = {} /\ saved = << >> /\ inFlight = {} /\ settling = {}
    /\ faults = 0

(* A write to SQLite that may fail; the scheduler only logs the error. *)
Try(write, skip) ==
    \/ write /\ UNCHANGED faults
    \/ faults < MaxFaults /\ faults' = faults + 1 /\ skip

-----------------------------------------------------------------------------
(* Trigger evaluation and recovery, as functions of the store. *)

Enabled == {s \in DOMAIN store : store[s].enabled}

NextFire(s, t) ==
    IF Kind[s] = "interval" THEN t + Param[s] ELSE (t \div Param[s] + 1) * Param[s]

ShouldFire(s) ==
    \/ /\ Kind[s] \in {"cron", "interval"}
       /\ store[s].last = Never \/ NextFire(s, store[s].last) <= now
    \/ Kind[s] = "onetime" /\ Param[s] <= now

EvaluateAll ==
    {[schedule |-> s, at |-> now] : s \in {e \in Enabled : ShouldFire(e)}}

MissedCount(s) == (now - store[s].last) \div Param[s]

Replayed(s) == IF MissedCount(s) < BackfillCap THEN MissedCount(s) ELSE BackfillCap

(* Mutant: the replay begins with the occurrence that already ran. *)
OccurrenceFromLast(s, i) == store[s].last + (i - 1) * Param[s]

Occurrence(s, i) == store[s].last + i * Param[s]

RecoverOne(s) ==
    IF store[s].last = Never THEN {now}
    ELSE IF Kind[s] \in {"onetime", "event"} \/ now - store[s].last <= Param[s] THEN {}
    ELSE CASE Missed[s] = "skip" -> {}
           [] Missed[s] = "catch_up" -> {now}
           [] Missed[s] = "backfill" ->
                {Occurrence(s, i) : i \in 1 .. Replayed(s)}

RecoverMissed == {t \in [schedule : Enabled, at : 0 .. now] : t.at \in RecoverOne(t.schedule)}

-----------------------------------------------------------------------------
(* SchedulerService.  A call is one step up to its first await on the       *)
(* database or after it, and Continue takes the rest of its steps.          *)

Fresh == [enabled |-> TRUE, last |-> Never]     \* Schedule::new

Put(f, s, entry) == [x \in DOMAIN f \cup {s} |-> IF x = s THEN entry ELSE f[x]]
Drop(f, s) == Restrict(f, DOMAIN f \ {s})

(* An UPDATE of a row, without effect when the row is gone. *)
SetRow(s, entry) == rows' = IF s \in DOMAIN rows THEN Put(rows, s, entry) ELSE rows

(* Mutant: the row of a paused schedule is not written. *)
SetRowEnabledNot(s, on) == UNCHANGED rows

SetRowEnabled(s, on) == rows' = [x \in DOMAIN rows |->
                                    IF x = s THEN [rows[x] EXCEPT !.enabled = on] ELSE rows[x]]

(* The foreign key of schedule_executions refuses to orphan a row. *)
Deletable(s) == \A i \in DOMAIN saved : runs[i].schedule # s

Open == {k \in DOMAIN calls : calls[k].step # "done"}

Call(op, s, run, step) ==
    /\ op \in Operations
    /\ Len(calls) < MaxCalls
    /\ step # "done" => Cardinality(Open) < MaxOpen
    /\ calls' = Append(calls, [op |-> op, schedule |-> s, run |-> run, step |-> step])

Create(s) ==
    /\ s \notin created
    /\ Call("create", s, 0, "register")
    /\ created' = created \cup {s}
    /\ rows' = Put(rows, s, Fresh)
    /\ UNCHANGED <<now, store, loopVars, runVars, faults>>

Update(s) ==
    /\ s \in DOMAIN store
    /\ Call("update", s, 0, "row")
    /\ UNCHANGED <<now, store, rows, created, loopVars, runVars, faults>>

Delete(s) ==
    /\ s \in DOMAIN store
    /\ Deletable(s)
    /\ Call("delete", s, 0, "unregister")
    /\ rows' = Drop(rows, s)
    /\ UNCHANGED <<now, store, created, loopVars, runVars, faults>>

SetEnabled(s, on) ==
    /\ s \in DOMAIN store
    /\ Call(IF on THEN "resume" ELSE "pause", s, 0, "row")
    /\ store' = [store EXCEPT ![s].enabled = on]
    /\ UNCHANGED <<now, rows, created, loopVars, runVars, faults>>

(* The steps after the first await.  A call in step "row" writes its row: a *)
(* failed write ends an update and is ignored by pause and resume.          *)
WriteRow(c) ==
    \/ c.op = "update" /\ SetRow(c.schedule, Fresh)
    \/ c.op \in {"pause", "resume"} /\ SetRowEnabled(c.schedule, c.op = "resume")

ContinueRow(k) ==
    LET c == calls[k] IN
    /\ c.step = "row" /\ c.op # "trigger"
    /\ \/ /\ WriteRow(c) /\ UNCHANGED faults
          /\ calls' = [calls EXCEPT ![k].step = IF c.op = "update" THEN "unregister" ELSE "done"]
       \/ /\ faults < MaxFaults /\ faults' = faults + 1 /\ UNCHANGED rows
          /\ calls' = [calls EXCEPT ![k].step = "done"]
    /\ UNCHANGED <<now, store, created, loopVars, runVars>>

ContinueStore(k) ==
    LET c == calls[k] IN
    /\ \/ /\ c.step = "unregister"
          /\ store' = Drop(store, c.schedule)
          /\ calls' = [calls EXCEPT ![k].step = IF c.op = "update" THEN "register" ELSE "done"]
       \/ /\ c.step = "register"
          /\ store' = Put(store, c.schedule, Fresh)
          /\ calls' = [calls EXCEPT ![k].step = "done"]
    /\ UNCHANGED <<now, rows, created, loopVars, runVars, faults>>

(* The same operations called by the command line, in a process that ends:  *)
(* only what they do to the rows outlives it.                               *)
CreateElsewhere(s) ==
    /\ OneShot
    /\ s \notin created
    /\ Call("create", s, 0, "done")
    /\ created' = created \cup {s}
    /\ rows' = Put(rows, s, Fresh)
    /\ UNCHANGED <<now, store, loopVars, runVars, faults>>

ChangeElsewhere(s) ==
    /\ OneShot
    /\ s \in DOMAIN rows
    /\ \/ Call("update", s, 0, "done") /\ SetRow(s, Fresh)
       \/ Call("delete", s, 0, "done") /\ Deletable(s) /\ rows' = Drop(rows, s)
       \/ Call("pause", s, 0, "done") /\ SetRowEnabled(s, FALSE)
       \/ Call("resume", s, 0, "done") /\ SetRowEnabled(s, TRUE)
    /\ UNCHANGED <<now, store, created, loopVars, runVars, faults>>

-----------------------------------------------------------------------------
(* start: recovery is computed and SENT before the loops are spawned, so   *)
(* nobody receives from the queue meanwhile.                               *)

StartCall ==
    /\ phase = "stopped"
    /\ phase' = "starting"
    /\ pending' = RecoverMissed
    /\ UNCHANGED <<now, storeVars, ticks, batch, queue, handling, runVars, faults>>

(* Mutant: a slot of the queue is held back for triggers that are due. *)
SendRecoveredShort ==
    /\ phase = "starting"
    /\ Len(queue) + 1 < QueueCapacity
    /\ \E t \in pending :
         /\ \A u \in pending : u.schedule = t.schedule => t.at <= u.at
         /\ pending' = pending \ {t}
         /\ queue' = Append(queue, t)
    /\ UNCHANGED <<now, storeVars, phase, ticks, batch, handling, runVars, faults>>

(* The occurrences of a schedule are sent in order; the schedules, which the *)
(* code takes in the order of its list, may come in any order here.          *)
SendRecovered ==
    /\ phase = "starting"
    /\ Len(queue) < QueueCapacity
    /\ \E t \in pending :
         /\ \A u \in pending : u.schedule = t.schedule => t.at <= u.at
         /\ pending' = pending \ {t}
         /\ queue' = Append(queue, t)
    /\ UNCHANGED <<now, storeVars, phase, ticks, batch, handling, runVars, faults>>

(* tokio's interval completes its first tick at once. *)
StartReturn ==
    /\ phase = "starting"
    /\ pending = {}
    /\ phase' = "running"
    /\ ticks' = 1
    /\ UNCHANGED <<now, storeVars, pending, batch, queue, handling, runVars, faults>>

(* stop aborts both loops wherever they wait; the queue dies with them, and *)
(* dispatched workflows are not touched.                                   *)
Stop ==
    /\ phase = "running"
    /\ phase' = "stopped"
    /\ ticks' = 0
    /\ batch' = {}
    /\ queue' = << >>
    /\ handling' = {}
    /\ UNCHANGED <<now, storeVars, pending, runVars, faults>>

-----------------------------------------------------------------------------
(* The evaluation loop. *)

Evaluate ==
    /\ phase = "running"
    /\ ticks > 0
    /\ batch = {}
    /\ ticks' = ticks - 1
    /\ batch' = EvaluateAll
    /\ UNCHANGED <<now, storeVars, phase, pending, queue, handling, runVars, faults>>

SendFired ==
    /\ phase = "running"
    /\ Len(queue) < QueueCapacity
    /\ \E t \in batch : batch' = batch \ {t} /\ queue' = Append(queue, t)
    /\ UNCHANGED <<now, storeVars, phase, ticks, pending, handling, runVars, faults>>

-----------------------------------------------------------------------------
(* The executor loop. *)

(* Mutant: the identifier is handed out, the record is not inserted. *)
RecordLost(s, at, manual) ==
    /\ kept' = kept \cup {Len(runs) + 1}
    /\ UNCHANGED runs

(* ExecutionStore::record evicts the oldest records of the schedule. *)
Record(s, at, manual) ==
    LET id == Len(runs) + 1
        mine == {i \in kept : runs[i].schedule = s} \cup {id}
    IN  /\ Len(runs) < MaxExecutions
        /\ runs' = Append(runs, [schedule |-> s, at |-> at, started |-> now,
                                 status |-> "running", manual |-> manual])
        /\ kept' = (kept \ mine) \cup
                     {i \in mine : Cardinality({j \in mine : j > i}) < Retention}

(* Mutant: the store of the executor loop is never told. *)
UpdateLastFireNot(s) == UNCHANGED store

UpdateLastFire(s) == store' = [store EXCEPT ![s].last = now]

(* handle_fired_trigger up to its first await: the record and the in-memory *)
(* last_fire are written under the store's lock.                            *)
Receive ==
    /\ phase = "running" /\ handling = {}
    /\ queue # << >>
    /\ queue' = Tail(queue)
    /\ LET t == Head(queue) IN
       \/ /\ t.schedule \in DOMAIN store
          /\ Record(t.schedule, t.at, FALSE)
          /\ UpdateLastFire(t.schedule)
          /\ handling' = {[id |-> Len(runs) + 1, step |-> "fire"]}
       \/ /\ t.schedule \notin DOMAIN store
          /\ UNCHANGED <<store, handling, runs, kept>>
    /\ UNCHANGED <<now, rows, created, calls, phase, ticks, pending, batch, saved, inFlight, settling, faults>>

(* Mutant: the row is never written. *)
SaveLastFireNot(s, at) == UNCHANGED rows

SaveLastFire(s, at) ==
    rows' = [x \in DOMAIN rows |-> IF x = s THEN [rows[x] EXCEPT !.last = at] ELSE rows[x]]

(* persist_last_fire *)
PersistLastFire ==
    \E h \in handling :
      /\ h.step = "fire"
      /\ Try(SaveLastFire(runs[h.id].schedule, runs[h.id].started), UNCHANGED rows)
      /\ handling' = {[h EXCEPT !.step = "record"]}
      /\ UNCHANGED <<now, store, created, calls, phase, ticks, pending, batch, queue, runVars>>

SaveStatus(id, status) ==
    saved' = [i \in DOMAIN saved \cup {id} |-> IF i = id THEN status ELSE saved[i]]

(* record_execution inserts a row that must reference an existing schedule. *)
SaveRecord(id) ==
    Try(IF runs[id].schedule \in DOMAIN rows THEN SaveStatus(id, "running") ELSE UNCHANGED saved,
        UNCHANGED saved)

(* persist_record, then the dispatch is spawned as a task of its own. *)
PersistRecord ==
    \E h \in handling :
      /\ h.step = "record"
      /\ SaveRecord(h.id)
      /\ inFlight' = inFlight \cup {h.id}
      /\ handling' = {}
      /\ UNCHANGED <<now, storeVars, phase, ticks, pending, batch, queue, runs, kept, settling>>

(* The dispatch returns: the record is updated if it is still retained, and *)
(* what became of it is taken along to be written.                          *)
Complete(id, status) ==
    /\ id \in inFlight
    /\ inFlight' = inFlight \ {id}
    /\ IF id \in kept
       THEN /\ runs' = [runs EXCEPT ![id].status = status]
            /\ settling' = settling \cup {id}
       ELSE UNCHANGED <<runs, settling>>
    /\ UNCHANGED <<now, storeVars, loopVars, kept, saved, faults>>

(* Mutant: the row keeps saying that the execution runs. *)
SaveOutcomeNot(id) == UNCHANGED saved

SaveOutcome(id) ==
    IF id \in DOMAIN saved THEN SaveStatus(id, runs[id].status) ELSE UNCHANGED saved

(* persist_update is an UPDATE of the row, awaited after the locks are free. *)
PersistUpdate(id) ==
    /\ id \in settling
    /\ settling' = settling \ {id}
    /\ Try(SaveOutcome(id), UNCHANGED saved)
    /\ UNCHANGED <<now, storeVars, loopVars, runs, kept, inFlight>>

(* trigger_now records and dispatches on its own, leaving last_fire alone. *)
TriggerNow(s) ==
    /\ s \in DOMAIN store
    /\ Record(s, now, TRUE)
    /\ Call("trigger", s, Len(runs) + 1, "row")
    /\ UNCHANGED <<now, store, rows, created, loopVars, saved, inFlight, settling, faults>>

ContinueTrigger(k) ==
    /\ calls[k].op = "trigger" /\ calls[k].step = "row"
    /\ SaveRecord(calls[k].run)
    /\ inFlight' = inFlight \cup {calls[k].run}
    /\ calls' = [calls EXCEPT ![k].step = "done"]
    /\ UNCHANGED <<now, store, rows, created, loopVars, runs, kept, settling>>

-----------------------------------------------------------------------------
Clock ==
    /\ now < MaxTime
    /\ now' = now + 1
    /\ ticks' = IF phase = "running" THEN ticks + 1 ELSE ticks
    /\ UNCHANGED <<storeVars, phase, pending, batch, queue, handling, runVars, faults>>

(* The process dies and a new one hydrates the store and the history from  *)
(* SQLite (init_scheduler_services).                                       *)
Restart ==
    /\ faults < MaxFaults
    /\ faults' = faults + 1
    /\ phase' = "stopped" /\ ticks' = 0
    /\ pending' = {} /\ batch' = {} /\ queue' = << >> /\ handling' = {}
    /\ inFlight' = {} /\ settling' = {}
    /\ store' = rows
    /\ calls' = [k \in DOMAIN calls |-> [calls[k] EXCEPT !.step = "done"]]
    /\ runs' = [i \in Ids |-> IF i \in DOMAIN saved
                              THEN [runs[i] EXCEPT !.status = saved[i]] ELSE runs[i]]
    /\ kept' = {i \in DOMAIN saved :
                  Cardinality({j \in DOMAIN saved :
                      j > i /\ runs[j].schedule = runs[i].schedule}) < Retention}
    /\ UNCHANGED <<now, rows, created, saved>>

Manage ==
    \/ StartCall \/ Stop \/ Restart
    \/ \E s \in Schedules :
         \/ Create(s) \/ Update(s) \/ Delete(s) \/ TriggerNow(s)
         \/ CreateElsewhere(s) \/ ChangeElsewhere(s)
         \/ \E on \in BOOLEAN : SetEnabled(s, on)

Continue == \E k \in DOMAIN calls : ContinueRow(k) \/ ContinueStore(k) \/ ContinueTrigger(k)

Finish ==
    \/ \E id \in inFlight, status \in Outcomes : Complete(id, status)
    \/ \E id \in settling : PersistUpdate(id)

Loops ==
    \/ SendRecovered \/ StartReturn \/ Evaluate \/ SendFired
    \/ Receive \/ PersistLastFire \/ PersistRecord

Next == Clock \/ Manage \/ Continue \/ Loops \/ Finish

Spec == Init /\ [][Next]_vars

(* The runtime polls its tasks; dispatched workflows return. *)
Fairness ==
    /\ WF_vars(SendRecovered) /\ WF_vars(StartReturn)
    /\ WF_vars(Evaluate) /\ WF_vars(SendFired)
    /\ WF_vars(Receive) /\ WF_vars(PersistLastFire) /\ WF_vars(PersistRecord)
    /\ WF_vars(Finish) /\ WF_vars(Continue) /\ WF_vars(Clock)

FairSpec == Spec /\ Fairness

-----------------------------------------------------------------------------
(* Properties. *)

Scheduled(s) == {i \in Ids : runs[i].schedule = s /\ ~runs[i].manual}

(* update writes a row without last_fire. *)
Reset(s) == \E k \in DOMAIN calls : calls[k].op = "update" /\ calls[k].schedule = s

(* A workflow is dispatched only once its execution row and its schedule's  *)
(* last_fire are on disk (unless a write failed, the schedule was deleted,  *)
(* or an update cleared last_fire): a restart right after the dispatch does *)
(* not run the same occurrence again.                                       *)
DurableBeforeDispatch ==
    faults = 0 =>
      \A i \in inFlight : runs[i].schedule \in DOMAIN rows =>
        /\ i \in DOMAIN saved
        /\ runs[i].manual \/ Reset(runs[i].schedule)
             \/ rows[runs[i].schedule].last >= runs[i].started

(* Without failed writes a retained record and its row agree, whatever      *)
(* loops were aborted and whichever records were evicted in between; only   *)
(* while the outcome is about to be written does the row still say Running. *)
RecordsMirrored ==
    faults = 0 =>
      \A i \in kept \cap DOMAIN saved :
        saved[i] = IF i \in settling THEN "running" ELSE runs[i].status

(* The persisted last_fire never runs ahead of the one in memory, so a      *)
(* restart may repeat an occurrence but never skips one that was not taken; *)
(* an update, which clears both in two steps, is the exception.             *)
SavedFireBehind ==
    \A s \in DOMAIN store \cap DOMAIN rows : Reset(s) \/ rows[s].last <= store[s].last

(* What a restart reads back trails what the stopped process knew, and is   *)
(* otherwise the same.                                                      *)
RowsTrailMemory == RecordsMirrored /\ SavedFireBehind

(* When no call on a schedule is open, memory and SQLite agree on whether   *)
(* it exists and on whether it is paused, though loops write both meanwhile.*)
StoreMirrorsRows ==
    faults = 0 =>
      \A s \in created \ {calls[k].schedule : k \in Open} :
        /\ s \in DOMAIN store <=> s \in DOMAIN rows
        /\ s \in DOMAIN store => store[s].enabled = rows[s].enabled

(* Recovery of an interval schedule under the backfill policy emits every   *)
(* occurrence strictly between the last fire and now, or as many of the     *)
(* first ones as the cap allows, and nothing else.                          *)
Between(s) == {t \in 0 .. now : t > store[s].last /\ (t - store[s].last) % Param[s] = 0}

BackfillExact ==
    [][ phase = "stopped" /\ phase' = "starting" =>
        \A s \in {e \in Enabled : /\ Kind[e] = "interval" /\ Missed[e] = "backfill"
                                  /\ store[e].last # Never} :
          LET sent == {t.at : t \in {u \in pending' : u.schedule = s}} IN
          /\ sent \subseteq Between(s)
          /\ \A t \in Between(s) \ {now} : t \in sent \/ Cardinality(sent) = BackfillCap
          /\ \A t \in sent, u \in Between(s) \ sent : t < u
      ]_vars

(* While the scheduler runs, a repeating schedule that is due does not stay *)
(* due: it is evaluated, queued behind whatever waits, and handled.         *)
DueFires ==
    \A s \in Schedules :
      (/\ phase = "running" /\ s \in Enabled /\ Kind[s] # "onetime" /\ ShouldFire(s)
       /\ now < MaxTime)        \* another tick is to come
        ~> ~(phase = "running" /\ s \in Enabled /\ Kind[s] # "onetime" /\ ShouldFire(s))

(* start sends what it recovers into a queue that nobody reads before the   *)
(* loops it spawns afterwards.  It returns if that fits into the queue, and *)
(* only then: a start that recovers more waits for ever.                    *)
RecoveryFits == Cardinality(pending) + Len(queue) <= QueueCapacity

StartCompletes ==
    /\ phase = "starting" /\ RecoveryFits ~> phase # "starting"
    /\ [][phase = "starting" /\ ~RecoveryFits => phase' # "running"]_vars
=============================================================================
