----------------------- MODULE SchedulerManagerProofs -----------------------
(***************************************************************************)
(* Proofs about SchedulerManager: for every set of schedules, every bound, *)
(* any number of service calls open at a time and a command line beside,   *)
(* what is on disk trails what is in memory, a workflow is dispatched only *)
(* when a restart would know of it, and a start replays what was missed.   *)
(*                                                                         *)
(* The first two follow a trigger through the executor loop.  The record   *)
(* it handles is its own: no dispatch and no call holds it, it is the      *)
(* latest that a trigger made, and memory took its last_fire at least as   *)
(* late (Custody, HandledInMemory).  So the row's last_fire, written from  *)
(* it, grows, stays behind memory's and covers all that was dispatched     *)
(* before.                                                                 *)
(***************************************************************************)
EXTENDS SchedulerManager, SequenceTheorems, FiniteSetTheorems, TLAPS

EntryRec == [enabled : BOOLEAN, last : Times]
CallRec == [op : Ops, schedule : Schedules, run : {0} \cup Ids, step : Steps]
RunRec == [schedule : Schedules, at : Nat, started : Nat, status : Statuses, manual : BOOLEAN]

(* Time only passes. *)
Aged ==
    /\ \A s \in DOMAIN store : store[s].last <= now
    /\ \A s \in DOMAIN rows : rows[s].last <= now
    /\ \A i \in Ids : runs[i].started <= now /\ runs[i].schedule \in created
    /\ \A i, j \in Ids : i <= j => runs[i].started <= runs[j].started

(* Which call may wait for which step, and that a schedule is created once. *)
CallsShaped ==
    /\ \A k \in DOMAIN calls :
         /\ calls[k].step = "register" => calls[k].op \in {"create", "update"}
         /\ calls[k].schedule \in created
    /\ \A k, l \in DOMAIN calls :
         calls[k].op = "create" /\ calls[l].op = "create" /\ calls[k].schedule = calls[l].schedule
           => k = l

(* A schedule whose row exists and which is not registered yet has not run. *)
NeverRan(s) == \A i \in Ids : runs[i].schedule # s

Unborn(s) ==
    s \notin DOMAIN store /\ (s \in DOMAIN rows => rows[s].last = Never) /\ NeverRan(s)

Enrolling(s) ==
    \E k \in DOMAIN calls :
      calls[k].op = "create" /\ calls[k].step = "register" /\ calls[k].schedule = s

Creating == \A s \in Schedules : Enrolling(s) => Reset(s) \/ Unborn(s)

(* A record that awaits its dispatch is held by one task, and so is one that  *)
(* was dispatched: first by its workflow, then by the write of its outcome.   *)
Dispatched == inFlight \cup settling

Awaits(k) == calls[k].op = "trigger" /\ calls[k].step = "row"

Custody ==
    /\ \A h \in handling :
         /\ h.id \notin Dispatched /\ runs[h.id].status = "running" /\ ~runs[h.id].manual
         /\ \A i \in Ids : runs[i].manual \/ i <= h.id
    /\ \A k \in DOMAIN calls : Awaits(k) =>
         /\ calls[k].run \in Ids \ Dispatched
         /\ runs[calls[k].run].status = "running" /\ runs[calls[k].run].manual
    /\ \A k, l \in DOMAIN calls :
         Awaits(k) /\ Awaits(l) /\ calls[k].run = calls[l].run => k = l
    /\ \A i \in inFlight : i \notin settling /\ runs[i].status = "running"

HandledInMemory ==
    \A h \in handling : h.step = "fire" =>
      LET s == runs[h.id].schedule IN
      s \in DOMAIN store => Reset(s) \/ runs[h.id].started <= store[s].last

HandledOnDisk ==
    faults = 0 => \A h \in handling : h.step = "record" =>
      LET s == runs[h.id].schedule IN
      s \in DOMAIN rows => Reset(s) \/ runs[h.id].started <= rows[s].last

Inv ==
    /\ TypeOK /\ Aged /\ CallsShaped /\ Creating /\ Custody
    /\ HandledInMemory /\ HandledOnDisk
    /\ SavedFireBehind /\ RecordsMirrored /\ DurableBeforeDispatch

-----------------------------------------------------------------------------
(* Facts about the data. *)

\* The bounds are numbers.
LEMMA Bounds ==
    /\ MaxTime \in Nat /\ MaxFaults \in Nat /\ QueueCapacity \in Nat /\ Retention \in Nat
    /\ Times \subseteq Int /\ Never \in Times /\ 0 .. MaxTime \subseteq Times
BY SchedulerAssumption DEF Times, Never

\* What a map of schedules holds.
LEMMA EntriesAre ==
    ASSUME NEW f \in Entries
    PROVE  DOMAIN f \subseteq Schedules /\ f = [x \in DOMAIN f |-> f[x]] /\ \A x \in DOMAIN f : f[x] \in EntryRec
BY DEF Entries, EntryRec

\* g is f with the entry of s put to e.
IsPut(g, f, s, e) ==
    /\ g \in Entries /\ DOMAIN g = DOMAIN f \cup {s}
    /\ \A x \in DOMAIN f \cup {s} : g[x] = IF x = s THEN e ELSE f[x]

\* Adding, dropping and changing an entry.
LEMMA EntriesPut ==
    ASSUME NEW f \in Entries, NEW s \in Schedules, NEW e \in EntryRec
    PROVE  IsPut(Put(f, s, e), f, s, e)
<1>1. DOMAIN f \subseteq Schedules /\ \A x \in DOMAIN f : f[x] \in EntryRec
  BY EntriesAre
<1>2. DOMAIN f \cup {s} \in SUBSET Schedules
  BY <1>1
<1>3. \A x \in DOMAIN f \cup {s} : (IF x = s THEN e ELSE f[x]) \in EntryRec
  BY <1>1
<1>4. Put(f, s, e) \in [DOMAIN f \cup {s} -> EntryRec]
  BY <1>3 DEF Put
<1>5. Put(f, s, e) \in Entries
  BY <1>2, <1>4 DEF Entries, EntryRec
<1>6. /\ DOMAIN Put(f, s, e) = DOMAIN f \cup {s}
      /\ \A x \in DOMAIN f \cup {s} : Put(f, s, e)[x] = IF x = s THEN e ELSE f[x]
  BY DEF Put
<1> QED
  BY <1>5, <1>6 DEF IsPut

\* Dropping an entry leaves the others.
LEMMA EntriesDrop ==
    ASSUME NEW f \in Entries, NEW s
    PROVE  /\ Drop(f, s) \in Entries /\ DOMAIN Drop(f, s) = DOMAIN f \ {s}
           /\ \A x \in DOMAIN f \ {s} : Drop(f, s)[x] = f[x]
<1>1. DOMAIN f \subseteq Schedules /\ \A x \in DOMAIN f : f[x] \in EntryRec
  BY EntriesAre
<1>2. Drop(f, s) \in [DOMAIN f \ {s} -> EntryRec]
  BY <1>1 DEF Drop, Restrict
<1> QED
  BY <1>1, <1>2 DEF Drop, Restrict, Entries, EntryRec

EnableIn(f, s, on) == [x \in DOMAIN f |-> IF x = s THEN [f[x] EXCEPT !.enabled = on] ELSE f[x]]

\* Pausing and resuming leaves last_fire.
LEMMA EntriesEnable ==
    ASSUME NEW f \in Entries, NEW s, NEW on \in BOOLEAN
    PROVE  /\ EnableIn(f, s, on) \in Entries /\ DOMAIN EnableIn(f, s, on) = DOMAIN f
           /\ \A x \in DOMAIN f : EnableIn(f, s, on)[x].last = f[x].last
<1>1. DOMAIN f \in SUBSET Schedules /\ \A x \in DOMAIN f : f[x] \in EntryRec
  BY EntriesAre
<1>2. EnableIn(f, s, on) \in [DOMAIN f -> EntryRec]
  BY <1>1 DEF EntryRec, EnableIn
<1>3. EnableIn(f, s, on) \in Entries
  BY <1>1, <1>2 DEF Entries, EntryRec
<1> QED
  BY <1>1, <1>3 DEF EnableIn, EntryRec

FireIn(f, s, at) == [x \in DOMAIN f |-> IF x = s THEN [f[x] EXCEPT !.last = at] ELSE f[x]]

\* Firing changes last_fire alone.
LEMMA EntriesFire ==
    ASSUME NEW f \in Entries, NEW s, NEW at \in Times
    PROVE  /\ FireIn(f, s, at) \in Entries /\ DOMAIN FireIn(f, s, at) = DOMAIN f
           /\ \A x \in DOMAIN f : FireIn(f, s, at)[x].last = IF x = s THEN at ELSE f[x].last
<1>1. DOMAIN f \in SUBSET Schedules /\ \A x \in DOMAIN f : f[x] \in EntryRec
  BY EntriesAre
<1>2. FireIn(f, s, at) \in [DOMAIN f -> EntryRec]
  BY <1>1 DEF EntryRec, FireIn
<1>3. FireIn(f, s, at) \in Entries
  BY <1>1, <1>2 DEF Entries, EntryRec
<1> QED
  BY <1>1, <1>3 DEF FireIn, EntryRec

\* A new service call is the last one.
LEMMA CallFacts ==
    ASSUME TypeOK, NEW op \in Ops, NEW s \in Schedules, NEW run, NEW step \in Steps,
           run \in {0} \cup Ids', Ids \subseteq Ids', Call(op, s, run, step)
    PROVE  LET n == Len(calls) + 1 IN
           /\ calls' \in Seq(CallRec') /\ DOMAIN calls' = DOMAIN calls \cup {n} /\ n \notin DOMAIN calls
           /\ calls'[n] = [op |-> op, schedule |-> s, run |-> run, step |-> step]
           /\ \A k \in DOMAIN calls : calls'[k] = calls[k]
<1>1. calls \in Seq(CallRec)
  BY DEF TypeOK, CallRec
<1>2. calls \in Seq(CallRec')
  <2>1. CallRec \subseteq CallRec'
    BY DEF CallRec
  <2> HIDE DEF CallRec
  <2> QED
    BY <1>1, <2>1, SeqMonotonic
<1>3. calls' = Append(calls, [op |-> op, schedule |-> s, run |-> run, step |-> step])
  BY DEF Call
<1>4. [op |-> op, schedule |-> s, run |-> run, step |-> step] \in CallRec'
  BY DEF CallRec
<1> HIDE DEF CallRec
<1> QED
  BY <1>2, <1>3, <1>4

\* A call that goes on changes its step.
LEMMA StepFacts ==
    ASSUME TypeOK, NEW k \in DOMAIN calls, NEW step \in Steps,
           calls' = [calls EXCEPT ![k].step = step], Ids' = Ids
    PROVE  /\ calls' \in Seq(CallRec') /\ DOMAIN calls' = DOMAIN calls
           /\ calls'[k] = [calls[k] EXCEPT !.step = step]
           /\ \A l \in DOMAIN calls \ {k} : calls'[l] = calls[l]
<1>1. calls \in Seq(CallRec) /\ CallRec' = CallRec
  BY DEF TypeOK, CallRec
<1>4. calls[k] \in CallRec /\ k \in 1 .. Len(calls)
  <2> HIDE DEF CallRec
  <2> QED
    BY <1>1
<1>2. [calls[k] EXCEPT !.step = step] \in CallRec
  BY <1>4 DEF CallRec
<1>3. calls' = [calls EXCEPT ![k] = [calls[k] EXCEPT !.step = step]]
  OBVIOUS
<1> HIDE DEF CallRec
<1> QED
  BY <1>1, <1>2, <1>3, <1>4, ExceptSeq

-----------------------------------------------------------------------------
(* The type invariant, by what a step may change. *)

TimeTyped == now \in 0 .. MaxTime /\ faults \in 0 .. MaxFaults
StoreTyped ==
    created \subseteq Schedules /\ store \in Entries /\ rows \in Entries
      /\ DOMAIN store \cup DOMAIN rows \subseteq created
CallsTyped == calls \in Seq(CallRec)
LoopTyped ==
    /\ phase \in {"stopped", "starting", "running"} /\ ticks \in Nat
    /\ pending \subseteq Triggers /\ batch \subseteq Triggers /\ queue \in Seq(Triggers)
HandlingTyped ==
    handling \in {{}} \cup {{[id |-> i, step |-> p]} : i \in Ids, p \in {"fire", "record"}}
RunsTyped == runs \in Seq(RunRec)
HeldTyped == kept \subseteq Ids /\ inFlight \subseteq Ids /\ settling \subseteq Ids
SavedTyped == saved \in UNION {[I -> Statuses] : I \in SUBSET Ids}

\* The parts make up the invariant, in both states of a step.
LEMMA TypeParts ==
    TypeOK <=> /\ TimeTyped /\ StoreTyped /\ CallsTyped /\ LoopTyped /\ HandlingTyped
               /\ RunsTyped /\ HeldTyped /\ SavedTyped
BY DEF TypeOK, TimeTyped, StoreTyped, CallsTyped, LoopTyped, HandlingTyped, RunsTyped, HeldTyped,
       SavedTyped, CallRec, RunRec

\* The same after the step.
LEMMA TypePartsNext ==
    (TypeOK)' <=> (/\ TimeTyped /\ StoreTyped /\ CallsTyped /\ LoopTyped /\ HandlingTyped
                   /\ RunsTyped /\ HeldTyped /\ SavedTyped)'
BY DEF TypeOK, TimeTyped, StoreTyped, CallsTyped, LoopTyped, HandlingTyped, RunsTyped, HeldTyped,
       SavedTyped, CallRec, RunRec

\* A variable that does not change keeps its type.
LEMMA TypeKept ==
    ASSUME TypeOK
    PROVE  /\ UNCHANGED <<now, faults>> => TimeTyped'
           /\ UNCHANGED <<created, store, rows>> => StoreTyped'
           /\ UNCHANGED <<phase, ticks, pending, batch, queue>> => LoopTyped'
           /\ UNCHANGED runs =>
                /\ Ids' = Ids /\ RunsTyped'
                /\ calls' = calls => CallsTyped'
                /\ handling' \in {handling, {}} => HandlingTyped'
                /\ UNCHANGED <<kept, inFlight, settling>> => HeldTyped'
                /\ saved' = saved => SavedTyped'
<1>1. UNCHANGED <<now, faults>> => TimeTyped'
  BY TypeParts DEF TimeTyped
<1>2. UNCHANGED <<created, store, rows>> => StoreTyped'
  BY TypeParts DEF StoreTyped
<1>3. UNCHANGED <<phase, ticks, pending, batch, queue>> => LoopTyped'
  BY TypeParts DEF LoopTyped
<1>4. ASSUME UNCHANGED runs
      PROVE  /\ Ids' = Ids /\ RunsTyped'
             /\ calls' = calls => CallsTyped'
             /\ handling' \in {handling, {}} => HandlingTyped'
             /\ UNCHANGED <<kept, inFlight, settling>> => HeldTyped'
             /\ saved' = saved => SavedTyped'
  <2>1. Ids' = Ids
    BY <1>4 DEF Ids
  <2>2. CallRec' = CallRec
    BY <2>1 DEF CallRec
  <2>3. RunsTyped'
    BY <1>4, TypeParts DEF RunsTyped
  <2>4. calls' = calls => CallsTyped'
    BY <2>2, TypeParts DEF CallsTyped
  <2>5. handling' \in {handling, {}} => HandlingTyped'
    BY <2>1, TypeParts DEF HandlingTyped
  <2>6. UNCHANGED <<kept, inFlight, settling>> => HeldTyped'
    BY <2>1, TypeParts DEF HeldTyped
  <2>7. saved' = saved => SavedTyped'
    BY <2>1, TypeParts DEF SavedTyped
  <2> QED
    BY <2>1, <2>3, <2>4, <2>5, <2>6, <2>7
<1> QED
  BY <1>1, <1>2, <1>3, <1>4

\* What the type invariant says of the numbers.
LEMMA Numbers ==
    ASSUME TypeOK
    PROVE  /\ now \in Nat /\ now \in Times /\ faults \in Nat
           /\ \A s \in DOMAIN store : s \in Schedules /\ store[s] \in EntryRec
                                      /\ store[s].last \in Int /\ Never <= store[s].last
           /\ \A s \in DOMAIN rows : s \in Schedules /\ rows[s] \in EntryRec
                                      /\ rows[s].last \in Int /\ Never <= rows[s].last
           /\ Ids = DOMAIN runs /\ Ids \subseteq Int
           /\ \A i \in Ids : runs[i] \in RunRec /\ runs[i].started \in Nat
<1>1. now \in Nat /\ now \in Times /\ faults \in Nat
  BY TypeParts, Bounds DEF TimeTyped, Times, Never
<1>2. \A f \in Entries : \A s \in DOMAIN f : s \in Schedules /\ f[s] \in EntryRec
  BY EntriesAre
<1>3. \A e \in EntryRec : e.last \in Int /\ Never <= e.last
  BY Bounds DEF EntryRec, Times, Never
<1>4. Ids = DOMAIN runs /\ Ids \subseteq Int /\ \A i \in Ids : runs[i] \in RunRec
  <2> HIDE DEF RunRec
  <2> QED
    BY TypeParts DEF RunsTyped, Ids
<1>5. \A r \in RunRec : r.started \in Nat
  BY DEF RunRec
<1> QED
  BY <1>1, <1>2, <1>3, <1>4, <1>5, TypeParts DEF StoreTyped

-----------------------------------------------------------------------------
(* The loops and the clock, where they touch neither schedules nor records. *)

\* What a step that moves triggers only keeps.
LEMMA LoopsKeep ==
    ASSUME Inv, TimeTyped', LoopTyped', now <= now', UNCHANGED <<storeVars, runVars, faults>>,
           handling' \in {handling, {}}
    PROVE  Inv'
<1> USE DEF storeVars, runVars
<1>0. TypeOK /\ handling' \subseteq handling
  BY DEF Inv
<1>1. TypeOK'
  BY <1>0, TypeKept, TypePartsNext
<1>2. now \in Nat /\ now' \in Nat
  BY <1>0, <1>1, TypeParts, TypePartsNext, Bounds DEF TimeTyped
<1>3. Aged'
  BY <1>0, <1>2, Numbers DEF Inv, Aged, Ids
<1>4. CallsShaped' /\ Creating'
  BY DEF Inv, CallsShaped, Creating, Enrolling, Unborn, NeverRan, Reset, Ids
<1>5. Custody'
  BY <1>0 DEF Inv, Custody, Dispatched, Awaits, Ids
<1>6. HandledInMemory' /\ HandledOnDisk'
  BY <1>0 DEF Inv, HandledInMemory, HandledOnDisk, Reset
<1>7. SavedFireBehind' /\ RecordsMirrored' /\ DurableBeforeDispatch'
  BY DEF Inv, SavedFireBehind, RecordsMirrored, DurableBeforeDispatch, Reset
<1> QED
  BY <1>1, <1>3, <1>4, <1>5, <1>6, <1>7 DEF Inv

\* Recovery and evaluation emit triggers of registered schedules.
LEMMA Emitted ==
    ASSUME TypeOK
    PROVE  RecoverMissed \subseteq Triggers /\ EvaluateAll \subseteq Triggers
<1>1. Enabled \subseteq Schedules /\ 0 .. now \subseteq Nat /\ now \in Nat
  BY EntriesAre, Bounds DEF TypeOK, Enabled
<1> QED
  BY <1>1 DEF RecoverMissed, EvaluateAll, Triggers

\* The steps of start and of the evaluation loop, stop and the clock keep the invariant.
LEMMA LoopStep ==
    Inv /\ (StartCall \/ SendRecovered \/ StartReturn \/ Evaluate \/ SendFired \/ Stop \/ Clock
             \/ UNCHANGED vars) => Inv'
<1> SUFFICES ASSUME Inv,
               StartCall \/ SendRecovered \/ StartReturn \/ Evaluate \/ SendFired \/ Stop \/ Clock
                 \/ UNCHANGED vars
             PROVE Inv'
  OBVIOUS
<1>1. TypeOK /\ now \in Nat /\ now <= now
  BY Numbers DEF Inv
<1>2. LoopTyped /\ TimeTyped
  BY <1>1, TypeParts
<1>3. UNCHANGED <<now, faults>> => TimeTyped'
  BY <1>1, TypeKept
<1>4. CASE StartCall
  <2>1. LoopTyped'
    BY <1>1, <1>2, <1>4, Emitted DEF StartCall, LoopTyped
  <2> QED
    BY <1>1, <1>3, <1>4, <2>1, LoopsKeep DEF StartCall
<1>5. CASE SendRecovered
  <2>1. PICK t \in pending : pending' = pending \ {t} /\ queue' = Append(queue, t)
    BY <1>5 DEF SendRecovered
  <2>2. LoopTyped'
    BY <1>2, <1>5, <2>1 DEF SendRecovered, LoopTyped
  <2> QED
    BY <1>1, <1>3, <1>5, <2>2, LoopsKeep DEF SendRecovered
<1>6. CASE StartReturn
  <2>1. LoopTyped'
    BY <1>2, <1>6 DEF StartReturn, LoopTyped
  <2> QED
    BY <1>1, <1>3, <1>6, <2>1, LoopsKeep DEF StartReturn
<1>7. CASE Evaluate
  <2>1. LoopTyped'
    BY <1>1, <1>2, <1>7, Emitted DEF Evaluate, LoopTyped
  <2> QED
    BY <1>1, <1>3, <1>7, <2>1, LoopsKeep DEF Evaluate
<1>8. CASE SendFired
  <2>1. PICK t \in batch : batch' = batch \ {t} /\ queue' = Append(queue, t)
    BY <1>8 DEF SendFired
  <2>2. LoopTyped'
    BY <1>2, <1>8, <2>1 DEF SendFired, LoopTyped
  <2> QED
    BY <1>1, <1>3, <1>8, <2>2, LoopsKeep DEF SendFired
<1>9. CASE Stop
  <2>1. LoopTyped'
    BY <1>2, <1>9 DEF Stop, LoopTyped
  <2> QED
    BY <1>1, <1>3, <1>9, <2>1, LoopsKeep DEF Stop
<1>10. CASE Clock
  <2>1. TimeTyped' /\ now <= now'
    BY <1>2, <1>10, Bounds DEF Clock, TimeTyped
  <2>2. LoopTyped'
    BY <1>2, <1>10 DEF Clock, LoopTyped
  <2> QED
    BY <1>10, <2>1, <2>2, LoopsKeep DEF Clock
<1>11. CASE UNCHANGED vars
  <2>1. LoopTyped'
    BY <1>2, <1>11 DEF vars, LoopTyped
  <2> QED
    BY <1>1, <1>3, <1>11, <2>1, LoopsKeep DEF vars, storeVars, runVars
<1> QED
  BY <1>4, <1>5, <1>6, <1>7, <1>8, <1>9, <1>10, <1>11

-----------------------------------------------------------------------------
(* The service calls. *)

\* An open call that waits for its dispatch stays what it was.
AwaitsKept ==
    \A k \in DOMAIN calls' : Awaits(k)' =>
      k \in DOMAIN calls /\ Awaits(k) /\ calls'[k].run = calls[k].run

\* An entry in memory is what it was, or new, or of a schedule that was updated.
StoreStep ==
    \A s \in DOMAIN store' :
      /\ store'[s].last <= now
      /\ \/ Reset(s)'
         \/ s \in DOMAIN store /\ store'[s].last = store[s].last
         \/ NeverRan(s) /\ (s \in DOMAIN rows' => rows'[s].last = Never)

\* So is a row.
RowsStep ==
    \A s \in DOMAIN rows' :
      /\ rows'[s].last <= now
      /\ \/ s \in DOMAIN rows /\ (Reset(s)' \/ rows'[s].last = rows[s].last)
         \/ NeverRan(s) /\ rows'[s].last = Never

\* What a service call's step that makes no record keeps.
LEMMA ServiceKeeps ==
    ASSUME Inv, StoreTyped', CallsTyped', faults' \in 0 .. MaxFaults, faults <= faults',
           CallsShaped', Creating', AwaitsKept, StoreStep, RowsStep,
           created \subseteq created', \A s \in Schedules : Reset(s) => Reset(s)',
           UNCHANGED <<now, loopVars, runVars>>
    PROVE  Inv'
<1> USE DEF loopVars, runVars
<1>0. TypeOK
  BY DEF Inv
<1>1. TypeOK'
  <2>1. TimeTyped'
    BY <1>0, TypeParts DEF TimeTyped
  <2> QED
    BY <1>0, <2>1, TypeKept, TypePartsNext
<1>2. Ids' = Ids /\ faults \in Nat /\ faults' \in Nat /\ (faults' = 0 => faults = 0)
  BY <1>0, Numbers, Bounds DEF Ids
<1>3. \A i \in Ids : runs[i].schedule \in Schedules
  BY <1>0, Numbers DEF RunRec
<1>4. Aged'
  BY <1>2 DEF Inv, Aged, StoreStep, RowsStep
<1>5. Custody'
  BY <1>2 DEF Inv, Custody, Dispatched, AwaitsKept
<1>6. handling \subseteq [id : Ids, step : {"fire", "record"}]
  BY <1>0, TypeParts DEF HandlingTyped
<1>7. HandledInMemory'
  BY <1>2, <1>3, <1>6 DEF Inv, HandledInMemory, StoreStep, NeverRan
<1>8. HandledOnDisk'
  BY <1>2, <1>3, <1>6 DEF Inv, HandledOnDisk, RowsStep, NeverRan
<1>9. SavedFireBehind'
  <2> SUFFICES ASSUME NEW s \in DOMAIN store', s \in DOMAIN rows', ~Reset(s)'
               PROVE  rows'[s].last <= store'[s].last
    BY DEF SavedFireBehind
  <2>1. s \in Schedules /\ ~Reset(s)
    BY EntriesAre DEF StoreTyped
  <2>2. store'[s].last \in Int /\ Never <= store'[s].last /\ Never \in Int
    BY EntriesAre, Bounds DEF StoreTyped, EntryRec, Times, Never
  <2>3. CASE rows'[s].last = Never
    BY <2>2, <2>3
  <2>4. CASE rows'[s].last # Never
    <3>1. s \in DOMAIN rows /\ rows'[s].last = rows[s].last
      BY <2>4 DEF RowsStep
    <3>2. s \in DOMAIN store /\ store'[s].last = store[s].last
      BY <2>4 DEF StoreStep
    <3> QED
      BY <2>1, <3>1, <3>2 DEF Inv, SavedFireBehind
  <2> QED
    BY <2>3, <2>4
<1>10. RecordsMirrored'
  BY <1>2 DEF Inv, RecordsMirrored
<1>11. DurableBeforeDispatch'
  <2>1. inFlight \subseteq Ids
    BY <1>0, TypeParts DEF HeldTyped
  <2> QED
    BY <1>2, <1>3, <2>1 DEF Inv, DurableBeforeDispatch, RowsStep, NeverRan
<1> QED
  BY <1>1, <1>4, <1>5, <1>7, <1>8, <1>9, <1>10, <1>11 DEF Inv

\* A call that is added: what it does to the invariants about calls.
LEMMA CallAdded ==
    ASSUME Inv, NEW op \in Ops, NEW s \in Schedules, NEW step \in Steps,
           Call(op, s, 0, step), UNCHANGED runVars,
           op \in {"trigger", "create"} => op = "create",
           op = "create" => s \notin created /\ created' = created \cup {s},
           op # "create" => created' = created /\ s \in created /\ step # "register"
    PROVE  /\ CallsTyped' /\ CallsShaped' /\ AwaitsKept /\ \A x \in Schedules : Reset(x) => Reset(x)'
           /\ op = "update" => Reset(s)'
           /\ \A x \in Schedules : Enrolling(x)' => Enrolling(x) \/ (op = "create" /\ x = s)
<1>1. TypeOK /\ Ids' = Ids
  BY DEF Inv, Ids, runVars
<1> DEFINE n == Len(calls) + 1
<1>2. /\ calls' \in Seq(CallRec') /\ DOMAIN calls' = DOMAIN calls \cup {n} /\ n \notin DOMAIN calls
      /\ calls'[n] = [op |-> op, schedule |-> s, run |-> 0, step |-> step]
      /\ \A k \in DOMAIN calls : calls'[k] = calls[k]
  BY <1>1, CallFacts
<1> HIDE DEF n
<1>3. CallsTyped'
  BY <1>2 DEF CallsTyped
<1>4. CallsShaped'
  BY <1>2 DEF Inv, CallsShaped
<1>5. AwaitsKept
  BY <1>2 DEF AwaitsKept, Awaits
<1>6. \A x \in Schedules : Reset(x) => Reset(x)'
  BY <1>2 DEF Reset
<1>7. op = "update" => Reset(s)'
  BY <1>2 DEF Reset
<1>8. \A x \in Schedules : Enrolling(x)' => Enrolling(x) \/ (op = "create" /\ x = s)
  BY <1>2 DEF Enrolling
<1> QED
  BY <1>3, <1>4, <1>5, <1>6, <1>7, <1>8

\* An identifier that was never used has no entry and no record.
LEMMA NeverUsed ==
    ASSUME Inv, NEW s, s \notin created
    PROVE  s \notin DOMAIN store /\ s \notin DOMAIN rows /\ NeverRan(s)
BY TypeParts DEF Inv, StoreTyped, Aged, NeverRan

\* A schedule that is created, here or by the command line, is new to all records.
LEMMA CreateKeeps ==
    ASSUME Inv, NEW s \in Schedules, Create(s) \/ CreateElsewhere(s)
    PROVE  Inv'
<1>1. /\ s \notin created /\ created' = created \cup {s}
      /\ \E p \in {"register", "done"} : Call("create", s, 0, p)
      /\ rows' = Put(rows, s, Fresh) /\ store' = store
      /\ UNCHANGED <<now, loopVars, runVars, faults>>
  BY DEF Create, CreateElsewhere
<1>2. PICK p \in {"register", "done"} : Call("create", s, 0, p)
  BY <1>1
<1>3. /\ CallsTyped' /\ CallsShaped' /\ AwaitsKept /\ \A x \in Schedules : Reset(x) => Reset(x)'
      /\ \A x \in Schedules : Enrolling(x)' => Enrolling(x) \/ x = s
  BY <1>1, <1>2, CallAdded DEF Ops, Steps
<1>4. TypeOK /\ StoreTyped /\ faults \in 0 .. MaxFaults /\ faults <= faults
  BY TypeParts, Bounds DEF Inv, TimeTyped
<1>5. Fresh \in EntryRec /\ Fresh.last = Never
  BY Bounds DEF Fresh, EntryRec
<1>6. /\ rows' \in Entries /\ DOMAIN rows' = DOMAIN rows \cup {s}
      /\ \A x \in DOMAIN rows \cup {s} : rows'[x] = IF x = s THEN Fresh ELSE rows[x]
  <2>1. rows \in Entries
    BY <1>4 DEF StoreTyped
  <2>2. /\ Put(rows, s, Fresh) \in Entries /\ DOMAIN Put(rows, s, Fresh) = DOMAIN rows \cup {s}
        /\ \A x \in DOMAIN rows \cup {s} : Put(rows, s, Fresh)[x] = IF x = s THEN Fresh ELSE rows[x]
    <3>1. IsPut(Put(rows, s, Fresh), rows, s, Fresh)
      BY <1>5, <2>1, EntriesPut
    <3> QED
      BY <3>1 DEF IsPut
  <2> QED
    BY <1>1, <2>2
<1>7. StoreTyped'
  BY <1>1, <1>4, <1>6 DEF StoreTyped
<1>8. s \notin DOMAIN store /\ s \notin DOMAIN rows /\ NeverRan(s)
  BY <1>1, NeverUsed
<1>9. StoreStep
  BY <1>1 DEF StoreStep, Inv, Aged
<1>10. RowsStep
  <2>1. Never <= now
    BY <1>4, Numbers DEF Never
  <2> QED
    BY <1>5, <1>6, <1>8, <2>1 DEF RowsStep, Inv, Aged
<1>11. Creating'
  <2> SUFFICES ASSUME NEW x \in Schedules, Enrolling(x)', ~Reset(x)'
               PROVE  Unborn(x)'
    BY DEF Creating
  <2>1. NeverRan(x) => NeverRan(x)'
    BY <1>1 DEF NeverRan, Ids, runVars
  <2>2. CASE x = s
    BY <1>1, <1>5, <1>6, <1>8, <2>1, <2>2 DEF Unborn
  <2>3. CASE x # s
    <3>1. Unborn(x)
      BY <1>3, <2>3 DEF Inv, Creating
    <3> QED
      BY <1>1, <1>6, <2>1, <2>3, <3>1 DEF Unborn
  <2> QED
    BY <2>2, <2>3
<1> QED
  BY <1>1, <1>3, <1>4, <1>7, <1>9, <1>10, <1>11, ServiceKeeps

\* Entries that stay where they are, but for those that are cleared.
SameStore ==
    store' \in Entries /\ DOMAIN store' = DOMAIN store
      /\ \A x \in DOMAIN store : store'[x].last = store[x].last

RowsButCleared(C) ==
    rows' \in Entries /\ DOMAIN rows' \subseteq DOMAIN rows
      /\ \A x \in DOMAIN rows' : rows'[x].last = rows[x].last \/ (x \in C /\ rows'[x].last = Never)

\* The writers of a row.
LEMMA Writers ==
    ASSUME TypeOK, NEW s \in Schedules, NEW on \in BOOLEAN
    PROVE  /\ rows' = rows => RowsButCleared({})
           /\ SetRow(s, Fresh) => RowsButCleared({s})
           /\ SetRowEnabled(s, on) => RowsButCleared({})
           /\ rows' = Drop(rows, s) => RowsButCleared({})
<1>1. rows \in Entries /\ Fresh \in EntryRec /\ Fresh.last = Never /\ on \in BOOLEAN
  BY TypeParts, Bounds DEF StoreTyped, Fresh, EntryRec
<1>2. rows' = rows => RowsButCleared({})
  BY <1>1 DEF RowsButCleared
<1>3. ASSUME SetRow(s, Fresh)
      PROVE  RowsButCleared({s})
  <2>1. CASE s \in DOMAIN rows
    <3>1. /\ Put(rows, s, Fresh) \in Entries /\ DOMAIN Put(rows, s, Fresh) = DOMAIN rows \cup {s}
          /\ \A x \in DOMAIN rows \cup {s} : Put(rows, s, Fresh)[x] = IF x = s THEN Fresh ELSE rows[x]
      <4>1. IsPut(Put(rows, s, Fresh), rows, s, Fresh)
        BY <1>1, EntriesPut
      <4> QED
        BY <4>1 DEF IsPut
    <3>2. rows' = Put(rows, s, Fresh)
      BY <1>3, <2>1 DEF SetRow
    <3> QED
      BY <1>1, <2>1, <3>1, <3>2 DEF RowsButCleared
  <2>2. CASE s \notin DOMAIN rows
    BY <1>1, <1>3, <2>2 DEF SetRow, RowsButCleared
  <2> QED
    BY <2>1, <2>2
<1>4. ASSUME SetRowEnabled(s, on)
      PROVE  RowsButCleared({})
  <2>1. rows' \in Entries /\ DOMAIN rows' = DOMAIN rows /\ \A x \in DOMAIN rows : rows'[x].last = rows[x].last
    <3>1. rows' = EnableIn(rows, s, on)
      BY <1>4 DEF SetRowEnabled, EnableIn
    <3> QED
      BY <1>1, <3>1, EntriesEnable
  <2> QED
    BY <2>1 DEF RowsButCleared
<1>5. ASSUME rows' = Drop(rows, s)
      PROVE  RowsButCleared({})
  <2>1. /\ Drop(rows, s) \in Entries /\ DOMAIN Drop(rows, s) = DOMAIN rows \ {s}
        /\ \A x \in DOMAIN rows \ {s} : Drop(rows, s)[x] = rows[x]
    BY <1>1, EntriesDrop
  <2> QED
    BY <1>5, <2>1 DEF RowsButCleared
<1> QED
  BY <1>2, <1>3, <1>4, <1>5

\* What such steps keep.
LEMMA RewriteKeeps ==
    ASSUME Inv, NEW C \in SUBSET Schedules, SameStore, RowsButCleared(C),
           \A x \in C : Reset(x)',
           CallsTyped', CallsShaped', AwaitsKept, \A x \in Schedules : Reset(x) => Reset(x)',
           \A x \in Schedules : Enrolling(x)' => Enrolling(x),
           faults' \in 0 .. MaxFaults, faults <= faults',
           UNCHANGED <<now, created, loopVars, runVars>>
    PROVE  Inv'
<1>1. TypeOK /\ Never <= now
  BY Numbers DEF Inv, Never
<1>2. StoreTyped'
  BY <1>1, TypeParts DEF StoreTyped, SameStore, RowsButCleared
<1>3. StoreStep
  BY DEF Inv, Aged, SameStore, StoreStep
<1>4. RowsStep
  BY <1>1 DEF Inv, Aged, RowsButCleared, RowsStep
<1>5. Creating'
  <2> SUFFICES ASSUME NEW x \in Schedules, Enrolling(x)', ~Reset(x)'
               PROVE  Unborn(x)'
    BY DEF Creating
  <2>1. NeverRan(x) => NeverRan(x)'
    BY DEF NeverRan, Ids, runVars
  <2>2. Unborn(x)
    BY DEF Inv, Creating
  <2> QED
    BY <2>1, <2>2 DEF Unborn, SameStore, RowsButCleared
<1> QED
  BY <1>2, <1>3, <1>4, <1>5, ServiceKeeps

\* Other calls change, clear or drop the entries of a schedule that exists.
LEMMA ChangeKeeps ==
    ASSUME Inv, NEW s \in Schedules,
           Update(s) \/ Delete(s) \/ ChangeElsewhere(s) \/ \E on \in BOOLEAN : SetEnabled(s, on)
    PROVE  Inv'
<1>1. TypeOK /\ faults \in 0 .. MaxFaults /\ faults <= faults
  BY TypeParts, Bounds DEF Inv, TimeTyped
<1>2. store' = store => SameStore
  BY <1>1, TypeParts DEF SameStore, StoreTyped
<1>3. /\ UNCHANGED <<now, created, loopVars, runVars, faults>>
      /\ \E op \in {"update", "delete", "pause", "resume"}, step \in {"row", "unregister", "done"} :
           /\ Call(op, s, 0, step) /\ SameStore
           /\ RowsButCleared({}) \/ (op = "update" /\ RowsButCleared({s}))
  <2>1. CASE Update(s)
    BY <1>1, <1>2, <2>1, Writers DEF Update
  <2>2. CASE Delete(s)
    BY <1>1, <1>2, <2>2, Writers DEF Delete
  <2>3. CASE ChangeElsewhere(s)
    BY <1>1, <1>2, <2>3, Writers DEF ChangeElsewhere
  <2>4. ASSUME NEW on \in BOOLEAN, SetEnabled(s, on)
        PROVE  SameStore
    <3>1. store' = EnableIn(store, s, on)
      BY <2>4, <1>1, TypeParts, EntriesAre DEF SetEnabled, StoreTyped, EnableIn
    <3> QED
      BY <1>1, <3>1, TypeParts, EntriesEnable DEF SameStore, StoreTyped
  <2>5. CASE \E on \in BOOLEAN : SetEnabled(s, on)
    BY <1>1, <2>4, <2>5, Writers DEF SetEnabled
  <2> QED
    BY <2>1, <2>2, <2>3, <2>5
<1>4. PICK op \in {"update", "delete", "pause", "resume"}, step \in {"row", "unregister", "done"} :
           /\ Call(op, s, 0, step) /\ SameStore
           /\ RowsButCleared({}) \/ (op = "update" /\ RowsButCleared({s}))
  BY <1>3
<1>5. /\ CallsTyped' /\ CallsShaped' /\ AwaitsKept /\ \A x \in Schedules : Reset(x) => Reset(x)'
      /\ op = "update" => Reset(s)'
      /\ \A x \in Schedules : Enrolling(x)' => Enrolling(x)
  <2>1. s \in created
    BY <1>1, TypeParts DEF StoreTyped, Update, Delete, ChangeElsewhere, SetEnabled
  <2> QED
    BY <1>3, <1>4, <2>1, CallAdded DEF Ops, Steps
<1> QED
  BY <1>1, <1>3, <1>4, <1>5, RewriteKeeps

\* A call that goes on: what it does to the invariants about calls.
LEMMA CallStepped ==
    ASSUME Inv, NEW k \in DOMAIN calls, NEW step \in Steps \ {"row"},
           calls' = [calls EXCEPT ![k].step = step], UNCHANGED <<created, runs>>,
           step = "register" => calls[k].op = "update"
    PROVE  /\ CallsTyped' /\ CallsShaped' /\ AwaitsKept /\ (\A l \in DOMAIN calls' : Awaits(l)' => l # k)
           /\ \A x : Reset(x) <=> Reset(x)'
           /\ \A x \in Schedules : Enrolling(x)' =>
                Enrolling(x) /\ ~(calls[k].op = "create" /\ calls[k].schedule = x)
<1>1. TypeOK /\ Ids' = Ids
  BY DEF Inv, Ids
<1>2. calls[k] \in CallRec
  <2> HIDE DEF CallRec
  <2> QED
    BY <1>1, TypeParts DEF CallsTyped
<1>3. /\ calls' \in Seq(CallRec') /\ DOMAIN calls' = DOMAIN calls
      /\ calls'[k] = [calls[k] EXCEPT !.step = step]
      /\ \A l \in DOMAIN calls \ {k} : calls'[l] = calls[l]
  BY <1>1, StepFacts
<1>4. /\ calls'[k].op = calls[k].op /\ calls'[k].schedule = calls[k].schedule
      /\ calls'[k].run = calls[k].run /\ calls'[k].step = step
  BY <1>2, <1>3 DEF CallRec
<1>5. \A l \in DOMAIN calls :
        /\ calls'[l].op = calls[l].op /\ calls'[l].schedule = calls[l].schedule
        /\ calls'[l].run = calls[l].run
        /\ calls'[l].step = IF l = k THEN step ELSE calls[l].step
  BY <1>3, <1>4
<1>6. CallsTyped'
  BY <1>3 DEF CallsTyped
<1>7. CallsShaped'
  BY <1>3, <1>5 DEF Inv, CallsShaped
<1>8. AwaitsKept /\ \A l \in DOMAIN calls' : Awaits(l)' => l # k
  BY <1>3, <1>5 DEF AwaitsKept, Awaits
<1>9. \A x : Reset(x) <=> Reset(x)'
  BY <1>3, <1>5 DEF Reset
<1>10. \A x \in Schedules : Enrolling(x)' =>
         Enrolling(x) /\ ~(calls[k].op = "create" /\ calls[k].schedule = x)
  BY <1>3, <1>5 DEF Enrolling, Inv, CallsShaped
<1> QED
  BY <1>6, <1>7, <1>8, <1>9, <1>10

\* The row that update, pause and resume write may fail.
LEMMA RowKeeps ==
    ASSUME Inv, NEW k \in DOMAIN calls, ContinueRow(k)
    PROVE  Inv'
<1>1. TypeOK /\ faults \in 0 .. MaxFaults /\ faults \in Nat
  BY TypeParts, Numbers, Bounds DEF Inv, TimeTyped
<1>2. calls[k] \in CallRec
  <2> HIDE DEF CallRec
  <2> QED
    BY <1>1, TypeParts DEF CallsTyped
<1>3. PICK op \in Ops, s \in Schedules : calls[k].op = op /\ calls[k].schedule = s
  BY <1>2 DEF CallRec
<1>4. SameStore /\ UNCHANGED <<now, created, loopVars, runVars>>
  BY <1>1, TypeParts DEF ContinueRow, SameStore, StoreTyped
<1>5. PICK step \in {"unregister", "done"} : calls' = [calls EXCEPT ![k].step = step]
  BY DEF ContinueRow
<1>6. /\ CallsTyped' /\ CallsShaped' /\ AwaitsKept /\ \A x \in Schedules : Reset(x) <=> Reset(x)'
      /\ \A x \in Schedules : Enrolling(x)' => Enrolling(x)
  BY <1>4, <1>5, CallStepped DEF Steps, runVars
<1>7. faults' \in 0 .. MaxFaults /\ faults <= faults'
  BY <1>1, Bounds DEF ContinueRow
<1>8. RowsButCleared({}) \/ (op = "update" /\ RowsButCleared({s}))
  BY <1>1, <1>3, Writers DEF ContinueRow, WriteRow
<1>9. op = "update" => Reset(s)'
  BY <1>3, <1>6 DEF Reset
<1> QED
  BY <1>3, <1>4, <1>6, <1>7, <1>8, <1>9, RewriteKeeps

\* What is registered anew was updated, or has never run.
LEMMA StoreKeeps ==
    ASSUME Inv, NEW k \in DOMAIN calls, ContinueStore(k)
    PROVE  Inv'
<1>1. /\ TypeOK /\ StoreTyped /\ faults \in 0 .. MaxFaults /\ faults <= faults /\ Never <= now
  BY TypeParts, Numbers, Bounds DEF Inv, TimeTyped, Never
<1>2. calls[k] \in CallRec
  <2> HIDE DEF CallRec
  <2> QED
    BY <1>1, TypeParts DEF CallsTyped
<1>3. PICK s \in Schedules : calls[k].schedule = s
  BY <1>2 DEF CallRec
<1>4. UNCHANGED <<now, rows, created, loopVars, runVars, faults>> /\ Ids' = Ids
  BY DEF ContinueStore, runVars, Ids
<1>5. RowsStep
  BY <1>4 DEF RowsStep, Inv, Aged
<1>6. ASSUME calls[k].step = "unregister"
      PROVE  Inv'
  <2>1. PICK step \in {"register", "done"} :
          /\ calls' = [calls EXCEPT ![k].step = step]
          /\ step = "register" => calls[k].op = "update"
    BY <1>6 DEF ContinueStore
  <2>2. /\ CallsTyped' /\ CallsShaped' /\ AwaitsKept /\ \A x \in Schedules : Reset(x) <=> Reset(x)'
        /\ \A x \in Schedules : Enrolling(x)' => Enrolling(x)
    BY <1>4, <2>1, CallStepped DEF Steps, runVars
  <2>3. store' = Drop(store, s)
    BY <1>3, <1>6 DEF ContinueStore
  <2>4. /\ store' \in Entries /\ DOMAIN store' = DOMAIN store \ {s}
        /\ \A x \in DOMAIN store \ {s} : store'[x] = store[x]
    BY <1>1, <2>3, EntriesDrop DEF StoreTyped
  <2>5. StoreTyped' /\ StoreStep
    BY <1>1, <1>4, <2>4 DEF StoreTyped, StoreStep, Inv, Aged
  <2>6. Creating'
    BY <1>4, <2>2, <2>4 DEF Inv, Creating, Unborn, NeverRan, runVars
  <2> QED
    BY <1>1, <1>4, <1>5, <2>2, <2>5, <2>6, ServiceKeeps
<1>7. ASSUME calls[k].step = "register"
      PROVE  Inv'
  <2>1. calls' = [calls EXCEPT ![k].step = "done"] /\ store' = Put(store, s, Fresh)
    BY <1>3, <1>7 DEF ContinueStore
  <2>2. /\ CallsTyped' /\ CallsShaped' /\ AwaitsKept /\ \A x \in Schedules : Reset(x) <=> Reset(x)'
        /\ \A x \in Schedules : Enrolling(x)' =>
             Enrolling(x) /\ ~(calls[k].op = "create" /\ s = x)
    BY <1>3, <1>4, <2>1, CallStepped DEF Steps, runVars
  <2>3. Fresh \in EntryRec /\ Fresh.last = Never
    BY Bounds DEF Fresh, EntryRec
  <2>4. /\ store' \in Entries /\ DOMAIN store' = DOMAIN store \cup {s}
        /\ \A x \in DOMAIN store \cup {s} : store'[x] = IF x = s THEN Fresh ELSE store[x]
    <3>1. store \in Entries
      BY <1>1 DEF StoreTyped
    <3>2. /\ Put(store, s, Fresh) \in Entries /\ DOMAIN Put(store, s, Fresh) = DOMAIN store \cup {s}
          /\ \A x \in DOMAIN store \cup {s} : Put(store, s, Fresh)[x] = IF x = s THEN Fresh ELSE store[x]
      <4>1. IsPut(Put(store, s, Fresh), store, s, Fresh)
        BY <2>3, <3>1, EntriesPut
      <4> QED
        BY <4>1 DEF IsPut
    <3> QED
      BY <2>1, <3>2
  <2>5. calls[k].op \in {"create", "update"}
    BY <1>7 DEF Inv, CallsShaped
  <2>6. s \in created
    BY <1>3 DEF Inv, CallsShaped
  <2>7. Reset(s) \/ Unborn(s)
    BY <1>3, <1>7, <2>5 DEF Inv, Creating, Enrolling, Reset
  <2>8. StoreTyped' /\ StoreStep
    BY <1>1, <1>3, <1>4, <2>2, <2>3, <2>4, <2>6, <2>7 DEF StoreTyped, StoreStep, Inv, Aged, Unborn
  <2>9. Creating'
    <3> SUFFICES ASSUME NEW x \in Schedules, Enrolling(x)', ~Reset(x)'
                 PROVE  Unborn(x)'
      BY DEF Creating
    <3>1. x # s
      BY <1>3, <2>2, <2>5 DEF Reset
    <3>2. Unborn(x)
      BY <2>2 DEF Inv, Creating
    <3> QED
      BY <1>4, <2>4, <3>1, <3>2 DEF Unborn, NeverRan, runVars
  <2> QED
    BY <1>1, <1>4, <1>5, <2>2, <2>8, <2>9, ServiceKeeps
<1> QED
  BY <1>6, <1>7 DEF ContinueStore

-----------------------------------------------------------------------------
(* Records. *)

\* A record that is made is the last one, and nobody dispatched it yet.
LEMMA RecordFacts ==
    ASSUME TypeOK, NEW s \in Schedules, NEW at \in Nat, NEW manual \in BOOLEAN, Record(s, at, manual)
    PROVE  LET n == Len(runs) + 1 IN
           /\ RunsTyped' /\ Ids' = Ids \cup {n} /\ n \notin Ids /\ n \in Nat /\ \A i \in Ids : i < n
           /\ \A i \in Ids : runs'[i] = runs[i]
           /\ runs'[n] = [schedule |-> s, at |-> at, started |-> now, status |-> "running",
                          manual |-> manual]
           /\ kept' \subseteq kept \cup {n}
<1> DEFINE r == [schedule |-> s, at |-> at, started |-> now, status |-> "running", manual |-> manual]
<1>1. runs \in Seq(RunRec) /\ now \in Nat
  BY TypeParts, Numbers DEF RunsTyped
<1>2. r \in RunRec
  BY <1>1 DEF RunRec, Statuses
<1>3. runs' = Append(runs, r) /\ kept' \subseteq kept \cup {Len(runs) + 1}
  BY DEF Record
<1> HIDE DEF r, RunRec
<1>4. /\ runs' \in Seq(RunRec) /\ Len(runs') = Len(runs) + 1 /\ Len(runs) \in Nat
      /\ \A i \in 1 .. Len(runs) : runs'[i] = runs[i]
      /\ runs'[Len(runs) + 1] = r
  BY <1>1, <1>2, <1>3
<1>5. RunsTyped'
  BY <1>4 DEF RunsTyped, RunRec
<1> QED
  BY <1>3, <1>4, <1>5 DEF Ids, r

\* What holds of the records holds with one more.
LEMMA RecordAdded ==
    ASSUME Inv, NEW s \in Schedules, NEW at \in Nat, NEW manual \in BOOLEAN, Record(s, at, manual),
           s \in created, UNCHANGED <<now, created, rows, saved, inFlight, settling, faults>>,
           \A x \in Schedules : Reset(x) => Reset(x)'
    PROVE  /\ HeldTyped' /\ SavedTyped'
           /\ RecordsMirrored' /\ DurableBeforeDispatch'
           /\ \A i \in Ids' : runs'[i].started <= now /\ runs'[i].schedule \in created
           /\ \A i, j \in Ids' : i <= j => runs'[i].started <= runs'[j].started
<1>1. TypeOK /\ now \in Nat
  BY Numbers DEF Inv
<1>2. PICK n \in Nat :
        /\ RunsTyped' /\ Ids' = Ids \cup {n} /\ n \notin Ids /\ \A i \in Ids : i < n
        /\ \A i \in Ids : runs'[i] = runs[i]
        /\ runs'[n].schedule = s /\ runs'[n].started = now
        /\ kept' \subseteq kept \cup {n}
  <2>1. LET n == Len(runs) + 1 IN
          /\ RunsTyped' /\ Ids' = Ids \cup {n} /\ n \notin Ids /\ n \in Nat /\ \A i \in Ids : i < n
          /\ \A i \in Ids : runs'[i] = runs[i]
          /\ runs'[n] = [schedule |-> s, at |-> at, started |-> now, status |-> "running",
                         manual |-> manual]
          /\ kept' \subseteq kept \cup {n}
    BY <1>1, RecordFacts
  <2> QED
    BY <2>1
<1>3. kept \subseteq Ids /\ inFlight \subseteq Ids /\ settling \subseteq Ids /\ DOMAIN saved \subseteq Ids /\ Ids \subseteq Int
  BY <1>1, TypeParts, Numbers DEF HeldTyped, SavedTyped
<1>4. HeldTyped'
  BY <1>2, <1>3 DEF HeldTyped
<1>5. SavedTyped'
  BY <1>1, <1>2, TypeParts DEF SavedTyped
<1>6. RecordsMirrored'
  BY <1>2, <1>3 DEF Inv, RecordsMirrored
<1>7. DurableBeforeDispatch'
  <2>1. \A i \in inFlight : runs[i].schedule \in Schedules
    BY <1>1, <1>3, Numbers DEF RunRec
  <2> QED
    BY <1>2, <1>3, <2>1 DEF Inv, DurableBeforeDispatch
<1>8. \A i \in Ids' : runs'[i].started <= now /\ runs'[i].schedule \in created
  BY <1>1, <1>2 DEF Inv, Aged
<1>9. \A i, j \in Ids' : i <= j => runs'[i].started <= runs'[j].started
  BY <1>1, <1>2, <1>3, <1>8 DEF Inv, Aged
<1> QED
  BY <1>4, <1>5, <1>6, <1>7, <1>8, <1>9

\* Calls and the record in hand stay well typed when records are added.
LEMMA MoreRecords ==
    ASSUME TypeOK, Ids \subseteq Ids'
    PROVE  /\ calls' = calls => CallsTyped'
           /\ handling' = handling => HandlingTyped'
<1>1. CallRec \subseteq CallRec'
  BY DEF CallRec
<1>2. calls \in Seq(CallRec')
  <2> HIDE DEF CallRec
  <2> QED
    BY <1>1, TypeParts, SeqMonotonic DEF CallsTyped
<1>3. handling' = handling => HandlingTyped'
  BY TypeParts DEF HandlingTyped
<1> QED
  BY <1>2, <1>3 DEF CallsTyped

\* A manual trigger holds the record it makes.
LEMMA TriggerKeeps ==
    ASSUME Inv, NEW s \in Schedules, TriggerNow(s)
    PROVE  Inv'
<1> DEFINE n == Len(runs) + 1
           m == Len(calls) + 1
<1>1. /\ TypeOK /\ now \in Nat /\ s \in created /\ s \in DOMAIN store /\ now \in Times
      /\ UNCHANGED <<now, store, rows, created, loopVars, saved, inFlight, settling, faults>>
      /\ Record(s, now, TRUE) /\ Call("trigger", s, n, "row")
  BY TypeParts, Numbers DEF Inv, TriggerNow, StoreTyped
<1>2. /\ RunsTyped' /\ Ids' = Ids \cup {n} /\ n \notin Ids /\ n \in Nat /\ \A i \in Ids : i < n
      /\ \A i \in Ids : runs'[i] = runs[i]
      /\ runs'[n] = [schedule |-> s, at |-> now, started |-> now, status |-> "running", manual |-> TRUE]
  BY <1>1, RecordFacts
<1>3. /\ calls' \in Seq(CallRec') /\ DOMAIN calls' = DOMAIN calls \cup {m} /\ m \notin DOMAIN calls
      /\ calls'[m] = [op |-> "trigger", schedule |-> s, run |-> n, step |-> "row"]
      /\ \A k \in DOMAIN calls : calls'[k] = calls[k]
  <2>1. n \in {0} \cup Ids' /\ Ids \subseteq Ids'
    BY <1>2
  <2> HIDE DEF n
  <2> QED
    BY <1>1, <2>1, CallFacts DEF Ops, Steps
<1> HIDE DEF n, m
<1>4. \A x : Reset(x) <=> Reset(x)'
  BY <1>3 DEF Reset
<1>5. /\ HeldTyped' /\ SavedTyped' /\ RecordsMirrored' /\ DurableBeforeDispatch'
      /\ \A i \in Ids' : runs'[i].started <= now /\ runs'[i].schedule \in created
      /\ \A i, j \in Ids' : i <= j => runs'[i].started <= runs'[j].started
  BY <1>1, <1>4, RecordAdded
<1>6. TypeOK'
  <2>1. TimeTyped' /\ StoreTyped' /\ LoopTyped'
    BY <1>1, TypeKept DEF loopVars
  <2>2. HandlingTyped'
    BY <1>1, <1>2, MoreRecords DEF loopVars
  <2> QED
    BY <1>2, <1>3, <1>5, <2>1, <2>2, TypePartsNext DEF CallsTyped
<1>7. Aged'
  BY <1>1, <1>5 DEF Inv, Aged
<1>8. CallsShaped'
  BY <1>1, <1>3 DEF Inv, CallsShaped
<1>9. Creating'
  <2> SUFFICES ASSUME NEW x \in Schedules, Enrolling(x)', ~Reset(x)'
               PROVE  Unborn(x)'
    BY DEF Creating
  <2>1. Enrolling(x)
    BY <1>3 DEF Enrolling
  <2>2. Unborn(x) /\ x # s
    BY <1>1, <1>4, <2>1 DEF Inv, Creating, Unborn
  <2> QED
    BY <1>1, <1>2, <2>2 DEF Unborn, NeverRan
<1>10. Custody'
  <2>1. \A h \in handling : h.id \in Ids
    BY <1>1, TypeParts DEF HandlingTyped
  <2>2. Dispatched \subseteq Ids
    BY <1>1, TypeParts DEF HeldTyped, Dispatched
  <2>3. handling' = handling /\ inFlight' = inFlight /\ settling' = settling /\ Dispatched' = Dispatched
    BY <1>1 DEF loopVars, Dispatched
  <2>4. \A h \in handling' :
         /\ h.id \notin Dispatched' /\ runs'[h.id].status = "running" /\ ~runs'[h.id].manual
         /\ \A i \in Ids' : runs'[i].manual \/ i <= h.id
    BY <1>2, <2>1, <2>3 DEF Inv, Custody
  <2>5. \A k \in DOMAIN calls' : Awaits(k)' =>
         k = m \/ (k \in DOMAIN calls /\ Awaits(k) /\ calls'[k].run = calls[k].run)
    BY <1>3 DEF Awaits
  <2>6. \A k \in DOMAIN calls' : Awaits(k)' =>
         /\ calls'[k].run \in Ids' \ Dispatched'
         /\ runs'[calls'[k].run].status = "running" /\ runs'[calls'[k].run].manual
    BY <1>2, <1>3, <2>2, <2>3, <2>5 DEF Inv, Custody
  <2>7. \A k, l \in DOMAIN calls' : Awaits(k)' /\ Awaits(l)' /\ calls'[k].run = calls'[l].run => k = l
    BY <1>2, <1>3, <2>5 DEF Inv, Custody
  <2>8. \A i \in inFlight' : i \notin settling' /\ runs'[i].status = "running"
    <3>1. inFlight \subseteq Ids
      BY <1>1, TypeParts DEF HeldTyped
    <3> QED
      BY <1>2, <2>3, <3>1 DEF Inv, Custody
  <2> QED
    BY <2>4, <2>6, <2>7, <2>8 DEF Custody
<1>11. HandledInMemory' /\ HandledOnDisk'
  <2>1. \A h \in handling : h.id \in Ids
    BY <1>1, TypeParts DEF HandlingTyped
  <2> QED
    BY <1>1, <1>2, <1>4, <2>1 DEF Inv, HandledInMemory, HandledOnDisk, loopVars
<1>12. SavedFireBehind'
  BY <1>1, <1>4 DEF Inv, SavedFireBehind
<1> QED
  BY <1>5, <1>6, <1>7, <1>8, <1>9, <1>10, <1>11, <1>12 DEF Inv

\* A trigger that is received makes the latest record, and memory is not behind it.
LEMMA ReceiveKeeps ==
    ASSUME Inv, Receive
    PROVE  Inv'
<1>1. /\ TypeOK /\ TimeTyped /\ LoopTyped /\ StoreTyped /\ now \in Nat /\ now \in Times /\ now <= now
      /\ handling = {} /\ queue # << >> /\ queue' = Tail(queue)
      /\ UNCHANGED <<now, rows, created, calls, phase, ticks, pending, batch, saved, inFlight, settling, faults>>
  BY TypeParts, Numbers DEF Inv, Receive
<1>2. PICK s \in Schedules, at \in Nat : Head(queue) = [schedule |-> s, at |-> at]
  <2>1. Head(queue) \in Triggers
    BY <1>1 DEF LoopTyped
  <2> QED
    BY <2>1 DEF Triggers
<1>3. LoopTyped' /\ TimeTyped'
  BY <1>1, TypeKept DEF LoopTyped
<1>4. \A x : Reset(x) <=> Reset(x)'
  BY <1>1 DEF Reset
<1>5. \/ /\ s \in DOMAIN store /\ Record(s, at, FALSE) /\ UpdateLastFire(s)
         /\ handling' = {[id |-> Len(runs) + 1, step |-> "fire"]}
      \/ s \notin DOMAIN store /\ UNCHANGED <<store, handling, runs, kept>>
  <2>1. Head(queue).schedule = s /\ Head(queue).at = at
    BY <1>2
  <2> QED
    BY <2>1 DEF Receive
<1>6. CASE s \notin DOMAIN store
  <2>1. UNCHANGED <<store, handling, runs, kept>>
    BY <1>6, <1>5
  <2> QED
    BY <1>1, <1>3, <2>1, LoopsKeep DEF storeVars, runVars
<1>7. CASE s \in DOMAIN store
  <2> DEFINE n == Len(runs) + 1
  <2>1. /\ Record(s, at, FALSE) /\ handling' = {[id |-> n, step |-> "fire"]}
        /\ store' = [store EXCEPT ![s].last = now]
    BY <1>7, <1>5 DEF UpdateLastFire
  <2>2. /\ RunsTyped' /\ Ids' = Ids \cup {n} /\ n \notin Ids /\ n \in Nat /\ \A i \in Ids : i < n
        /\ \A i \in Ids : runs'[i] = runs[i]
        /\ runs'[n] = [schedule |-> s, at |-> at, started |-> now, status |-> "running",
                       manual |-> FALSE]
    BY <1>1, <1>2, <2>1, RecordFacts
  <2> HIDE DEF n
  <2>3. s \in created
    BY <1>1, <1>7 DEF StoreTyped
  <2>4. /\ HeldTyped' /\ SavedTyped' /\ RecordsMirrored' /\ DurableBeforeDispatch'
        /\ \A i \in Ids' : runs'[i].started <= now /\ runs'[i].schedule \in created
        /\ \A i, j \in Ids' : i <= j => runs'[i].started <= runs'[j].started
    BY <1>1, <1>2, <1>4, <2>1, <2>3, RecordAdded
  <2>5. /\ store' \in Entries /\ DOMAIN store' = DOMAIN store
        /\ \A x \in DOMAIN store : store'[x].last = IF x = s THEN now ELSE store[x].last
    <3>1. store' = FireIn(store, s, now)
      BY <1>1, <1>7, <2>1, EntriesAre DEF FireIn, StoreTyped
    <3> QED
      BY <1>1, <3>1, EntriesFire DEF StoreTyped
  <2>6. TypeOK'
    <3>1. StoreTyped'
      BY <1>1, <2>5 DEF StoreTyped
    <3>2. HandlingTyped'
      BY <2>1, <2>2 DEF HandlingTyped
    <3>3. CallsTyped'
      BY <1>1, <2>2, MoreRecords
    <3> QED
      BY <1>3, <2>2, <2>4, <3>1, <3>2, <3>3, TypePartsNext
  <2>7. Aged'
    BY <1>1, <2>4, <2>5 DEF Inv, Aged
  <2>8. CallsShaped'
    BY <1>1 DEF Inv, CallsShaped
  <2>9. Creating'
    <3> SUFFICES ASSUME NEW x \in Schedules, Enrolling(x)', ~Reset(x)'
                 PROVE  Unborn(x)'
      BY DEF Creating
    <3>1. Enrolling(x)
      BY <1>1 DEF Enrolling
    <3>2. Unborn(x) /\ x # s
      BY <1>4, <1>7, <3>1 DEF Inv, Creating, Unborn
    <3> QED
      BY <1>1, <2>2, <2>5, <3>2 DEF Unborn, NeverRan
  <2>10. Custody'
    <3>1. Dispatched \subseteq Ids /\ Dispatched' = Dispatched
      BY <1>1, TypeParts DEF HeldTyped, Dispatched
    <3>2. \A h \in handling' :
           /\ h.id \notin Dispatched' /\ runs'[h.id].status = "running" /\ ~runs'[h.id].manual
           /\ \A i \in Ids' : runs'[i].manual \/ i <= h.id
      BY <1>1, <2>1, <2>2, <3>1, Numbers
    <3>3. \A i \in inFlight' : i \notin settling' /\ runs'[i].status = "running"
      <4>1. inFlight \subseteq Ids /\ inFlight' = inFlight /\ settling' = settling
        BY <1>1, TypeParts DEF HeldTyped
      <4> QED
        BY <1>1, <2>2, <4>1 DEF Inv, Custody
    <3>4. \A k \in DOMAIN calls : Awaits(k)' <=> Awaits(k)
      BY <1>1 DEF Awaits
    <3>5. \A k \in DOMAIN calls' : Awaits(k)' =>
           /\ calls'[k].run \in Ids' \ Dispatched'
           /\ runs'[calls'[k].run].status = "running" /\ runs'[calls'[k].run].manual
      BY <1>1, <2>2, <3>1, <3>4 DEF Inv, Custody
    <3>6. \A k, l \in DOMAIN calls' :
           Awaits(k)' /\ Awaits(l)' /\ calls'[k].run = calls'[l].run => k = l
      BY <1>1, <3>4 DEF Inv, Custody
    <3> QED
      BY <3>2, <3>3, <3>5, <3>6 DEF Custody
  <2>11. HandledInMemory' /\ HandledOnDisk'
    BY <1>1, <1>7, <2>1, <2>2, <2>5 DEF HandledInMemory, HandledOnDisk
  <2>12. SavedFireBehind'
    BY <1>1, <1>4, <2>5 DEF Inv, Aged, SavedFireBehind
  <2> QED
    BY <2>4, <2>6, <2>7, <2>8, <2>9, <2>10, <2>11, <2>12 DEF Inv
<1> QED
  BY <1>6, <1>7

-----------------------------------------------------------------------------
(* What reaches the disk. *)

\* A row of the history that is written.
LEMMA SaveFacts ==
    ASSUME TypeOK, NEW id \in Ids, NEW status \in Statuses, SaveStatus(id, status), Ids' = Ids
    PROVE  /\ SavedTyped' /\ DOMAIN saved' = DOMAIN saved \cup {id} /\ saved'[id] = status
           /\ \A i \in DOMAIN saved : i # id => saved'[i] = saved[i]
<1>1. PICK I \in SUBSET Ids : saved \in [I -> Statuses]
  BY TypeParts DEF SavedTyped
<1>2. saved' \in [I \cup {id} -> Statuses]
  BY <1>1 DEF SaveStatus
<1> QED
  BY <1>1, <1>2 DEF SaveStatus, SavedTyped

\* The row of a record that is inserted before its dispatch.
LEMMA InsertFacts ==
    ASSUME Inv, NEW id \in Ids, SaveRecord(id), Ids' = Ids, runs[id].status = "running",
           id \notin settling
    PROVE  /\ SavedTyped' /\ DOMAIN saved \subseteq DOMAIN saved' /\ DOMAIN saved' \subseteq DOMAIN saved \cup {id}
           /\ faults' \in 0 .. MaxFaults /\ (faults' = 0 => faults = 0)
           /\ faults' = 0 /\ runs[id].schedule \in DOMAIN rows => id \in DOMAIN saved'
           /\ faults' = 0 => \A i \in kept \cap DOMAIN saved' :
                saved'[i] = IF i \in settling THEN "running" ELSE runs[i].status
<1>1. TypeOK /\ faults \in 0 .. MaxFaults /\ MaxFaults \in Nat /\ "running" \in Statuses
  BY TypeParts, Bounds DEF Inv, TimeTyped, Statuses
<1>2. ASSUME saved' = saved
      PROVE  SavedTyped'
  BY <1>1, <1>2, TypeParts DEF SavedTyped
<1>3. CASE saved' = saved /\ faults' = faults + 1 /\ faults < MaxFaults
  BY <1>1, <1>2, <1>3
<1>4. CASE saved' = saved /\ faults' = faults /\ runs[id].schedule \notin DOMAIN rows
  BY <1>1, <1>2, <1>4 DEF Inv, RecordsMirrored
<1>5. CASE SaveStatus(id, "running") /\ faults' = faults
  <2>1. /\ SavedTyped' /\ DOMAIN saved' = DOMAIN saved \cup {id} /\ saved'[id] = "running"
        /\ \A i \in DOMAIN saved : i # id => saved'[i] = saved[i]
    BY <1>1, <1>5, SaveFacts
  <2> QED
    BY <1>1, <1>5, <2>1 DEF Inv, RecordsMirrored
<1> QED
  BY <1>1, <1>3, <1>4, <1>5 DEF SaveRecord, Try

\* What the dispatch of a record keeps.
LEMMA DispatchKeeps ==
    ASSUME Inv, NEW id \in Ids, SaveRecord(id), runs[id].status = "running",
           id \notin settling, inFlight' = inFlight \cup {id},
           UNCHANGED <<now, store, rows, created, phase, ticks, pending, batch, queue, runs, kept, settling>>,
           CallsTyped', CallsShaped', AwaitsKept, \A x : Reset(x) <=> Reset(x)',
           \A x \in Schedules : Enrolling(x)' => Enrolling(x),
           \A k \in DOMAIN calls' : Awaits(k)' => calls'[k].run # id,
           handling' \in {handling, {}}, \A h \in handling' : h.id # id,
           faults = 0 /\ runs[id].schedule \in DOMAIN rows =>
             runs[id].manual \/ Reset(runs[id].schedule)
               \/ rows[runs[id].schedule].last >= runs[id].started
    PROVE  Inv'
<1>1. TypeOK /\ Ids' = Ids /\ handling' \subseteq handling
  BY DEF Inv, Ids
<1>2. /\ SavedTyped' /\ DOMAIN saved \subseteq DOMAIN saved' /\ DOMAIN saved' \subseteq DOMAIN saved \cup {id}
      /\ faults' \in 0 .. MaxFaults /\ (faults' = 0 => faults = 0)
      /\ faults' = 0 /\ runs[id].schedule \in DOMAIN rows => id \in DOMAIN saved'
      /\ faults' = 0 => \A i \in kept \cap DOMAIN saved' :
           saved'[i] = IF i \in settling THEN "running" ELSE runs[i].status
  BY <1>1, InsertFacts
<1>3. TypeOK'
  <2>1. TimeTyped'
    BY <1>1, <1>2, TypeParts DEF TimeTyped
  <2>2. HeldTyped'
    BY <1>1, TypeParts DEF HeldTyped
  <2> QED
    BY <1>1, <1>2, <2>1, <2>2, TypeKept, TypePartsNext
<1>4. Aged'
  BY <1>1 DEF Inv, Aged
<1>5. Creating'
  BY <1>1 DEF Inv, Creating, Unborn, NeverRan
<1>6. Custody'
  BY <1>1 DEF Inv, Custody, AwaitsKept, Dispatched
<1>7. HandledInMemory' /\ HandledOnDisk'
  BY <1>1, <1>2 DEF Inv, HandledInMemory, HandledOnDisk
<1>8. SavedFireBehind' /\ RecordsMirrored'
  BY <1>1, <1>2 DEF Inv, SavedFireBehind, RecordsMirrored
<1>9. DurableBeforeDispatch'
  BY <1>1, <1>2 DEF Inv, DurableBeforeDispatch
<1> QED
  BY <1>3, <1>4, <1>5, <1>6, <1>7, <1>8, <1>9 DEF Inv

\* The record in hand is dispatched after its last_fire was written.
LEMMA RecordKeeps ==
    ASSUME Inv, PersistRecord
    PROVE  Inv'
<1>1. PICK h \in handling :
        /\ h.step = "record" /\ SaveRecord(h.id) /\ inFlight' = inFlight \cup {h.id} /\ handling' = {}
        /\ UNCHANGED <<now, storeVars, phase, ticks, pending, batch, queue, runs, kept, settling>>
  BY DEF PersistRecord
<1>2. TypeOK /\ h.id \in Ids
  BY TypeParts DEF Inv, HandlingTyped
<1>3. /\ runs[h.id].status = "running" /\ ~runs[h.id].manual /\ h.id \notin settling
      /\ \A k \in DOMAIN calls : Awaits(k) => runs[calls[k].run].manual
  BY DEF Inv, Custody, Dispatched
<1>4. /\ CallsTyped' /\ CallsShaped' /\ AwaitsKept /\ \A x : Reset(x) <=> Reset(x)'
      /\ \A x \in Schedules : Enrolling(x)' => Enrolling(x)
  <2>1. UNCHANGED <<calls, created, runs>>
    BY <1>1 DEF storeVars
  <2>2. CallsTyped'
    BY <1>2, <2>1, TypeKept
  <2> QED
    BY <2>1, <2>2 DEF Inv, CallsShaped, AwaitsKept, Awaits, Reset, Enrolling
<1>5. \A k \in DOMAIN calls' : Awaits(k)' => calls'[k].run # h.id
  BY <1>1, <1>3 DEF Awaits, storeVars
<1>6. faults = 0 /\ runs[h.id].schedule \in DOMAIN rows =>
        Reset(runs[h.id].schedule) \/ rows[runs[h.id].schedule].last >= runs[h.id].started
  BY <1>1, <1>2, Numbers DEF Inv, HandledOnDisk
<1> QED
  BY <1>1, <1>2, <1>3, <1>4, <1>5, <1>6, DispatchKeeps DEF storeVars

\* The record of a manual trigger is dispatched by its call alone.
LEMMA ContinueTriggerKeeps ==
    ASSUME Inv, NEW k \in DOMAIN calls, ContinueTrigger(k)
    PROVE  Inv'
<1>1. /\ Awaits(k) /\ SaveRecord(calls[k].run) /\ inFlight' = inFlight \cup {calls[k].run}
      /\ calls' = [calls EXCEPT ![k].step = "done"]
      /\ UNCHANGED <<now, store, rows, created, loopVars, runs, kept, settling>>
  BY DEF ContinueTrigger, Awaits
<1>2. PICK id \in Ids : calls[k].run = id /\ runs[id].status = "running" /\ runs[id].manual /\ id \notin settling
  BY <1>1 DEF Inv, Custody, Dispatched
<1>3. \A h \in handling : h.id # id
  BY <1>2 DEF Inv, Custody
<1>4. TypeOK /\ Ids' = Ids
  BY <1>1 DEF Inv, Ids
<1>5. /\ CallsTyped' /\ CallsShaped' /\ AwaitsKept /\ \A x : Reset(x) <=> Reset(x)'
      /\ \A x \in Schedules : Enrolling(x)' => Enrolling(x)
      /\ \A l \in DOMAIN calls' : Awaits(l)' => calls'[l].run # id
  <2>1. UNCHANGED <<created, runs>>
    BY <1>1
  <2>2. /\ CallsTyped' /\ CallsShaped' /\ AwaitsKept /\ (\A l \in DOMAIN calls' : Awaits(l)' => l # k)
        /\ \A x : Reset(x) <=> Reset(x)'
        /\ \A x \in Schedules : Enrolling(x)' => Enrolling(x)
    BY <1>1, <2>1, CallStepped DEF Steps
  <2>3. \A l \in DOMAIN calls : Awaits(l) /\ calls[l].run = id => l = k
    BY <1>1, <1>2 DEF Inv, Custody
  <2> QED
    BY <2>2, <2>3 DEF AwaitsKept
<1> QED
  BY <1>1, <1>2, <1>3, <1>5, DispatchKeeps DEF loopVars

\* The row's last_fire follows the record in hand: it grows and stays behind memory's.
LEMMA FireKeeps ==
    ASSUME Inv, PersistLastFire
    PROVE  Inv'
<1>1. PICK h \in handling :
        /\ h.step = "fire" /\ handling' = {[h EXCEPT !.step = "record"]}
        /\ Try(SaveLastFire(runs[h.id].schedule, runs[h.id].started), UNCHANGED rows)
        /\ UNCHANGED <<now, store, created, calls, phase, ticks, pending, batch, queue, runVars>>
  BY DEF PersistLastFire
<1>2. /\ TypeOK /\ StoreTyped /\ faults \in 0 .. MaxFaults /\ MaxFaults \in Nat /\ now \in 0 .. MaxTime
      /\ Ids' = Ids /\ \A x : Reset(x) <=> Reset(x)'
  BY <1>1, TypeParts, Bounds DEF Inv, TimeTyped, Ids, runVars, Reset
<1>3. PICK id \in Ids : h = [id |-> id, step |-> "fire"]
  BY <1>1, <1>2, TypeParts DEF HandlingTyped
<1>4. PICK s \in Schedules, at \in Nat : runs[id].schedule = s /\ runs[id].started = at
  BY <1>2, Numbers DEF RunRec
<1>5. /\ handling = {h} /\ handling' = {[id |-> id, step |-> "record"]} /\ id \notin Dispatched
      /\ runs[id].status = "running" /\ ~runs[id].manual
      /\ \A i \in Ids : runs[i].manual \/ i <= id
      /\ s \in DOMAIN store => Reset(s) \/ at <= store[s].last
  <2>1. handling = {h}
    BY <1>1, <1>2, TypeParts DEF HandlingTyped
  <2> QED
    BY <1>1, <1>3, <1>4, <2>1 DEF Inv, Custody, HandledInMemory
<1>6. at \in Times /\ at <= now
  BY <1>2, <1>3, <1>4, Bounds DEF Inv, Aged
<1>7. /\ rows' \in Entries /\ DOMAIN rows' = DOMAIN rows
      /\ faults' \in 0 .. MaxFaults /\ (faults' = 0 => faults = 0)
      /\ \A x \in DOMAIN rows : x # s => rows'[x].last = rows[x].last
      /\ s \in DOMAIN rows => rows'[s].last \in {rows[s].last, at}
      /\ faults' = 0 /\ s \in DOMAIN rows => rows'[s].last = at
  <2>1. CASE rows' = rows /\ faults' = faults + 1 /\ faults < MaxFaults
    BY <1>2, <2>1 DEF StoreTyped
  <2>2. CASE SaveLastFire(s, at) /\ faults' = faults
    <3>1. rows' = FireIn(rows, s, at)
      BY <2>2 DEF SaveLastFire, FireIn
    <3> QED
      BY <1>2, <1>6, <2>2, <3>1, EntriesFire DEF StoreTyped
  <2> QED
    BY <1>1, <1>3, <1>4, <2>1, <2>2 DEF Try
<1>8. TypeOK'
  <2>1. TimeTyped' /\ StoreTyped'
    BY <1>1, <1>2, <1>7 DEF TimeTyped, StoreTyped
  <2>2. HandlingTyped'
    BY <1>2, <1>5 DEF HandlingTyped
  <2> QED
    BY <1>1, <1>2, <2>1, <2>2, TypeKept, TypePartsNext DEF runVars
<1>9. Aged'
  BY <1>1, <1>2, <1>6, <1>7 DEF Inv, Aged, runVars
<1>10. CallsShaped'
  BY <1>1 DEF Inv, CallsShaped
<1>11. Creating'
  <2> SUFFICES ASSUME NEW x \in Schedules, Enrolling(x)', ~Reset(x)'
               PROVE  Unborn(x)'
    BY DEF Creating
  <2>1. Unborn(x)
    BY <1>1, <1>2 DEF Inv, Creating, Enrolling
  <2>2. x # s
    BY <1>4, <2>1 DEF Unborn, NeverRan
  <2> QED
    BY <1>1, <1>2, <1>7, <2>1, <2>2 DEF Unborn, NeverRan, runVars
<1>12. Custody'
  BY <1>1, <1>2, <1>5 DEF Inv, Custody, Awaits, runVars, Dispatched
<1>13. HandledInMemory'
  BY <1>5 DEF HandledInMemory
<1>14. HandledOnDisk'
  BY <1>1, <1>4, <1>5, <1>7 DEF HandledOnDisk, runVars
<1>15. SavedFireBehind'
  <2> SUFFICES ASSUME NEW x \in DOMAIN store', x \in DOMAIN rows', ~Reset(x)'
               PROVE  rows'[x].last <= store'[x].last
    BY DEF SavedFireBehind
  <2>1. rows[x].last <= store[x].last
    BY <1>1, <1>2, <1>7 DEF Inv, SavedFireBehind
  <2> QED
    BY <1>1, <1>2, <1>5, <1>7, <2>1
<1>16. RecordsMirrored'
  BY <1>1, <1>7 DEF Inv, RecordsMirrored, runVars
<1>17. DurableBeforeDispatch'
  <2> SUFFICES ASSUME faults' = 0, NEW i \in inFlight, runs[i].schedule \in DOMAIN rows
               PROVE  /\ i \in DOMAIN saved
                      /\ runs[i].manual \/ Reset(runs[i].schedule)
                           \/ rows'[runs[i].schedule].last >= runs[i].started
    BY <1>1, <1>2, <1>7 DEF DurableBeforeDispatch, runVars
  <2>1. /\ i \in DOMAIN saved
        /\ runs[i].manual \/ Reset(runs[i].schedule)
             \/ rows[runs[i].schedule].last >= runs[i].started
    BY <1>7 DEF Inv, DurableBeforeDispatch
  <2>2. CASE runs[i].schedule = s /\ ~runs[i].manual
    <3>1. i \in Ids
      BY <1>2, TypeParts DEF HeldTyped
    <3>2. runs[i].started <= at /\ runs[i].started \in Nat
      BY <1>2, <1>4, <1>5, <2>2, <3>1, Numbers DEF Inv, Aged
    <3> QED
      BY <1>7, <2>1, <2>2, <3>2
  <2>3. CASE runs[i].schedule # s \/ runs[i].manual
    BY <1>7, <2>1, <2>3
  <2> QED
    BY <2>2, <2>3
<1> QED
  BY <1>8, <1>9, <1>10, <1>11, <1>12, <1>13, <1>14, <1>15, <1>16, <1>17 DEF Inv

\* A dispatch that returns tells its outcome to the record, where it still is.
LEMMA CompleteKeeps ==
    ASSUME Inv, NEW id \in inFlight, NEW status \in {"completed", "failed"}, Complete(id, status)
    PROVE  Inv'
<1>1. /\ TypeOK /\ id \in Ids /\ inFlight \subseteq Ids /\ runs[id] \in RunRec /\ status \in Statuses
      /\ RunsTyped /\ SavedTyped /\ DOMAIN saved \subseteq Ids
      /\ faults \in 0 .. MaxFaults /\ MaxFaults \in Nat
  BY TypeParts, Numbers, Bounds DEF Inv, HeldTyped, TimeTyped, Statuses, SavedTyped
<1>2. /\ inFlight' = inFlight \ {id} /\ UNCHANGED <<now, storeVars, loopVars, kept, saved, faults>>
      /\ settling' = IF id \in kept THEN settling \cup {id} ELSE settling
      /\ id \notin settling /\ runs[id].status = "running"
  BY DEF Complete, Inv, Custody
<1>3. /\ RunsTyped' /\ Ids' = Ids
      /\ \A i \in Ids : /\ runs'[i].schedule = runs[i].schedule /\ runs'[i].started = runs[i].started
                        /\ runs'[i].manual = runs[i].manual
                        /\ runs'[i].status = IF i = id /\ id \in kept THEN status ELSE runs[i].status
  <2>1. CASE id \in kept
    <3>1. runs' = [runs EXCEPT ![id].status = status]
      BY <2>1 DEF Complete
    <3>2. [runs[id] EXCEPT !.status = status] \in RunRec
      BY <1>1 DEF RunRec
    <3>3. runs' = [runs EXCEPT ![id] = [runs[id] EXCEPT !.status = status]]
      BY <3>1
    <3>4. runs' \in Seq(RunRec) /\ Len(runs') = Len(runs)
      <4> HIDE DEF RunRec
      <4>1. runs \in Seq(RunRec) /\ id \in 1 .. Len(runs)
        BY <1>1 DEF RunsTyped, Ids
      <4> QED
        BY <3>2, <3>3, <4>1, ExceptSeq
    <3>5. Ids' = Ids /\ RunsTyped' /\ Ids = DOMAIN runs
      BY <1>1, <3>4, Numbers DEF Ids, RunsTyped, RunRec
    <3> QED
      BY <1>1, <2>1, <3>3, <3>5 DEF RunRec
  <2>2. CASE id \notin kept
    BY <1>1, <2>2, TypeKept DEF Complete, Ids
  <2> QED
    BY <2>1, <2>2
<1>4. SavedTyped' /\ RecordsMirrored'
  <2>1. SavedTyped'
    BY <1>1, <1>2, <1>3 DEF SavedTyped
  <2>2. RecordsMirrored'
    BY <1>1, <1>2, <1>3 DEF Inv, RecordsMirrored
  <2> QED
    BY <2>1, <2>2
<1>5. TypeOK'
  <2>1. TimeTyped' /\ HeldTyped'
    BY <1>1, <1>2, <1>3, <1>4, TypeParts DEF TimeTyped, HeldTyped
  <2>2. CallsTyped' /\ HandlingTyped'
    BY <1>1, <1>2, <1>3, MoreRecords DEF storeVars, loopVars
  <2> QED
    BY <1>1, <1>2, <1>3, <1>4, <2>1, <2>2, TypeKept, TypePartsNext DEF storeVars, loopVars
<1>6. Aged'
  BY <1>2, <1>3 DEF Inv, Aged, storeVars
<1>7. CallsShaped' /\ Creating'
  BY <1>2, <1>3 DEF Inv, CallsShaped, Creating, Enrolling, Unborn, NeverRan, Reset, storeVars
<1>8. Custody'
  <2>1. \A h \in handling : h.id \in Ids
    BY <1>1, TypeParts DEF HandlingTyped
  <2> QED
    BY <1>1, <1>2, <1>3, <2>1 DEF Inv, Custody, Awaits, Dispatched, storeVars, loopVars
<1>9. HandledInMemory' /\ HandledOnDisk'
  <2>1. \A h \in handling : h.id \in Ids
    BY <1>1, TypeParts DEF HandlingTyped
  <2> QED
    BY <1>2, <1>3, <1>4, <2>1 DEF Inv, HandledInMemory, HandledOnDisk, Reset, storeVars, loopVars
<1>10. SavedFireBehind'
  BY <1>2 DEF Inv, SavedFireBehind, Reset, storeVars
<1>11. DurableBeforeDispatch'
  BY <1>1, <1>2, <1>3, <1>4 DEF Inv, DurableBeforeDispatch, Reset, storeVars
<1> QED
  BY <1>4, <1>5, <1>6, <1>7, <1>8, <1>9, <1>10, <1>11 DEF Inv

\* The outcome that is in memory reaches the row, unless the write fails.
LEMMA SettleKeeps ==
    ASSUME Inv, NEW id \in settling, PersistUpdate(id)
    PROVE  Inv'
<1>1. /\ TypeOK /\ id \in Ids /\ settling \subseteq Ids /\ runs[id].status \in Statuses
      /\ SavedTyped /\ DOMAIN saved \subseteq Ids /\ Ids' = Ids
      /\ faults \in 0 .. MaxFaults /\ MaxFaults \in Nat
  BY TypeParts, Numbers, Bounds DEF Inv, HeldTyped, TimeTyped, SavedTyped, PersistUpdate, Ids, RunRec
<1>2. settling' = settling \ {id} /\ UNCHANGED <<now, storeVars, loopVars, runs, kept, inFlight>>
  BY DEF PersistUpdate
<1>3. /\ SavedTyped' /\ DOMAIN saved' = DOMAIN saved
      /\ faults' \in 0 .. MaxFaults /\ (faults' = 0 => faults = 0)
      /\ faults' = 0 => \A i \in DOMAIN saved :
           saved'[i] = IF i = id THEN runs[id].status ELSE saved[i]
  <2>1. saved' = saved => SavedTyped'
    BY <1>1 DEF SavedTyped
  <2>2. CASE saved' = saved /\ faults' = faults + 1 /\ faults < MaxFaults
    BY <1>1, <2>1, <2>2
  <2>3. CASE id \notin DOMAIN saved /\ saved' = saved /\ faults' = faults
    BY <1>1, <2>1, <2>3
  <2>4. CASE id \in DOMAIN saved /\ SaveStatus(id, runs[id].status) /\ faults' = faults
    <3>1. PICK status \in Statuses : runs[id].status = status
      BY <1>1
    <3>2. /\ SavedTyped' /\ DOMAIN saved' = DOMAIN saved \cup {id} /\ saved'[id] = status
          /\ \A i \in DOMAIN saved : i # id => saved'[i] = saved[i]
      BY <1>1, <2>4, <3>1, SaveFacts
    <3> QED
      BY <1>1, <2>4, <3>1, <3>2
  <2> QED
    BY <2>2, <2>3, <2>4 DEF PersistUpdate, Try, SaveOutcome
<1>4. TypeOK'
  <2>1. TimeTyped' /\ HeldTyped'
    BY <1>1, <1>2, <1>3, TypeParts DEF TimeTyped, HeldTyped
  <2> QED
    BY <1>1, <1>2, <1>3, <2>1, TypeKept, TypePartsNext DEF storeVars, loopVars
<1>5. Aged' /\ CallsShaped' /\ Creating'
  BY <1>1, <1>2 DEF Inv, Aged, CallsShaped, Creating, Enrolling, Unborn, NeverRan, Reset, storeVars
<1>6. Custody'
  BY <1>1, <1>2 DEF Inv, Custody, Awaits, Dispatched, storeVars, loopVars
<1>7. HandledInMemory' /\ HandledOnDisk' /\ SavedFireBehind'
  BY <1>2, <1>3 DEF Inv, HandledInMemory, HandledOnDisk, SavedFireBehind, Reset, storeVars, loopVars
<1>8. RecordsMirrored'
  BY <1>2, <1>3 DEF Inv, RecordsMirrored
<1>9. DurableBeforeDispatch'
  BY <1>1, <1>2, <1>3 DEF Inv, DurableBeforeDispatch, Reset, storeVars
<1> QED
  BY <1>4, <1>5, <1>6, <1>7, <1>8, <1>9 DEF Inv

-----------------------------------------------------------------------------
(* A restart, and the theorems. *)

\* A sequence whose elements are rewritten one by one.
LEMMA Mapped ==
    ASSUME NEW S, NEW T, NEW q \in Seq(S), NEW g, g = [i \in 1 .. Len(q) |-> g[i]],
           \A i \in 1 .. Len(q) : g[i] \in T
    PROVE  g \in Seq(T) /\ Len(g) = Len(q) /\ DOMAIN g = 1 .. Len(q)
<1>1. Len(q) \in Nat /\ g \in [1 .. Len(q) -> T]
  OBVIOUS
<1> QED
  BY <1>1

\* Nothing is in hand after a restart, and memory is what was on disk.
LEMMA RestartKeeps ==
    ASSUME Inv, Restart
    PROVE  Inv'
<1>1. /\ TypeOK /\ StoreTyped /\ faults \in 0 .. MaxFaults /\ MaxFaults \in Nat
      /\ calls \in Seq(CallRec) /\ runs \in Seq(RunRec) /\ SavedTyped /\ Ids = 1 .. Len(runs)
      /\ faults < MaxFaults /\ faults' = faults + 1
      /\ phase' = "stopped" /\ ticks' = 0 /\ pending' = {} /\ batch' = {} /\ queue' = << >>
      /\ handling' = {} /\ inFlight' = {} /\ settling' = {} /\ store' = rows
      /\ UNCHANGED <<now, rows, created, saved>>
  BY TypeParts, Bounds DEF Inv, TimeTyped, CallsTyped, RunsTyped, Restart, Ids
<1>2. /\ calls' \in Seq(CallRec) /\ DOMAIN calls' = DOMAIN calls
      /\ \A k \in DOMAIN calls : calls'[k] = [calls[k] EXCEPT !.step = "done"]
  <2>1. \A c \in CallRec : [c EXCEPT !.step = "done"] \in CallRec
    BY DEF CallRec, Steps
  <2> HIDE DEF CallRec
  <2>2. DOMAIN calls = 1 .. Len(calls) /\ \A k \in 1 .. Len(calls) : calls[k] \in CallRec
    BY <1>1
  <2>3. calls' = [k \in 1 .. Len(calls) |-> [calls[k] EXCEPT !.step = "done"]]
    BY <2>2 DEF Restart
  <2>4. \A k \in 1 .. Len(calls) : calls'[k] \in CallRec
    BY <2>1, <2>2, <2>3
  <2> QED
    BY <1>1, <2>2, <2>3, <2>4, Mapped
<1>3. \A k \in DOMAIN calls : calls[k] \in CallRec
  <2> HIDE DEF CallRec
  <2> QED
    BY <1>1
<1>4. \A k \in DOMAIN calls' :
        /\ calls'[k].op = calls[k].op /\ calls'[k].schedule = calls[k].schedule
        /\ calls'[k].step = "done"
  BY <1>2, <1>3 DEF CallRec
<1>5. /\ RunsTyped' /\ Ids' = Ids
      /\ \A i \in Ids : runs'[i].schedule = runs[i].schedule /\ runs'[i].started = runs[i].started
  <2>1. PICK I \in SUBSET Ids : saved \in [I -> Statuses]
    BY <1>1 DEF SavedTyped
  <2>2. \A r \in RunRec, x \in Statuses :
          LET u == [r EXCEPT !.status = x] IN
          u \in RunRec /\ u.schedule = r.schedule /\ u.started = r.started
    BY DEF RunRec
  <2>3. \A i \in 1 .. Len(runs) : runs[i] \in RunRec
    <3> HIDE DEF RunRec
    <3> QED
      BY <1>1
  <2> HIDE DEF RunRec
  <2>4. runs' = [i \in 1 .. Len(runs) |-> IF i \in DOMAIN saved
                              THEN [runs[i] EXCEPT !.status = saved[i]] ELSE runs[i]]
    BY <1>1 DEF Restart
  <2>5. \A i \in 1 .. Len(runs) : /\ runs'[i] \in RunRec
          /\ runs'[i].schedule = runs[i].schedule /\ runs'[i].started = runs[i].started
    BY <2>1, <2>2, <2>3, <2>4
  <2>6. runs' \in Seq(RunRec) /\ Len(runs') = Len(runs)
    BY <1>1, <2>4, <2>5, Mapped
  <2> QED
    BY <1>1, <2>5, <2>6 DEF RunsTyped, Ids, RunRec
<1>6. TypeOK'
  <2>1. TimeTyped' /\ StoreTyped' /\ LoopTyped' /\ HandlingTyped' /\ SavedTyped'
    BY <1>1, <1>5, TypeParts DEF TimeTyped, StoreTyped, LoopTyped, HandlingTyped, SavedTyped
  <2>2. CallsTyped'
    BY <1>2, <1>5 DEF CallsTyped, CallRec
  <2>3. HeldTyped'
    <3>1. kept' \subseteq DOMAIN saved
      BY DEF Restart
    <3> QED
      BY <1>1, <1>5, <3>1 DEF HeldTyped, SavedTyped
  <2> QED
    BY <1>5, <2>1, <2>2, <2>3, TypePartsNext
<1>7. Aged'
  BY <1>1, <1>5 DEF Inv, Aged
<1>8. CallsShaped'
  BY <1>1, <1>2, <1>4 DEF Inv, CallsShaped
<1>9. Creating' /\ Custody'
  BY <1>1, <1>4 DEF Creating, Enrolling, Custody, Awaits
<1>10. HandledInMemory' /\ HandledOnDisk'
  BY <1>1 DEF HandledInMemory, HandledOnDisk
<1>11. SavedFireBehind'
  BY <1>1, EntriesAre, Bounds DEF SavedFireBehind, StoreTyped, EntryRec
<1>12. RecordsMirrored' /\ DurableBeforeDispatch'
  BY <1>1 DEF RecordsMirrored, DurableBeforeDispatch
<1> QED
  BY <1>6, <1>7, <1>8, <1>9, <1>10, <1>11, <1>12 DEF Inv

\* The invariant holds at the start, through every step and always.
LEMMA InvInit == Init => Inv
<1> SUFFICES ASSUME Init
             PROVE  Inv
  OBVIOUS
<1> USE DEF Init
<1>1. << >> \in Entries /\ DOMAIN << >> = {}
  <2>1. << >> \in [{} -> EntryRec]
    OBVIOUS
  <2> QED
    BY <2>1 DEF Entries, EntryRec
<1>2. Ids = {}
  BY DEF Ids
<1>3. TimeTyped /\ StoreTyped /\ LoopTyped /\ HandlingTyped /\ HeldTyped
  BY <1>1, Bounds DEF TimeTyped, StoreTyped, LoopTyped, HandlingTyped, HeldTyped
<1>4. CallsTyped /\ RunsTyped
  BY DEF CallsTyped, RunsTyped
<1>5. SavedTyped
  <2>1. << >> \in [{} -> Statuses]
    OBVIOUS
  <2> QED
    BY <2>1 DEF SavedTyped
<1>6. TypeOK
  BY <1>3, <1>4, <1>5, TypeParts
<1> QED
  BY <1>1, <1>2, <1>6 DEF Inv, Aged, CallsShaped, Creating, Enrolling, Custody, HandledInMemory,
     HandledOnDisk, SavedFireBehind, RecordsMirrored, DurableBeforeDispatch

\* One lemma per action.
LEMMA InvStep == Inv /\ [Next]_vars => Inv'
<1> SUFFICES ASSUME Inv, [Next]_vars
             PROVE  Inv'
  OBVIOUS
<1>1. CASE Clock \/ UNCHANGED vars
  BY <1>1, LoopStep
<1>2. CASE Manage
  BY <1>2, LoopStep, RestartKeeps, CreateKeeps, ChangeKeeps, TriggerKeeps DEF Manage
<1>3. CASE Continue
  BY <1>3, RowKeeps, StoreKeeps, ContinueTriggerKeeps DEF Continue
<1>4. CASE Loops
  BY <1>4, LoopStep, ReceiveKeeps, FireKeeps, RecordKeeps DEF Loops
<1>5. CASE Finish
  BY <1>5, CompleteKeeps, SettleKeeps, SchedulerAssumption DEF Finish
<1> QED
  BY <1>1, <1>2, <1>3, <1>4, <1>5 DEF Next

\* So it always holds.
LEMMA InvHolds == Spec => []Inv
BY InvInit, InvStep, PTL DEF Spec

\* Every variable stays in its type: no call names a record that was never made
\* and no row of the history is of an execution that never was.
THEOREM TypeCorrect == Spec => []TypeOK
<1>1. Inv => TypeOK
  BY DEF Inv
<1> QED
  BY InvHolds, <1>1, PTL

\* What a restart would read back trails what the process knows, through every
\* interleaving of the executor loop with creations, updates, removals, pauses
\* and the command line: rows never hold a later last_fire than memory does,
\* and without failed writes the history on disk is the one in memory.
THEOREM RowsTrailMemoryCorrect == Spec => []RowsTrailMemory
<1>1. Inv => RowsTrailMemory
  BY DEF Inv, RowsTrailMemory
<1> QED
  BY InvHolds, <1>1, PTL

\* A workflow runs only once its execution row and its schedule's last_fire are
\* on disk, unless a write failed or an update cleared the schedule meanwhile.
THEOREM DurableBeforeDispatchCorrect == Spec => []DurableBeforeDispatch
<1>1. Inv => DurableBeforeDispatch
  BY DEF Inv
<1> QED
  BY InvHolds, <1>1, PTL

-----------------------------------------------------------------------------
(* Memory and SQLite, when service calls follow one another.  Between calls *)
(* a schedule is in both or in neither and is paused in both or in neither; *)
(* while a call is open, the step it waits for says how they differ.        *)

Serial == MaxOpen <= 1 /\ ~OneShot

Steady(s) ==
    /\ s \in DOMAIN store <=> s \in DOMAIN rows
    /\ s \in DOMAIN store => store[s].enabled = rows[s].enabled

Waiting(op, step, s) ==
    /\ step = "row" /\ op = "update" => s \in DOMAIN store /\ s \in DOMAIN rows
    /\ step = "row" /\ op \in {"pause", "resume"} =>
         /\ s \in DOMAIN store /\ s \in DOMAIN rows
         /\ store[s].enabled = IF op = "resume" THEN TRUE ELSE FALSE
    /\ step = "row" /\ op = "trigger" => Steady(s)
    /\ step = "unregister" /\ op # "update" => s \notin DOMAIN rows
    /\ step = "register" \/ (step = "unregister" /\ op = "update") =>
         s \in DOMAIN rows /\ rows[s].enabled = TRUE

Mirror ==
    /\ \A k, l \in Open : k = l
    /\ faults = 0 =>
         /\ \A s \in created : (\A k \in Open : calls[k].schedule # s) => Steady(s)
         /\ \A k \in Open : Waiting(calls[k].op, calls[k].step, calls[k].schedule)

\* A step that writes the entries of one schedule.
OnlyOf(s) ==
    \A x : x # s => /\ x \in DOMAIN store' <=> x \in DOMAIN store
                    /\ x \in DOMAIN rows' <=> x \in DOMAIN rows
                    /\ x \in DOMAIN store => store'[x] = store[x]
                    /\ x \in DOMAIN rows => rows'[x] = rows[x]

\* A call is made only when no other is open.
LEMMA Alone ==
    ASSUME Inv, Serial, NEW op, NEW s, NEW run, NEW step, step # "done", Call(op, s, run, step)
    PROVE  Open = {}
<1>1. calls \in Seq(CallRec)
  BY TypeParts DEF Inv, CallsTyped
<1>2. Open \subseteq 1 .. Len(calls) /\ Len(calls) \in Nat
  <2> HIDE DEF CallRec
  <2> QED
    BY <1>1 DEF Open
<1>3. IsFiniteSet(Open)
  <2>1. IsFiniteSet(1 .. Len(calls))
    BY <1>2, FS_Interval
  <2> QED
    BY <1>2, <2>1, FS_Subset
<1>4. Cardinality(Open) < 1 /\ Cardinality(Open) \in Nat
  BY <1>3, FS_CardinalityType, SchedulerAssumption DEF Call, Serial
<1> QED
  BY <1>3, <1>4, FS_EmptySet

\* What a step beside the calls keeps: it changes last_fire at most.
LEMMA BesideKeeps ==
    ASSUME Mirror, UNCHANGED <<calls, created>>, faults' = 0 => faults = 0,
           DOMAIN store' = DOMAIN store, \A x \in DOMAIN store : store'[x].enabled = store[x].enabled,
           DOMAIN rows' = DOMAIN rows, \A x \in DOMAIN rows : rows'[x].enabled = rows[x].enabled
    PROVE  Mirror'
<1>1. Open' = Open
  BY DEF Open
<1>2. \A s : Steady(s) => Steady(s)'
  BY DEF Steady
<1>3. \A op, step, s : Waiting(op, step, s) => Waiting(op, step, s)'
  <2> SUFFICES ASSUME NEW op, NEW step, NEW s, Waiting(op, step, s)
               PROVE  Waiting(op, step, s)'
    OBVIOUS
  <2>1. Steady(s) => Steady(s)'
    BY <1>2
  <2> QED
    BY <2>1 DEF Waiting
<1> QED
  BY <1>1, <1>2, <1>3 DEF Mirror

\* A call that is made is then the only one that is open.
OnlyOpen(op, step, s) ==
    \E k : Open' = {k} /\ calls'[k].op = op /\ calls'[k].step = step /\ calls'[k].schedule = s

\* No other was open before.
LEMMA Made ==
    ASSUME Inv, Serial, NEW op \in Ops, NEW s \in Schedules, NEW run, NEW step \in Steps,
           step # "done", Call(op, s, run, step), run \in {0} \cup Ids', Ids \subseteq Ids'
    PROVE  Open = {} /\ OnlyOpen(op, step, s)
<1>1. Open = {}
  BY Alone
<1>2. TypeOK
  BY DEF Inv
<1> DEFINE n == Len(calls) + 1
<1>3. /\ DOMAIN calls' = DOMAIN calls \cup {n} /\ n \notin DOMAIN calls
      /\ calls'[n] = [op |-> op, schedule |-> s, run |-> run, step |-> step]
      /\ \A k \in DOMAIN calls : calls'[k] = calls[k]
  BY <1>2, CallFacts
<1> HIDE DEF n
<1>4. Open' = {n}
  BY <1>1, <1>3 DEF Open
<1> QED
  BY <1>1, <1>3, <1>4 DEF OnlyOpen

\* What such a call keeps.
LEMMA MadeKeeps ==
    ASSUME Mirror, Open = {}, NEW op, NEW s, NEW step, OnlyOpen(op, step, s), OnlyOf(s),
           faults' = faults, created' \subseteq created \cup {s}, faults = 0 => Waiting(op, step, s)'
    PROVE  Mirror'
<1>1. PICK k : Open' = {k} /\ calls'[k].op = op /\ calls'[k].step = step /\ calls'[k].schedule = s
  BY DEF OnlyOpen
<1>2. \A x \in created : faults = 0 => Steady(x)
  BY DEF Mirror
<1>3. ASSUME faults' = 0, NEW x \in created', x # s
      PROVE  Steady(x)'
  BY <1>2, <1>3 DEF Steady, OnlyOf
<1> QED
  BY <1>1, <1>3 DEF Mirror

\* What a call that goes on keeps, when it ends or waits for its next step.
LEMMA SteppedKeeps ==
    ASSUME Inv, Mirror, NEW k \in Open, NEW step \in Steps, NEW op, NEW s,
           calls[k].op = op, calls[k].schedule = s,
           calls' = [calls EXCEPT ![k].step = step], UNCHANGED <<created, runs>>,
           faults' = 0 => faults = 0,
           OnlyOf(s),
           faults' = 0 => IF step = "done" THEN Steady(s)' ELSE Waiting(op, step, s)'
    PROVE  Mirror'
<1>1. TypeOK /\ k \in DOMAIN calls /\ Ids' = Ids
  BY DEF Inv, Open, Ids
<1>2. calls[k] \in CallRec
  <2> HIDE DEF CallRec
  <2> QED
    BY <1>1, TypeParts DEF CallsTyped
<1>3. /\ DOMAIN calls' = DOMAIN calls
      /\ calls'[k] = [calls[k] EXCEPT !.step = step]
      /\ \A l \in DOMAIN calls \ {k} : calls'[l] = calls[l]
  BY <1>1, StepFacts
<1>4. calls'[k].op = op /\ calls'[k].schedule = s /\ calls'[k].step = step
  BY <1>2, <1>3 DEF CallRec
<1>5. \A l \in Open' : l = k
  BY <1>3 DEF Open, Mirror
<1>6. step = "done" => Open' = {}
  BY <1>4, <1>5 DEF Open
<1>7. step # "done" => k \in Open'
  BY <1>1, <1>3, <1>4 DEF Open
<1>8. ASSUME faults' = 0, NEW x \in created', x # s
      PROVE  Steady(x)'
  <2>1. Steady(x)
    BY <1>8 DEF Mirror
  <2> QED
    BY <1>8, <2>1 DEF Steady, OnlyOf
<1> QED
  BY <1>4, <1>5, <1>6, <1>7, <1>8 DEF Mirror

\* The calls that are made.
LEMMA MirrorMade ==
    ASSUME Inv, Serial, Mirror, NEW s \in Schedules,
           Create(s) \/ Update(s) \/ Delete(s) \/ TriggerNow(s) \/ \E on \in BOOLEAN : SetEnabled(s, on)
    PROVE  Mirror'
<1>1. TypeOK /\ store \in Entries /\ rows \in Entries /\ DOMAIN store \subseteq created
  BY TypeParts DEF Inv, StoreTyped
<1>2. Open = {} => (faults = 0 => \A x \in created : Steady(x))
  BY DEF Mirror
<1>3. ASSUME NEW op \in Ops, NEW step \in Steps, step # "done", Call(op, s, 0, step), runs' = runs
      PROVE  Open = {} /\ OnlyOpen(op, step, s)
  <2>1. 0 \in {0} \cup Ids' /\ Ids \subseteq Ids'
    BY <1>3 DEF Ids
  <2> QED
    BY <1>3, <2>1, Made
<1>4. CASE Create(s)
  <2>1. Open = {} /\ OnlyOpen("create", "register", s)
    BY <1>3, <1>4 DEF Create, Ops, Steps, runVars
  <2>2. Fresh \in EntryRec /\ Fresh.enabled = TRUE
    BY Bounds DEF Fresh, EntryRec
  <2>3. rows' = Put(rows, s, Fresh)
    BY <1>4 DEF Create
  <2>4. OnlyOf(s) /\ s \in DOMAIN rows' /\ rows'[s].enabled = TRUE
    <3>1. /\ DOMAIN Put(rows, s, Fresh) = DOMAIN rows \cup {s}
          /\ \A x \in DOMAIN rows \cup {s} : Put(rows, s, Fresh)[x] = IF x = s THEN Fresh ELSE rows[x]
      <4>1. IsPut(Put(rows, s, Fresh), rows, s, Fresh)
        BY <1>1, <2>2, EntriesPut
      <4> QED
        BY <4>1 DEF IsPut
    <3> QED
      BY <1>4, <2>2, <2>3, <3>1 DEF OnlyOf, Create
  <2>5. Waiting("create", "register", s)'
    BY <2>4 DEF Waiting
  <2> QED
    BY <1>4, <2>1, <2>4, <2>5, MadeKeeps DEF Create
<1>5. CASE Update(s)
  <2>1. Open = {} /\ OnlyOpen("update", "row", s)
    BY <1>3, <1>5 DEF Update, Ops, Steps, runVars
  <2>2. faults = 0 => Waiting("update", "row", s)'
    BY <1>1, <1>2, <1>5, <2>1 DEF Update, Waiting, Steady
  <2>3. OnlyOf(s)
    BY <1>5 DEF OnlyOf, Update
  <2> QED
    BY <1>5, <2>1, <2>2, <2>3, MadeKeeps DEF Update
<1>6. CASE Delete(s)
  <2>1. Open = {} /\ OnlyOpen("delete", "unregister", s)
    BY <1>3, <1>6 DEF Delete, Ops, Steps, runVars
  <2>2. /\ DOMAIN rows' = DOMAIN rows \ {s}
        /\ \A x \in DOMAIN rows \ {s} : rows'[x] = rows[x]
    BY <1>1, <1>6, EntriesDrop DEF Delete
  <2>3. Waiting("delete", "unregister", s)' /\ OnlyOf(s)
    BY <1>6, <2>2 DEF Waiting, OnlyOf, Delete
  <2> QED
    BY <1>6, <2>1, <2>3, MadeKeeps DEF Delete
<1>7. CASE TriggerNow(s)
  <2> DEFINE n == Len(runs) + 1
  <2>1. /\ Record(s, now, TRUE) /\ Call("trigger", s, n, "row")
        /\ UNCHANGED <<store, rows, created, faults>> /\ s \in created
    BY <1>1, <1>7 DEF TriggerNow
  <2>2. Ids' = Ids \cup {n}
    BY <1>1, <2>1, RecordFacts, Numbers
  <2> HIDE DEF n
  <2>3. Open = {} /\ OnlyOpen("trigger", "row", s)
    BY <2>1, <2>2, Made DEF Ops, Steps
  <2>4. (faults = 0 => Waiting("trigger", "row", s)') /\ OnlyOf(s)
    BY <1>2, <2>1, <2>3 DEF Waiting, Steady, OnlyOf
  <2> QED
    BY <2>1, <2>3, <2>4, MadeKeeps
<1>8. ASSUME NEW on \in BOOLEAN, SetEnabled(s, on)
      PROVE  Mirror'
  <2> DEFINE op == IF on THEN "resume" ELSE "pause"
  <2>1. Open = {} /\ OnlyOpen(op, "row", s)
    BY <1>3, <1>8 DEF SetEnabled, Ops, Steps, runVars
  <2>2. /\ DOMAIN store' = DOMAIN store /\ store'[s].enabled = on
        /\ \A x \in DOMAIN store : x # s => store'[x] = store[x]
    BY <1>1, <1>8, EntriesAre DEF SetEnabled, EntryRec
  <2>3. OnlyOf(s) /\ UNCHANGED <<rows, created, faults>> /\ s \in DOMAIN store
    BY <1>8, <2>2 DEF OnlyOf, SetEnabled
  <2>4. faults = 0 => s \in DOMAIN rows
    BY <1>1, <1>2, <2>1, <2>3 DEF Steady
  <2>5. faults = 0 => Waiting(op, "row", s)'
    BY <2>2, <2>3, <2>4 DEF Waiting
  <2> QED
    BY <2>1, <2>3, <2>5, MadeKeeps
<1> QED
  BY <1>4, <1>5, <1>6, <1>7, <1>8

\* The calls that go on: a failed write ends the claim.
LEMMA MirrorStepped ==
    ASSUME Inv, Mirror, NEW k \in DOMAIN calls, ContinueRow(k) \/ ContinueStore(k) \/ ContinueTrigger(k)
    PROVE  Mirror'
<1>1. /\ TypeOK /\ store \in Entries /\ rows \in Entries
      /\ faults \in 0 .. MaxFaults /\ MaxFaults \in Nat
  BY TypeParts, Bounds DEF Inv, StoreTyped, TimeTyped
<1>2. calls[k] \in CallRec
  <2> HIDE DEF CallRec
  <2> QED
    BY <1>1, TypeParts DEF CallsTyped
<1>3. PICK op \in Ops, step \in Steps, s \in Schedules :
        calls[k].op = op /\ calls[k].step = step /\ calls[k].schedule = s
  BY <1>2 DEF CallRec
<1>4. k \in Open
  BY DEF Open, ContinueRow, ContinueStore, ContinueTrigger
<1>5. faults = 0 => Waiting(op, step, s)
  BY <1>3, <1>4 DEF Mirror
<1>6. Fresh \in EntryRec /\ Fresh.enabled = TRUE
  BY Bounds DEF Fresh, EntryRec
<1>7. CASE ContinueRow(k)
  <2>1. step = "row" /\ op # "trigger" /\ UNCHANGED <<created, runs, store>>
    BY <1>3, <1>7 DEF ContinueRow, runVars
  <2>2. CASE faults' = faults + 1 /\ rows' = rows /\ calls' = [calls EXCEPT ![k].step = "done"]
    <3>1. OnlyOf(s) /\ faults' # 0
      BY <1>1, <2>1, <2>2 DEF OnlyOf
    <3> QED
      BY <1>3, <1>4, <2>1, <2>2, <3>1, SteppedKeeps DEF Steps
  <2>3. CASE /\ op = "update" /\ SetRow(s, Fresh) /\ faults' = faults
             /\ calls' = [calls EXCEPT ![k].step = "unregister"]
    <3>1. CASE s \in DOMAIN rows
      <4>1. rows' = Put(rows, s, Fresh)
        BY <2>3, <3>1 DEF SetRow
      <4>2. /\ DOMAIN Put(rows, s, Fresh) = DOMAIN rows \cup {s}
            /\ \A x \in DOMAIN rows \cup {s} : Put(rows, s, Fresh)[x] = IF x = s THEN Fresh ELSE rows[x]
        <5>1. IsPut(Put(rows, s, Fresh), rows, s, Fresh)
          BY <1>1, <1>6, EntriesPut
        <5> QED
          BY <5>1 DEF IsPut
      <4>3. OnlyOf(s) /\ Waiting(op, "unregister", s)'
        BY <1>6, <2>1, <2>3, <3>1, <4>1, <4>2 DEF OnlyOf, Waiting
      <4> QED
        BY <1>3, <1>4, <2>1, <2>3, <4>3, SteppedKeeps DEF Steps
    <3>2. CASE s \notin DOMAIN rows
      <4>1. rows' = rows /\ faults # 0
        BY <1>5, <2>1, <2>3, <3>2 DEF SetRow, Waiting
      <4>2. OnlyOf(s)
        BY <2>1, <4>1 DEF OnlyOf
      <4> QED
        BY <1>3, <1>4, <2>1, <2>3, <4>1, <4>2, SteppedKeeps DEF Steps
    <3> QED
      BY <3>1, <3>2
  <2>4. CASE /\ op \in {"pause", "resume"} /\ SetRowEnabled(s, op = "resume") /\ faults' = faults
             /\ calls' = [calls EXCEPT ![k].step = "done"]
    <3>1. /\ DOMAIN rows' = DOMAIN rows
          /\ \A x \in DOMAIN rows : x # s => rows'[x] = rows[x]
          /\ s \in DOMAIN rows => rows'[s].enabled = (op = "resume")
      BY <1>1, <2>4, EntriesAre DEF SetRowEnabled, EntryRec
    <3>2. OnlyOf(s)
      BY <2>1, <3>1 DEF OnlyOf
    <3>3. faults = 0 => Steady(s)'
      BY <1>5, <2>1, <2>4, <3>1 DEF Waiting, Steady
    <3> QED
      BY <1>3, <1>4, <2>1, <2>4, <3>2, <3>3, SteppedKeeps DEF Steps
  <2> QED
    BY <1>3, <1>7, <2>1, <2>2, <2>3, <2>4 DEF ContinueRow, WriteRow
<1>8. CASE ContinueStore(k)
  <2>1. UNCHANGED <<created, runs, rows, faults>>
    BY <1>8 DEF ContinueStore, runVars
  <2>2. CASE step = "unregister"
    <3>1. /\ store' = Drop(store, s)
          /\ calls' = [calls EXCEPT ![k].step = IF op = "update" THEN "register" ELSE "done"]
      BY <1>3, <1>8, <2>2 DEF ContinueStore
    <3>2. /\ DOMAIN store' = DOMAIN store \ {s}
          /\ \A x \in DOMAIN store \ {s} : store'[x] = store[x]
      BY <1>1, <3>1, EntriesDrop
    <3>3. OnlyOf(s)
      BY <2>1, <3>2 DEF OnlyOf
    <3>4. CASE op = "update"
      <4>1. faults' = 0 => Waiting(op, "register", s)'
        BY <1>5, <2>1, <2>2, <3>4 DEF Waiting
      <4> QED
        BY <1>3, <1>4, <2>1, <3>1, <3>3, <3>4, <4>1, SteppedKeeps DEF Steps
    <3>5. CASE op # "update"
      <4>1. faults' = 0 => Steady(s)'
        BY <1>5, <2>1, <2>2, <3>2, <3>5 DEF Waiting, Steady
      <4> QED
        BY <1>3, <1>4, <2>1, <3>1, <3>3, <3>5, <4>1, SteppedKeeps DEF Steps
    <3> QED
      BY <3>4, <3>5
  <2>3. CASE step = "register"
    <3>1. store' = Put(store, s, Fresh) /\ calls' = [calls EXCEPT ![k].step = "done"]
      BY <1>3, <1>8, <2>3 DEF ContinueStore
    <3>2. /\ DOMAIN Put(store, s, Fresh) = DOMAIN store \cup {s}
          /\ \A x \in DOMAIN store \cup {s} : Put(store, s, Fresh)[x] = IF x = s THEN Fresh ELSE store[x]
      <4>1. IsPut(Put(store, s, Fresh), store, s, Fresh)
        BY <1>1, <1>6, EntriesPut
      <4> QED
        BY <4>1 DEF IsPut
    <3>3. OnlyOf(s)
      BY <2>1, <3>1, <3>2 DEF OnlyOf
    <3>4. faults' = 0 => Steady(s)'
      BY <1>5, <1>6, <2>1, <2>3, <3>1, <3>2 DEF Waiting, Steady
    <3> QED
      BY <1>3, <1>4, <2>1, <3>1, <3>3, <3>4, SteppedKeeps DEF Steps
  <2> QED
    BY <1>3, <1>8, <2>2, <2>3 DEF ContinueStore
<1>9. CASE ContinueTrigger(k)
  <2>1. /\ UNCHANGED <<created, runs, store, rows>> /\ calls' = [calls EXCEPT ![k].step = "done"]
        /\ faults' \in {faults, faults + 1} /\ op = "trigger" /\ step = "row"
    BY <1>3, <1>9 DEF ContinueTrigger, SaveRecord, Try
  <2>2. OnlyOf(s) /\ (faults' = 0 => faults = 0)
    BY <1>1, <2>1 DEF OnlyOf
  <2>3. faults' = 0 => Steady(s)'
    BY <1>5, <2>1, <2>2 DEF Waiting, Steady
  <2> QED
    BY <1>3, <1>4, <2>1, <2>2, <2>3, SteppedKeeps DEF Steps
<1> QED
  BY <1>7, <1>8, <1>9

\* The loops and the dispatches write last_fire and the history only.
LEMMA MirrorBeside ==
    ASSUME Inv, Mirror,
           Receive \/ PersistLastFire \/ PersistRecord \/ StartCall \/ SendRecovered \/ StartReturn
             \/ Evaluate \/ SendFired \/ Stop \/ Clock \/ Finish \/ UNCHANGED vars
    PROVE  Mirror'
<1>1. /\ TypeOK /\ store \in Entries /\ rows \in Entries
      /\ faults \in 0 .. MaxFaults /\ MaxFaults \in Nat
  BY TypeParts, Bounds DEF Inv, StoreTyped, TimeTyped
<1>2. CASE Receive
  <2>1. UNCHANGED <<calls, created, rows, faults>>
    BY <1>2 DEF Receive
  <2>2. \/ store' = store
        \/ \E s \in DOMAIN store : store' = [store EXCEPT ![s].last = now]
    BY <1>2 DEF Receive, UpdateLastFire
  <2>3. /\ DOMAIN store' = DOMAIN store
        /\ \A x \in DOMAIN store : store'[x].enabled = store[x].enabled
    BY <1>1, <2>2, EntriesAre DEF EntryRec
  <2> QED
    BY <2>1, <2>3, BesideKeeps
<1>3. CASE PersistLastFire
  <2>1. UNCHANGED <<calls, created, store>>
    BY <1>3 DEF PersistLastFire
  <2>2. PICK s, at : \/ SaveLastFire(s, at) /\ faults' = faults
                     \/ rows' = rows /\ faults' = faults + 1
    BY <1>3 DEF PersistLastFire, Try
  <2>3. /\ DOMAIN rows' = DOMAIN rows
        /\ \A x \in DOMAIN rows : rows'[x].enabled = rows[x].enabled
    BY <1>1, <2>2, EntriesAre DEF SaveLastFire, EntryRec
  <2> QED
    BY <1>1, <2>1, <2>2, <2>3, BesideKeeps
<1>4. CASE PersistRecord
  <2>1. UNCHANGED <<calls, created, store, rows>> /\ faults' \in {faults, faults + 1}
    BY <1>4 DEF PersistRecord, storeVars, SaveRecord, Try
  <2> QED
    BY <1>1, <2>1, BesideKeeps
<1>5. CASE Finish
  <2>1. UNCHANGED <<calls, created, store, rows>> /\ faults' \in {faults, faults + 1}
    BY <1>5 DEF Finish, Complete, SaveOutcome, PersistUpdate, storeVars, Try
  <2> QED
    BY <1>1, <2>1, BesideKeeps
<1>6. CASE StartCall \/ SendRecovered \/ StartReturn \/ Evaluate \/ SendFired \/ Stop \/ Clock
             \/ UNCHANGED vars
  <2>1. UNCHANGED <<calls, created, store, rows, faults>>
    BY <1>6 DEF StartCall, SendRecovered, StartReturn, Evaluate, SendFired, Stop, Clock, vars, storeVars
  <2> QED
    BY <2>1, BesideKeeps
<1> QED
  BY <1>2, <1>3, <1>4, <1>5, <1>6

\* A restart counts as a fault.
LEMMA MirrorRestart ==
    ASSUME Inv, Restart
    PROVE  Mirror'
<1>1. faults' # 0
  BY TypeParts, Bounds DEF Inv, TimeTyped, Restart
<1>2. \A k \in DOMAIN calls : calls[k] \in CallRec
  <2> HIDE DEF CallRec
  <2> QED
    BY TypeParts DEF Inv, CallsTyped
<1>3. calls' = [k \in DOMAIN calls |-> [calls[k] EXCEPT !.step = "done"]]
  BY DEF Restart
<1>4. Open' = {}
  BY <1>2, <1>3 DEF Open, CallRec
<1> QED
  BY <1>1, <1>4 DEF Mirror

\* One lemma per kind of step.
LEMMA MirrorStep == Serial /\ Inv /\ Mirror /\ [Next]_vars => Mirror'
<1> SUFFICES ASSUME Serial, Inv, Mirror, [Next]_vars
             PROVE  Mirror'
  OBVIOUS
<1>1. CASE Clock \/ UNCHANGED vars
  BY <1>1, MirrorBeside
<1>2. CASE Manage
  BY <1>2, MirrorBeside, MirrorRestart, MirrorMade DEF Manage, Serial, CreateElsewhere, ChangeElsewhere
<1>3. CASE Continue
  BY <1>3, MirrorStepped DEF Continue
<1>4. CASE Loops
  BY <1>4, MirrorBeside DEF Loops
<1>5. CASE Finish
  BY <1>5, MirrorBeside
<1> QED
  BY <1>1, <1>2, <1>3, <1>4, <1>5 DEF Next

\* When service calls follow one another and no other process writes, memory
\* and SQLite agree between calls on which schedules exist and which are
\* paused, whatever the loops write to both meanwhile.
THEOREM StoreMirrorsRowsCorrect ==
    ASSUME Serial
    PROVE  Spec => []StoreMirrorsRows
<1>1. Init => Mirror
  BY DEF Init, Mirror, Open
<1>2. Inv /\ Mirror => StoreMirrorsRows
  BY DEF Mirror, Steady, StoreMirrorsRows
<1>3. Inv /\ Mirror /\ [Next]_vars => Mirror'
  BY MirrorStep
<1> QED
  BY InvInit, InvStep, <1>1, <1>2, <1>3, PTL DEF Spec


------------------------------------------------------------------------------
(* The replay of a repeating schedule, as arithmetic.                       *)

\* Division with a rest.
LEMMA Division ==
    ASSUME NEW a \in Nat, NEW p \in Nat, p > 0
    PROVE  /\ a \div p \in Nat /\ a % p \in 0 .. p - 1
           /\ a = p * (a \div p) + (a % p)
OBVIOUS

\* Periods add up in the order of their number.
LEMMA Periods ==
    ASSUME NEW i \in Nat, NEW k \in Nat, NEW p \in Nat, p > 0
    PROVE  /\ i * p \in Nat /\ p * i = i * p
           /\ i <= k => i * p <= k * p
           /\ i < k => i * p + p <= k * p
           /\ i * p = k * p => i = k
<1>1. i * p \in Nat /\ p * i = i * p /\ k * p \in Nat
  OBVIOUS
<1>2. i <= k => i * p <= k * p
  OBVIOUS
<1>3. i < k => i * p + p <= k * p
  OBVIOUS
<1>4. k < i => k * p + p <= i * p
  OBVIOUS
<1> QED
  BY <1>1, <1>2, <1>3, <1>4

\* What is divided without a rest, and how many periods fit.
LEMMA Multiples ==
    ASSUME NEW a \in Nat, NEW p \in Nat, p > 0
    PROVE  /\ a % p = 0 => a = (a \div p) * p
           /\ \A i \in Nat : (i * p) % p = 0
           /\ \A i \in Nat : i * p <= a <=> i <= a \div p
<1>1. PICK q \in Nat, r \in 0 .. p - 1 : q = a \div p /\ r = a % p /\ a = p * q + r
  BY Division
<1>2. p * q = q * p /\ q * p \in Nat
  BY Periods
<1>3. ASSUME NEW i \in Nat PROVE (i * p) % p = 0
  <2>1. i * p \in Nat
    BY Periods
  <2>2. PICK m \in Nat, s \in 0 .. p - 1 : s = (i * p) % p /\ i * p = p * m + s
    BY <2>1, Division
  <2>3. p * m = m * p /\ m * p \in Nat
    BY Periods
  <2>4. ~(m < i)
    <3>1. m < i => m * p + p <= i * p
      BY Periods
    <3> QED
      BY <2>1, <2>2, <2>3, <3>1
  <2>5. ~(i < m)
    <3>1. i < m => i * p + p <= m * p
      BY Periods
    <3> QED
      BY <2>1, <2>2, <2>3, <3>1
  <2>6. i = m
    BY <2>4, <2>5
  <2> QED
    BY <2>1, <2>2, <2>3, <2>6
<1>4. ASSUME NEW i \in Nat PROVE i * p <= a <=> i <= q
  <2>1. i * p \in Nat
    BY Periods
  <2>2. i <= q => i * p <= q * p
    BY Periods
  <2>3. q < i => q * p + p <= i * p
    BY Periods
  <2> QED
    BY <1>1, <1>2, <2>1, <2>2, <2>3
<1> QED
  BY <1>1, <1>2, <1>3, <1>4

\* The occurrences after L and until N of a schedule of period P, and those a
\* replay sends of them: none when at most a period has passed.
PeriodsOf(L, P, N, cap) == IF (N - L) \div P < cap THEN (N - L) \div P ELSE cap
MissedOf(L, P, N) == {t \in 0 .. N : t > L /\ (t - L) % P = 0}
SentOf(L, P, N, cap) ==
    IF N - L <= P THEN {} ELSE {t \in 0 .. N : t \in {L + i * P : i \in 1 .. PeriodsOf(L, P, N, cap)}}

\* A replay sends the missed occurrences in order, as far as the cap allows, but
\* for one that falls due at N itself.
LEMMA ReplayExact ==
    ASSUME NEW L \in Nat, NEW P \in Nat, P > 0, NEW N \in Nat, L <= N, NEW cap \in Nat
    PROVE  /\ SentOf(L, P, N, cap) \subseteq MissedOf(L, P, N)
           /\ \A t \in MissedOf(L, P, N) \ {N} :
                 t \in SentOf(L, P, N, cap) \/ Cardinality(SentOf(L, P, N, cap)) = cap
           /\ \A t \in SentOf(L, P, N, cap), u \in MissedOf(L, P, N) \ SentOf(L, P, N, cap) : t < u
<1>1. PICK m, sent, between : /\ m = PeriodsOf(L, P, N, cap) /\ sent = SentOf(L, P, N, cap)
                              /\ between = MissedOf(L, P, N)
  OBVIOUS
<1>2. m = IF (N - L) \div P < cap THEN (N - L) \div P ELSE cap
  BY <1>1 DEF PeriodsOf
<1>3. sent = IF N - L <= P THEN {} ELSE {t \in 0 .. N : t \in {L + i * P : i \in 1 .. m}}
  BY <1>1 DEF SentOf
<1>4. between = {t \in 0 .. N : t > L /\ (t - L) % P = 0}
  BY <1>1 DEF MissedOf
<1> SUFFICES /\ sent \subseteq between
             /\ \A t \in between \ {N} : t \in sent \/ Cardinality(sent) = cap
             /\ \A t \in sent, u \in between \ sent : t < u
  BY <1>1
<1> USE <1>2, <1>3, <1>4
<1>5. PICK a \in Nat : a = N - L /\ N = L + a
  OBVIOUS
<1>6. PICK q \in Nat : q = a \div P
  BY Division
<1>7. /\ \A i \in Nat : (i * P) % P = 0 /\ i * P \in Nat
      /\ \A i \in Nat : i * P <= a <=> i <= q
  BY <1>6, Multiples, Periods
<1>8. ASSUME NEW t \in between
      PROVE  \E k \in 1 .. q : t = L + k * P
  <2>1. PICK d \in Nat : d = t - L /\ t = L + d /\ d > 0 /\ d % P = 0 /\ d <= a
    BY <1>5
  <2>2. PICK k \in Nat : k = d \div P /\ d = k * P
    BY <2>1, Division, Multiples
  <2>3. k # 0 /\ k <= q
    BY <1>7, <2>1, <2>2
  <2>4. k \in 1 .. q /\ t = L + k * P
    BY <2>1, <2>2, <2>3
  <2> QED
    BY <2>4
<1>9. CASE a <= P
  <2>1. sent = {}
    BY <1>5, <1>9
  <2>2. ASSUME NEW t \in between PROVE t = N
    <3>1. PICK k \in 1 .. q : t = L + k * P
      BY <1>8
    <3>2. 1 * P <= k * P /\ 1 * P = P /\ k * P \in Nat
      BY <3>1, Periods
    <3>3. t \in 0 .. N
      OBVIOUS
    <3> QED
      BY <1>5, <1>9, <3>1, <3>2, <3>3
  <2> QED
    BY <2>1, <2>2
<1>10. CASE ~(a <= P)
  <2>1. m \in Nat /\ m <= q /\ (m = q \/ m = cap)
    BY <1>5, <1>6
  <2>2. sent = {L + i * P : i \in 1 .. m}
    <3>1. \A i \in 1 .. m : L + i * P \in 0 .. N
      BY <1>5, <1>7, <2>1
    <3> QED
      BY <1>5, <1>10, <3>1
  <2>3. sent \subseteq between
    <3>1. ASSUME NEW i \in 1 .. m PROVE L + i * P \in between
      <4>1. i * P \in Nat /\ (i * P) % P = 0 /\ i * P <= a
        BY <1>7, <2>1
      <4>2. i * P > 0
        <5>1. 1 * P <= i * P /\ 1 * P = P
          BY Periods
        <5> QED
          BY <4>1, <5>1
      <4>3. PICK t \in 0 .. N : t = L + i * P /\ t > L /\ t - L = i * P
        BY <1>5, <4>1, <4>2
      <4> QED
        BY <4>1, <4>3
    <3> QED
      BY <2>2, <3>1
  <2>4. Cardinality(sent) = m
    <3>1. PICK f : f = [i \in 1 .. m |-> L + i * P]
      OBVIOUS
    <3>2. \A i \in 1 .. m : f[i] \in sent
      BY <2>2, <3>1
    <3>3. f \in Bijection(1 .. m, sent)
      <4>1. f \in [1 .. m -> sent]
        BY <3>1, <3>2
      <4>2. \A x \in sent : \E i \in 1 .. m : f[i] = x
        BY <2>2, <3>1
      <4>3. ASSUME NEW i \in 1 .. m, NEW j \in 1 .. m, f[i] = f[j] PROVE i = j
        <5>1. L + i * P = L + j * P
          BY <3>1, <4>3
        <5>2. i * P = j * P
          BY <1>7, <5>1
        <5> QED
          BY <5>2, Periods
      <4> QED
        BY <4>1, <4>2, <4>3 DEF Bijection, Injection, Surjection, IsInjective
    <3> QED
      BY <2>1, <3>3, FS_CountingElements DEF ExistsBijection
  <2>5. ASSUME NEW t \in between PROVE t \in sent \/ m = cap
    <3>1. PICK k \in 1 .. q : t = L + k * P
      BY <1>8
    <3> QED
      BY <2>1, <2>2, <3>1
  <2>6. ASSUME NEW t \in sent, NEW u \in between \ sent PROVE t < u
    <3>1. PICK k \in 1 .. q : u = L + k * P
      BY <1>8
    <3>2. PICK i \in 1 .. m : t = L + i * P
      BY <2>2
    <3>3. k \notin 1 .. m
      BY <2>2, <3>1
    <3>4. i < k
      BY <2>1, <3>1, <3>2, <3>3
    <3>5. i * P + P <= k * P
      BY <3>4, Periods
    <3> QED
      BY <1>7, <3>1, <3>2, <3>5
  <2> QED
    BY <2>3, <2>4, <2>5, <2>6
<1> QED
  BY <1>9, <1>10

\* What recovery sends for one schedule.
LEMMA SentBy ==
    ASSUME NEW s \in Enabled
    PROVE  {t.at : t \in {u \in RecoverMissed : u.schedule = s}} = {t \in 0 .. now : t \in RecoverOne(s)}
<1>1. ASSUME NEW x \in 0 .. now, x \in RecoverOne(s)
      PROVE  x \in {t.at : t \in {u \in RecoverMissed : u.schedule = s}}
  <2>1. PICK t \in [schedule : Enabled, at : 0 .. now] : t = [schedule |-> s, at |-> x]
    OBVIOUS
  <2>2. t \in RecoverMissed /\ t.schedule = s /\ t.at = x
    BY <1>1, <2>1 DEF RecoverMissed
  <2> QED
    BY <2>2
<1>2. ASSUME NEW t \in RecoverMissed, t.schedule = s
      PROVE  t.at \in {x \in 0 .. now : x \in RecoverOne(s)}
  BY <1>2 DEF RecoverMissed
<1> QED
  BY <1>1, <1>2

\* A start that recovers an interval schedule under the backfill policy sends
\* each occurrence after its last fire and before now, in order, as far as the
\* cap allows, and no other.
THEOREM BackfillCorrect == Spec => BackfillExact
<1> DEFINE Exact(s) == LET sent == {t.at : t \in {u \in pending' : u.schedule = s}} IN
          /\ sent \subseteq Between(s)
          /\ \A t \in Between(s) \ {now} : t \in sent \/ Cardinality(sent) = BackfillCap
          /\ \A t \in sent, u \in Between(s) \ sent : t < u
<1>1. ASSUME Inv, [Next]_vars, phase = "stopped", phase' = "starting", NEW s \in Enabled,
             Kind[s] = "interval", Missed[s] = "backfill", store[s].last # Never
      PROVE  Exact(s)
  <2>1. pending' = RecoverMissed
    <3>1. CASE StartCall
      BY <3>1 DEF StartCall
    <3>2. CASE ~StartCall
      <4>1. Next
        BY <1>1 DEF vars
      <4>2. ASSUME Clock \/ Stop \/ Restart \/ Loops PROVE FALSE
        BY <1>1, <4>2 DEF Clock, Stop, Restart, Loops, SendRecovered, StartReturn, Evaluate,
           SendFired, Receive, PersistLastFire, PersistRecord
      <4>3. ASSUME Continue \/ Finish PROVE FALSE
        BY <1>1, <4>3 DEF Continue, Finish, ContinueRow, ContinueStore, ContinueTrigger, Complete, PersistUpdate, SaveOutcome,
           loopVars
      <4>4. ASSUME Manage PROVE FALSE
        BY <1>1, <3>2, <4>2, <4>4 DEF Manage, Create, Update, Delete, TriggerNow, CreateElsewhere,
           ChangeElsewhere, SetEnabled, loopVars
      <4> QED
        BY <4>1, <4>2, <4>3, <4>4 DEF Next
    <3> QED
      BY <3>1, <3>2
  <2>2. PICK sent : /\ sent = {t.at : t \in {u \in pending' : u.schedule = s}}
                    /\ sent = {t \in 0 .. now : t \in RecoverOne(s)}
    BY <2>1, SentBy
  <2>3. PICK L \in Nat, P \in Nat, N \in Nat :
          L = store[s].last /\ P = Param[s] /\ N = now /\ P > 0 /\ L <= N
    <3>1. s \in DOMAIN store /\ TypeOK /\ Aged
      BY <1>1 DEF Enabled, Inv
    <3> QED
      BY <1>1, <3>1, Numbers, SchedulerAssumption DEF Aged, Never
  <2>4. PICK cap \in Nat : cap = BackfillCap
    BY SchedulerAssumption
  <2>5. RecoverOne(s) = IF N - L <= P THEN {} ELSE {L + i * P : i \in 1 .. PeriodsOf(L, P, N, cap)}
    BY <1>1, <2>3, <2>4 DEF RecoverOne, Occurrence, Replayed, MissedCount, PeriodsOf
  <2>6. sent = SentOf(L, P, N, cap)
    BY <2>2, <2>3, <2>5 DEF SentOf
  <2>7. Between(s) = MissedOf(L, P, N)
    BY <2>3 DEF Between, MissedOf
  <2>8. /\ SentOf(L, P, N, cap) \subseteq MissedOf(L, P, N)
        /\ \A t \in MissedOf(L, P, N) \ {N} :
              t \in SentOf(L, P, N, cap) \/ Cardinality(SentOf(L, P, N, cap)) = cap
        /\ \A t \in SentOf(L, P, N, cap), u \in MissedOf(L, P, N) \ SentOf(L, P, N, cap) : t < u
    BY <2>3, ReplayExact
  <2> QED
    BY <2>2, <2>3, <2>4, <2>6, <2>7, <2>8
<1>2. Inv /\ [Next]_vars => [phase = "stopped" /\ phase' = "starting" =>
        \A s \in {e \in Enabled : /\ Kind[e] = "interval" /\ Missed[e] = "backfill"
                                  /\ store[e].last # Never} : Exact(s)]_vars
  BY <1>1
<1> QED
  BY <1>2, InvHolds, PTL DEF Spec, BackfillExact
=============================================================================
