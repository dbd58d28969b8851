------------------------ MODULE SingletonSupervisor ------------------------
(***************************************************************************)
(* The processes that share one database supervise a singleton role        *)
(* through the fenced lease (crates/y-service/src/instance_coordination.rs *)
(* and the scheduler role of container.rs).                                *)
(*                                                                         *)
(* Each process runs supervise_loop: a select over shutdown, the renewal   *)
(* interval and reconcile requests.  The service's start and stop are      *)
(* awaited INSIDE the loop, so no renewal happens while one is pending;    *)
(* they are states of the process here ("starting", "stopping",            *)
(* "draining"), and the lease goes on ageing meanwhile.  The first start   *)
(* comes before the loop and its interval exist ("booting").               *)
(*                                                                         *)
(* Time is discrete and relative: Clock ages the lease and every timer,    *)
(* and waits for a process whose step is overdue.  The constants TickSlack,*)
(* StartTime and StopTime bound how late a tick fires and how long the two *)
(* calls take; giving them values larger than Ttl models paused processes. *)
(***************************************************************************)
EXTENDS FencedLease, Integers

CONSTANTS
    Renewal,        \* CoordinationPolicy.renewal_interval
    TickSlack,      \* latest firing of the renewal interval after its deadline
    StartTime,      \* longest LeaseManagedService::start
    StopTime,       \* longest LeaseManagedService::stop and release
    MaxToken,       \* bound: fencing tokens handed out
    MaxFaults       \* bound: storage errors and crashes

ASSUME SupervisorAssumption ==
    /\ Renewal \in Nat \ {0}
    /\ Renewal < Ttl                \* CoordinationPolicy::validate
    /\ TickSlack \in Nat
    /\ StartTime \in Nat
    /\ StopTime \in Nat
    /\ MaxToken \in Nat
    /\ MaxFaults \in Nat

VARIABLES
    row,        \* the runtime_leases row ("singleton", "scheduler")
    mode,       \* where each process is in supervise_singleton/supervise_loop
    lease,      \* fencing token of the lease the loop holds, 0 for None
    running,    \* whether the process runs the service
    tickIn,     \* time until the next interval tick, negative when overdue
    work,       \* time left for the pending start or stop
    faults      \* storage errors and crashes so far

vars == <<row, mode, lease, running, tickIn, work, faults>>

Modes == {"new", "booting", "idle", "starting", "stopping", "draining", "releasing", "gone"}

TypeOK ==
    /\ row \in Row
    /\ mode \in [Instances -> Modes]
    /\ lease \in [Instances -> Nat]
    /\ running \in [Instances -> BOOLEAN]
    /\ tickIn \in [Instances -> Int]
    /\ work \in [Instances -> Nat]
    /\ faults \in 0 .. MaxFaults

Init ==
    /\ row = NoRow
    /\ mode = [i \in Instances |-> "new"]
    /\ lease = [i \in Instances |-> 0]
    /\ running = [i \in Instances |-> FALSE]
    /\ tickIn = [i \in Instances |-> 0]
    /\ work = [i \in Instances |-> 0]
    /\ faults = 0

Fault == faults < MaxFaults /\ faults' = faults + 1

-----------------------------------------------------------------------------
(* try_acquire_lease, then service.start() when it returned a lease. *)

AcquireSome(i) ==
    /\ MayAcquire(row, i)
    /\ row.token < MaxToken
    /\ row' = Acquired(row, i)
    /\ lease' = [lease EXCEPT ![i] = Acquired(row, i).token]
    /\ mode' = [mode EXCEPT ![i] = IF @ = "new" THEN "booting" ELSE "starting"]
    /\ running' = [running EXCEPT ![i] = TRUE]
    /\ work' = [work EXCEPT ![i] = StartTime]
    /\ UNCHANGED faults

AcquireNone(i) ==
    /\ ~MayAcquire(row, i)
    /\ mode' = [mode EXCEPT ![i] = "idle"]
    /\ UNCHANGED <<row, lease, running, work, faults>>

AcquireErr(i) ==
    /\ Fault
    /\ UNCHANGED <<row, mode, lease, running, work>>

(* renew_lease; a lost lease and a failed renewal both stop the service. *)

RenewSome(i) ==
    /\ Matches(row, i, lease[i])
    /\ row' = Renewed(row)
    /\ UNCHANGED <<mode, lease, running, work, faults>>

BeginStop(i) ==
    /\ mode' = [mode EXCEPT ![i] = "stopping"]
    /\ work' = [work EXCEPT ![i] = StopTime]
    /\ UNCHANGED <<row, lease, running>>

RenewNone(i) == ~Matches(row, i, lease[i]) /\ BeginStop(i) /\ UNCHANGED faults

(* Mutant: a failed renewal is left to the next tick. *)
RenewErrKeeping(i) == Fault /\ UNCHANGED <<row, mode, lease, running, work>>

RenewErr(i) == Fault /\ BeginStop(i)

-----------------------------------------------------------------------------
(* supervise_singleton.  Its first acquisition decides whether the loop is *)
(* spawned at all: on a storage error the process stays unsupervised.  The *)
(* loop makes its interval when it is spawned, after the start.            *)
Boot(i) ==
    /\ mode[i] = "new"
    /\ \/ AcquireSome(i)
       \/ AcquireNone(i)
       \/ Fault /\ mode' = [mode EXCEPT ![i] = "gone"]
                /\ UNCHANGED <<row, lease, running, work>>
    /\ tickIn' = [tickIn EXCEPT ![i] = Renewal]

(* reconcile_ownership: renew what is held, try to acquire otherwise. *)
Reconcile(i) ==
    \/ lease[i] # 0 /\ (RenewSome(i) \/ RenewNone(i) \/ RenewErr(i))
    \/ lease[i] = 0 /\ (AcquireSome(i) \/ AcquireNone(i) \/ AcquireErr(i))

(* The interval catches up after a late tick: its deadlines stay a period apart. *)
Tick(i) ==
    /\ mode[i] = "idle"
    /\ tickIn[i] <= 0
    /\ Reconcile(i)
    /\ tickIn' = [tickIn EXCEPT ![i] = @ + Renewal]

(* SingletonLeaseHandle::reconcile_now, served by the loop between ticks. *)
Request(i) ==
    /\ mode[i] = "idle"
    /\ Reconcile(i)
    /\ UNCHANGED tickIn

StartDone(i) ==
    /\ mode[i] \in {"booting", "starting"}
    /\ mode' = [mode EXCEPT ![i] = "idle"]
    /\ work' = [work EXCEPT ![i] = 0]
    /\ UNCHANGED <<row, lease, running, tickIn, faults>>

(* Mutant: the loop stops the service but keeps the lost lease. *)
StopDoneKeepingLease(i) ==
    /\ mode[i] = "stopping"
    /\ mode' = [mode EXCEPT ![i] = "idle"]
    /\ running' = [running EXCEPT ![i] = FALSE]
    /\ work' = [work EXCEPT ![i] = 0]
    /\ UNCHANGED <<row, lease, tickIn, faults>>

(* The service is stopped and the loop forgets its lease; the row is left to expire. *)
StopDone(i) ==
    /\ mode[i] = "stopping"
    /\ mode' = [mode EXCEPT ![i] = "idle"]
    /\ lease' = [lease EXCEPT ![i] = 0]
    /\ running' = [running EXCEPT ![i] = FALSE]
    /\ work' = [work EXCEPT ![i] = 0]
    /\ UNCHANGED <<row, tickIn, faults>>

(* The shutdown token is cancelled (shutdown, or the handle is dropped). *)
Shutdown(i) ==
    /\ mode[i] = "idle"
    /\ mode' = [mode EXCEPT ![i] = IF lease[i] # 0 THEN "draining" ELSE "gone"]
    /\ work' = [work EXCEPT ![i] = StopTime]
    /\ UNCHANGED <<row, lease, running, tickIn, faults>>

Drained(i) ==
    /\ mode[i] = "draining"
    /\ mode' = [mode EXCEPT ![i] = "releasing"]
    /\ running' = [running EXCEPT ![i] = FALSE]
    /\ UNCHANGED <<row, lease, tickIn, work, faults>>

(* release_lease: Ok(true), Ok(false) and Err all end the loop. *)
Release(i) ==
    /\ mode[i] = "releasing"
    /\ \/ /\ row' = IF Matches(row, i, lease[i]) THEN Released(row) ELSE row
          /\ UNCHANGED faults
       \/ Fault /\ UNCHANGED row
    /\ mode' = [mode EXCEPT ![i] = "gone"]
    /\ lease' = [lease EXCEPT ![i] = 0]
    /\ UNCHANGED <<running, tickIn, work>>

(* The process dies: the service dies with it and the row stays. *)
Crash(i) ==
    /\ mode[i] \notin {"new", "gone"}
    /\ Fault
    /\ mode' = [mode EXCEPT ![i] = "gone"]
    /\ lease' = [lease EXCEPT ![i] = 0]
    /\ running' = [running EXCEPT ![i] = FALSE]
    /\ work' = [work EXCEPT ![i] = 0]
    /\ UNCHANGED <<row, tickIn>>

-----------------------------------------------------------------------------
(* A process is overdue when its next step must come before time passes. *)
Overdue(i) ==
    \/ mode[i] = "idle" /\ tickIn[i] <= -TickSlack
    \/ mode[i] \in {"booting", "starting", "stopping", "draining", "releasing"} /\ work[i] = 0

(* The interval runs from when the loop is spawned. *)
Ticking == {i \in Instances : mode[i] \notin {"new", "booting", "gone"}}

Clock ==
    /\ \A i \in Instances : ~Overdue(i)
    /\ row' = Aged(row)
    /\ tickIn' = [i \in Instances |-> IF i \in Ticking THEN tickIn[i] - 1 ELSE tickIn[i]]
    /\ work' = [i \in Instances |-> IF work[i] = 0 THEN 0 ELSE work[i] - 1]
    /\ UNCHANGED <<mode, lease, running, faults>>

Step(i) ==
    \/ Boot(i) \/ Tick(i) \/ Request(i) \/ StartDone(i) \/ StopDone(i)
    \/ Shutdown(i) \/ Drained(i) \/ Release(i) \/ Crash(i)

Next == Clock \/ \E i \in Instances : Step(i)

Spec == Init /\ [][Next]_vars

(* The clock runs, and a live process takes its due steps. *)
Fairness ==
    /\ WF_vars(Clock)
    /\ \A i \in Instances :
         WF_vars(Tick(i)) /\ WF_vars(StartDone(i)) /\ WF_vars(StopDone(i))
         /\ WF_vars(Drained(i)) /\ WF_vars(Release(i))

FairSpec == Spec /\ Fairness

-----------------------------------------------------------------------------
(* The margin under which the lease protects the role: the first start, a  *)
(* whole renewal interval after it, a tick that comes late and a stop after *)
(* a renewal that fails must together fit in the lease.                    *)
Punctual == StartTime + Renewal + TickSlack + StopTime < Ttl

(* At most one process runs the role at a time.                            *)
AtMostOneRunning ==
    \A i, j \in Instances : running[i] /\ running[j] => i = j

(* Whatever the timing, two processes that both believe they hold the      *)
(* lease hold different tokens, and the row's token is the largest of them *)
(* and belongs to the row's owner: the writes of a paused former owner can *)
(* be told from those of the current one.                                  *)
TokensFence ==
    \A i, j \in Instances :
      /\ lease[i] <= row.token
      /\ lease[i] # 0 /\ lease[i] = lease[j] => i = j
      /\ lease[i] # 0 /\ lease[i] = row.token => row.owner = i

(* The row changes hands only when it has expired or was released, and     *)
(* each change of hands increases the token, even across a crash: a stale  *)
(* process can neither renew nor release the lease of its successor.       *)
HandoverOrder ==
    [][ /\ row'.token >= row.token
        /\ row'.owner # row.owner => ~Live(row) /\ row'.token > row.token
        /\ row.left > 1 /\ ~Live(row') =>
             \E i \in Instances : row.owner = i /\ lease[i] = row.token /\ ~running[i]
      ]_vars

(* The inductive form of AtMostOneRunning: a process that runs the role    *)
(* owns a row that outlives the calls it is in and its next renewal.       *)
MarginOf(i) ==
    /\ running[i] => row.owner = i /\ row.token = lease[i] /\ Live(row)
    /\ mode[i] \notin {"new", "gone"} => tickIn[i] <= Renewal
    /\ mode[i] \in {"new", "idle"} => work[i] = 0
    /\ mode[i] = "booting" =>
         running[i] /\ row.left > StopTime + TickSlack + tickIn[i] + work[i]
    /\ mode[i] \in {"booting", "starting", "idle"} /\ lease[i] # 0 =>
         /\ running[i]
         /\ row.left > StopTime + work[i]
         /\ row.left > StopTime + TickSlack + tickIn[i]
    /\ mode[i] \in {"stopping", "draining"} => running[i] /\ row.left > work[i]

Margin == \A i \in Instances : MarginOf(i)

(* With the margin, the supervised processes implement the singleton role. *)
Runner ==
    IF row.owner \in Instances /\ running[row.owner] THEN row.owner ELSE NoInstance

Role == INSTANCE SingletonRole
          WITH runner <- Runner, last <- row.owner, term <- row.token

RoleSpec == Role!Spec

(* As long as some process supervises the role, some process comes to run  *)
(* it: after a crash, a failed renewal, or a failed release, the lease     *)
(* expires and the next tick of a survivor takes it over.                  *)
RoleTakenOver ==
    (\E i \in Instances : mode[i] = "idle")
      ~> \/ \E i \in Instances : running[i]
         \/ \A i \in Instances : mode[i] \in {"new", "gone"}
=============================================================================
