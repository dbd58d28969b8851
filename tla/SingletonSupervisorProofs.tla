--------------------- MODULE SingletonSupervisorProofs ---------------------
(***************************************************************************)
(* Proofs about lease supervision, for every number of processes and every *)
(* timing.                                                                 *)
(***************************************************************************)
EXTENDS SingletonSupervisor, TLAPS

USE LeaseAssumption, SupervisorAssumption

-----------------------------------------------------------------------------
(* What the statements of FencedLease leave in the row. *)

LEMMA RowLemma ==
    ASSUME NEW r \in Row
    PROVE  /\ \A i \in Instances : Acquired(r, i) \in Row
           /\ Renewed(r) \in Row
           /\ Released(r) \in Row
           /\ Aged(r) \in Row
  BY DEF Row, Acquired, Renewed, Released, Aged, Live

(* One reconciliation keeps everything but the interval timer well typed. *)

LEMMA ReconcileType ==
    ASSUME TypeOK, NEW i \in Instances,
           \/ AcquireSome(i) \/ AcquireNone(i) \/ AcquireErr(i)
           \/ RenewSome(i) \/ RenewNone(i) \/ RenewErr(i)
    PROVE  /\ row' \in Row
           /\ mode' \in [Instances -> Modes]
           /\ lease' \in [Instances -> Nat]
           /\ running' \in [Instances -> BOOLEAN]
           /\ work' \in [Instances -> Nat]
           /\ faults' \in 0 .. MaxFaults
<1> USE DEF TypeOK, Modes
<1>1. CASE AcquireSome(i)
  <2>1. Acquired(row, i) \in Row
    BY RowLemma
  <2>2. Acquired(row, i).token \in Nat
    BY <2>1 DEF Row
  <2> QED BY <1>1, <2>1, <2>2 DEF AcquireSome
<1>2. CASE AcquireNone(i)
  BY <1>2 DEF AcquireNone
<1>3. CASE AcquireErr(i)
  BY <1>3 DEF AcquireErr, Fault
<1>4. CASE RenewSome(i)
  BY <1>4, RowLemma DEF RenewSome
<1>5. CASE RenewNone(i)
  BY <1>5 DEF RenewNone, BeginStop
<1>6. CASE RenewErr(i)
  BY <1>6 DEF RenewErr, BeginStop, Fault
<1> QED BY <1>1, <1>2, <1>3, <1>4, <1>5, <1>6

LEMMA TypeStep == TypeOK /\ [Next]_vars => TypeOK'
<1> SUFFICES ASSUME TypeOK, [Next]_vars PROVE TypeOK'
  OBVIOUS
<1>1. CASE UNCHANGED vars
  BY <1>1 DEF vars, TypeOK
<1>2. CASE Clock
  BY <1>2, RowLemma DEF Clock, TypeOK, Modes
<1>3. ASSUME NEW i \in Instances, Step(i) PROVE TypeOK'
  <2>1. CASE Boot(i)
    <3>1. CASE AcquireSome(i) \/ AcquireNone(i)
      BY <2>1, <3>1, ReconcileType DEF Boot, TypeOK
    <3>2. CASE Fault /\ mode' = [mode EXCEPT ![i] = "gone"]
                     /\ UNCHANGED <<row, lease, running, work>>
      BY <2>1, <3>2 DEF Boot, Fault, TypeOK, Modes
    <3> QED BY <2>1, <3>1, <3>2 DEF Boot
  <2>2. CASE Tick(i) \/ Request(i)
    <3>1. tickIn' \in [Instances -> Int]
      BY <2>2 DEF Tick, Request, TypeOK
    <3> QED BY <2>2, <3>1, ReconcileType DEF Tick, Request, Reconcile, TypeOK
  <2>3. CASE StartDone(i)
    BY <2>3 DEF StartDone, TypeOK, Modes
  <2>4. CASE StopDone(i)
    BY <2>4 DEF StopDone, TypeOK, Modes
  <2>5. CASE Shutdown(i)
    BY <2>5 DEF Shutdown, TypeOK, Modes
  <2>6. CASE Drained(i)
    BY <2>6 DEF Drained, TypeOK, Modes
  <2>7. CASE Release(i)
    BY <2>7, RowLemma DEF Release, Fault, TypeOK, Modes
  <2>8. CASE Crash(i)
    BY <2>8 DEF Crash, Fault, TypeOK, Modes
  <2> QED BY <1>3, <2>1, <2>2, <2>3, <2>4, <2>5, <2>6, <2>7, <2>8 DEF Step
<1> QED BY <1>1, <1>2, <1>3 DEF Next

(* The type invariant: every step of the supervisor keeps the row, the     *)
(* timers and the flags of each process in their sets.                     *)
THEOREM TypeCorrect == Spec => []TypeOK
<1>1. Init => TypeOK
  BY DEF Init, TypeOK, Modes, NoRow, Row
<1> QED BY <1>1, TypeStep, PTL DEF Spec

-----------------------------------------------------------------------------
(* What relates a process's mode, its lease and the row, whatever the      *)
(* timing: with TokensFence it is inductive.                               *)

LeaseConsistent ==
    /\ row.owner \in Instances => row.token > 0
    /\ \A i \in Instances :
         /\ running[i] => lease[i] # 0
         /\ mode[i] \in {"new", "gone"} => lease[i] = 0
         /\ mode[i] = "releasing" => ~running[i]

FenceInv == TypeOK /\ LeaseConsistent /\ TokensFence

LEMMA RowFields ==
    ASSUME NEW r \in Row
    PROVE  /\ r.owner \in Instances \cup {NoInstance}
           /\ r.token \in Nat
           /\ r.left \in 0 .. Ttl
           /\ Aged(r).owner = r.owner /\ Aged(r).token = r.token
           /\ Aged(r).left = IF r.left = 0 THEN 0 ELSE r.left - 1
           /\ Renewed(r).owner = r.owner /\ Renewed(r).token = r.token
           /\ Renewed(r).left = Ttl
           /\ Released(r).owner = r.owner /\ Released(r).token = r.token
           /\ Released(r).left = 0
           /\ \A i \in Instances :
                /\ Acquired(r, i).owner = i
                /\ Acquired(r, i).left = Ttl
                /\ Acquired(r, i).token =
                     IF r.owner = i /\ Live(r) THEN r.token ELSE r.token + 1
  BY DEF Row, Aged, Renewed, Released, Acquired

(* Acquisition is the only step that mints a token. *)
LEMMA AcquireFences ==
    ASSUME FenceInv, NEW i \in Instances, lease[i] = 0, AcquireSome(i)
    PROVE  LeaseConsistent' /\ TokensFence'
<1> USE DEF FenceInv, TypeOK, AcquireSome
<1>1. /\ row'.owner = i
      /\ row'.token = IF row.owner = i /\ Live(row) THEN row.token ELSE row.token + 1
      /\ row.token \in Nat
  BY RowFields
<1>2. lease'[i] = row'.token /\ row'.token \in Nat /\ row'.token > 0
  <2>1. lease'[i] = row'.token
    OBVIOUS
  <2> QED BY <1>1, <2>1 DEF LeaseConsistent
<1>3. \A j \in Instances : j # i =>
         lease'[j] = lease[j] /\ running'[j] = running[j] /\ mode'[j] = mode[j]
  OBVIOUS
<1>4. \A j \in Instances : j # i /\ lease[j] # 0 =>
         lease[j] <= row.token /\ lease[j] < row'.token
  BY <1>1 DEF TokensFence
<1>5. LeaseConsistent'
  <2>1. running'[i] => lease'[i] # 0
    BY <1>2
  <2>2. mode'[i] \in {"booting", "starting"}
    OBVIOUS
  <2> QED BY <1>2, <1>3, <2>1, <2>2 DEF LeaseConsistent
<1>6. TokensFence'
  <2>1. \A j \in Instances : lease'[j] \in Nat /\ lease'[j] <= row'.token
    BY <1>2, <1>3, <1>4
  <2>2. \A j, k \in Instances : lease'[j] # 0 /\ lease'[j] = lease'[k] => j = k
    BY <1>2, <1>3, <1>4 DEF TokensFence
  <2>3. \A j \in Instances : lease'[j] # 0 /\ lease'[j] = row'.token => row'.owner = j
    BY <1>1, <1>2, <1>3, <1>4
  <2> QED BY <2>1, <2>2, <2>3 DEF TokensFence
<1> QED BY <1>5, <1>6

(* Every other step leaves the tokens of the row alone and can only give up leases. *)
LEMMA GiveUpFences ==
    ASSUME FenceInv, TypeOK',
           row'.owner = row.owner, row'.token = row.token,
           \A j \in Instances :
             /\ lease'[j] \in {0, lease[j]}
             /\ running'[j] => running[j] /\ lease'[j] = lease[j]
             /\ mode'[j] \in {"new", "gone"} => lease'[j] = 0
             /\ mode'[j] = "releasing" => ~running'[j]
    PROVE  LeaseConsistent' /\ TokensFence'
<1>1. LeaseConsistent'
  BY DEF FenceInv, LeaseConsistent
<1>2. TokensFence'
  <2>1. \A j \in Instances : lease[j] \in Nat /\ row.token \in Nat
    BY RowFields DEF FenceInv, TypeOK
  <2> QED BY <2>1 DEF FenceInv, TokensFence
<1> QED BY <1>1, <1>2

LEMMA FenceStep == FenceInv /\ [Next]_vars => FenceInv'
<1> SUFFICES ASSUME FenceInv, [Next]_vars PROVE FenceInv'
  OBVIOUS
<1> USE DEF FenceInv
<1>1. TypeOK'
  BY TypeStep
<1>2. row \in Row
  BY DEF TypeOK
<1>3. CASE UNCHANGED vars
  BY <1>1, <1>3 DEF vars, LeaseConsistent, TokensFence
<1>4. CASE Clock
  <2>1. /\ row'.owner = row.owner /\ row'.token = row.token
        /\ UNCHANGED <<mode, lease, running>>
    BY <1>2, <1>4, RowFields DEF Clock
  <2> QED BY <1>1, <2>1, GiveUpFences DEF LeaseConsistent
<1>5. ASSUME NEW i \in Instances, Step(i) PROVE FenceInv'
  <2>1. CASE AcquireSome(i) /\ lease[i] = 0
    BY <1>1, <2>1, AcquireFences
  <2>2. CASE AcquireNone(i) /\ lease[i] = 0
    BY <1>1, <2>2, GiveUpFences DEF AcquireNone, LeaseConsistent, TypeOK
  <2>3. CASE Boot(i)
    <3>1. lease[i] = 0 /\ ~running[i]
      BY <2>3 DEF Boot, LeaseConsistent, TypeOK
    <3>2. CASE mode' = [mode EXCEPT ![i] = "gone"]
                 /\ UNCHANGED <<row, lease, running, work>>
      BY <1>1, <3>1, <3>2, GiveUpFences DEF LeaseConsistent, TypeOK
    <3> QED BY <2>1, <2>2, <2>3, <3>1, <3>2 DEF Boot
  <2>4. CASE mode[i] = "idle" /\ Reconcile(i)
    <3>1. CASE AcquireErr(i) /\ lease[i] = 0
      BY <1>1, <3>1, GiveUpFences DEF AcquireErr, LeaseConsistent
    <3>2. CASE RenewSome(i)
      BY <1>1, <1>2, <3>2, RowFields, GiveUpFences DEF RenewSome, LeaseConsistent
    <3>3. CASE BeginStop(i)
      BY <1>1, <3>3, GiveUpFences DEF BeginStop, LeaseConsistent, TypeOK
    <3> QED BY <2>1, <2>2, <2>4, <3>1, <3>2, <3>3 DEF Reconcile, RenewNone, RenewErr
  <2>5. CASE StartDone(i)
    BY <1>1, <2>5, GiveUpFences DEF StartDone, LeaseConsistent, TypeOK
  <2>6. CASE StopDone(i)
    BY <1>1, <2>6, GiveUpFences DEF StopDone, LeaseConsistent, TypeOK
  <2>7. CASE Shutdown(i)
    BY <1>1, <2>7, GiveUpFences DEF Shutdown, LeaseConsistent, TypeOK
  <2>8. CASE Drained(i)
    BY <1>1, <2>8, GiveUpFences DEF Drained, LeaseConsistent, TypeOK
  <2>9. CASE Release(i)
    <3>1. row'.owner = row.owner /\ row'.token = row.token
      BY <1>2, <2>9, RowFields DEF Release
    <3> QED BY <1>1, <2>9, <3>1, GiveUpFences DEF Release, LeaseConsistent, TypeOK
  <2>10. CASE Crash(i)
    BY <1>1, <2>10, GiveUpFences DEF Crash, LeaseConsistent, TypeOK
  <2> QED BY <1>5, <2>3, <2>4, <2>5, <2>6, <2>7, <2>8, <2>9, <2>10
        DEF Step, Tick, Request
<1> QED BY <1>3, <1>4, <1>5 DEF Next

LEMMA FenceInvariant == Spec => []FenceInv
<1>1. Init => FenceInv
  BY DEF Init, FenceInv, TypeOK, Modes, NoRow, Row, LeaseConsistent, TokensFence
<1> QED BY <1>1, FenceStep, PTL DEF Spec

(* Fencing: whatever the timing, the processes that believe they hold the  *)
(* lease hold different tokens, the largest one is the row's, and it is    *)
(* its owner's.                                                            *)
THEOREM TokensFenceCorrect == Spec => []TokensFence
<1>1. FenceInv => TokensFence
  BY DEF FenceInv
<1> QED BY <1>1, FenceInvariant, PTL

-----------------------------------------------------------------------------
(* A step that acquires takes an expired row, or one that it owns. *)
HandoverStep ==
    /\ row'.token >= row.token
    /\ row'.owner # row.owner => ~Live(row) /\ row'.token > row.token
    /\ row.left > 1 /\ ~Live(row') =>
         \E i \in Instances : row.owner = i /\ lease[i] = row.token /\ ~running[i]

LEMMA HandoverLemma == FenceInv /\ [Next]_vars => HandoverStep
<1> SUFFICES ASSUME FenceInv, [Next]_vars PROVE HandoverStep
  OBVIOUS
<1> USE DEF FenceInv
<1>1. row \in Row /\ row.token \in Nat /\ row.left \in 0 .. Ttl
  BY RowFields DEF TypeOK
<1>2. CASE row' = row
  BY <1>1, <1>2 DEF HandoverStep, Live
<1>3. CASE row' = Aged(row)
  BY <1>1, <1>3, RowFields DEF HandoverStep, Live
<1>4. CASE row' = Renewed(row)
  BY <1>1, <1>4, RowFields DEF HandoverStep, Live
<1>5. ASSUME NEW i \in Instances, AcquireSome(i) PROVE HandoverStep
  <2>1. /\ row'.owner = i /\ row'.left = Ttl
        /\ row'.token = IF row.owner = i /\ Live(row) THEN row.token ELSE row.token + 1
    BY <1>1, <1>5, RowFields DEF AcquireSome
  <2>2. row.owner = i \/ ~Live(row)
    BY <1>5 DEF AcquireSome, MayAcquire
  <2> QED BY <1>1, <2>1, <2>2 DEF HandoverStep, Live
<1>6. ASSUME NEW i \in Instances, Release(i) PROVE HandoverStep
  <2>1. CASE row' = Released(row) /\ Matches(row, i, lease[i])
    <3>1. ~running[i] /\ row.owner = i /\ lease[i] = row.token
      BY <1>6, <2>1 DEF Release, Matches, LeaseConsistent
    <3> QED BY <1>1, <2>1, <3>1, RowFields DEF HandoverStep
  <2> QED BY <1>2, <1>6, <2>1 DEF Release
<1>7. ASSUME NEW i \in Instances, Step(i), ~Release(i), ~AcquireSome(i)
      PROVE  row' = row \/ row' = Renewed(row)
  BY <1>7 DEF Step, Boot, Tick, Request, Reconcile, AcquireNone, AcquireErr,
              RenewSome, RenewNone, RenewErr, BeginStop, StartDone, StopDone,
              Shutdown, Drained, Crash
<1> QED BY <1>2, <1>3, <1>4, <1>5, <1>6, <1>7 DEF Next, Clock, vars

(* Handover: whatever the timing, the row changes hands only after it      *)
(* expired or was released, each time under a larger token, and a live row *)
(* is only ever expired early by its own owner, once its service is down.  *)
THEOREM HandoverCorrect == Spec => HandoverOrder
<1>1. FenceInv /\ [Next]_vars =>
        [ /\ row'.token >= row.token
          /\ row'.owner # row.owner => ~Live(row) /\ row'.token > row.token
          /\ row.left > 1 /\ ~Live(row') =>
               \E i \in Instances : row.owner = i /\ lease[i] = row.token /\ ~running[i]
        ]_vars
  BY HandoverLemma DEF HandoverStep
<1> QED BY <1>1, FenceInvariant, PTL DEF Spec, HandoverOrder

-----------------------------------------------------------------------------
(* Mutual exclusion, under the timing assumption Punctual. *)

SafeInv == FenceInv /\ Margin

(* The part of Margin that depends on the row survives a step that does    *)
(* not touch the process and leaves its row at least as long to live.      *)
LEMMA OthersKeepMargin ==
    ASSUME SafeInv, TypeOK', NEW j \in Instances,
           mode'[j] = mode[j], lease'[j] = lease[j], running'[j] = running[j],
           tickIn'[j] = tickIn[j], work'[j] = work[j],
           running[j] => /\ row'.owner = row.owner /\ row'.token = row.token
                         /\ row'.left >= row.left
    PROVE  MarginOf(j)'
  BY RowFields DEF SafeInv, FenceInv, TypeOK, Margin, MarginOf, Live

LEMMA ReconcileMargin ==
    ASSUME Punctual, SafeInv, TypeOK', NEW i \in Instances,
           mode[i] \in {"new", "idle"},
           lease[i] # 0 => RenewSome(i) \/ RenewNone(i) \/ RenewErr(i),
           lease[i] = 0 => AcquireSome(i) \/ AcquireNone(i) \/ AcquireErr(i),
           tickIn'[i] <= Renewal,
           mode'[i] \in {"booting", "starting", "idle", "stopping"},
           \A j \in Instances \ {i} : tickIn'[j] = tickIn[j]
    PROVE  Margin'
<1> USE DEF SafeInv, FenceInv, TypeOK
<1>1. row \in Row /\ row' \in Row /\ row.left \in 0 .. Ttl /\ row.token \in Nat
  BY RowFields
<1>2. CASE AcquireSome(i) /\ lease[i] = 0
  <2>1. row'.owner = i /\ row'.left = Ttl /\ lease'[i] = row'.token /\ running'[i]
        /\ mode'[i] \in {"booting", "starting"} /\ work'[i] = StartTime
    BY <1>1, <1>2, RowFields DEF AcquireSome
  <2>2. MarginOf(i)'
    BY <2>1 DEF MarginOf, Punctual, Live
  <2>3. ASSUME NEW j \in Instances \ {i} PROVE MarginOf(j)'
    <3>1. ~running[j]
      BY <1>2, <2>3 DEF AcquireSome, MayAcquire, Margin, MarginOf
    <3> QED BY <1>2, <2>3, <3>1, OthersKeepMargin DEF AcquireSome
  <2> QED BY <2>2, <2>3 DEF Margin
<1>3. CASE RenewSome(i) /\ lease[i] # 0
  <2>1. row'.owner = row.owner /\ row'.token = row.token /\ row'.left = Ttl
    BY <1>1, <1>3, RowFields DEF RenewSome
  <2>2. MarginOf(i)'
    BY <1>1, <1>3, <2>1 DEF RenewSome, Margin, MarginOf, Punctual, Live, LeaseConsistent
  <2>3. ASSUME NEW j \in Instances \ {i} PROVE MarginOf(j)'
    BY <1>1, <1>3, <2>1, <2>3, OthersKeepMargin DEF RenewSome
  <2> QED BY <2>2, <2>3 DEF Margin
<1>4. CASE (AcquireNone(i) \/ AcquireErr(i)) /\ lease[i] = 0
  <2>1. row' = row /\ lease' = lease /\ running' = running /\ work' = work
        /\ \A j \in Instances \ {i} : mode'[j] = mode[j]
    BY <1>4 DEF AcquireNone, AcquireErr
  <2>2. ~running[i] /\ work[i] = 0 /\ mode'[i] \in {"new", "idle"}
    BY <1>4 DEF LeaseConsistent, Margin, MarginOf, AcquireNone, AcquireErr
  <2>3. MarginOf(i)'
    BY <1>4, <2>1, <2>2 DEF MarginOf
  <2>4. ASSUME NEW j \in Instances \ {i} PROVE MarginOf(j)'
    BY <1>1, <2>1, <2>4, OthersKeepMargin
  <2> QED BY <2>3, <2>4 DEF Margin
<1>5. CASE BeginStop(i) /\ lease[i] # 0
  <2>1. mode[i] = "idle"
    BY <1>5 DEF LeaseConsistent
  <2>2. MarginOf(i)'
    BY <1>1, <1>5, <2>1 DEF BeginStop, Margin, MarginOf, Live
  <2>3. ASSUME NEW j \in Instances \ {i} PROVE MarginOf(j)'
    BY <1>1, <1>5, <2>3, OthersKeepMargin DEF BeginStop
  <2> QED BY <2>2, <2>3 DEF Margin
<1> QED BY <1>2, <1>3, <1>4, <1>5 DEF RenewNone, RenewErr

LEMMA ClockMargin == ASSUME SafeInv, TypeOK', Clock PROVE Margin'
<1> SUFFICES ASSUME NEW i \in Instances PROVE MarginOf(i)'
  BY DEF Margin
<1>1. /\ row'.owner = row.owner /\ row'.token = row.token
      /\ row'.left = IF row.left = 0 THEN 0 ELSE row.left - 1
      /\ row.left \in 0 .. Ttl
  BY RowFields DEF SafeInv, FenceInv, TypeOK, Clock
<1>2. /\ mode'[i] = mode[i] /\ lease'[i] = lease[i] /\ running'[i] = running[i]
      /\ tickIn'[i] = IF mode[i] \notin {"new", "booting", "gone"} THEN tickIn[i] - 1 ELSE tickIn[i]
      /\ work'[i] = IF work[i] = 0 THEN 0 ELSE work[i] - 1
      /\ ~Overdue(i)
  BY DEF Clock, Ticking
<1>3. work[i] \in Nat /\ tickIn[i] \in Int /\ mode[i] \in Modes /\ lease[i] \in Nat
  BY DEF SafeInv, FenceInv, TypeOK
<1>4. MarginOf(i) /\ (mode[i] \in {"releasing", "new", "gone"} => ~running[i])
  BY DEF SafeInv, FenceInv, LeaseConsistent, Margin
<1>5. mode[i] \in {"booting", "starting", "idle"} /\ lease[i] # 0 => row.left > StopTime + 1
  BY <1>1, <1>2, <1>3, <1>4 DEF MarginOf, Overdue
<1>6. mode[i] = "booting" => work[i] > 0
  BY <1>2, <1>3 DEF Overdue
<1>7. mode[i] \in {"stopping", "draining"} => work[i] > 0
  BY <1>2, <1>3 DEF Overdue
<1>8. running[i] => lease[i] # 0
  BY DEF SafeInv, FenceInv, LeaseConsistent
<1>9. running[i] => row'.left > 0
  BY <1>1, <1>3, <1>4, <1>5, <1>7, <1>8 DEF MarginOf, Modes
<1>10. mode[i] \in {"booting", "starting", "idle"} /\ lease[i] # 0 =>
        row'.left > StopTime + work'[i] /\ row'.left > StopTime + TickSlack + tickIn'[i]
  <2>1. CASE mode[i] = "booting"
    BY <1>1, <1>2, <1>3, <1>4, <1>6, <2>1 DEF MarginOf
  <2>2. CASE mode[i] # "booting"
    BY <1>1, <1>2, <1>3, <1>4, <1>5, <2>2 DEF MarginOf
  <2> QED BY <2>1, <2>2
<1>11. mode[i] = "booting" => row'.left > StopTime + TickSlack + tickIn'[i] + work'[i]
  BY <1>1, <1>2, <1>3, <1>4, <1>6 DEF MarginOf
<1> QED BY <1>1, <1>2, <1>3, <1>4, <1>7, <1>9, <1>10, <1>11 DEF MarginOf, Live

LEMMA SafeStep == Punctual /\ SafeInv /\ [Next]_vars => SafeInv'
<1> SUFFICES ASSUME Punctual, SafeInv, [Next]_vars PROVE SafeInv'
  OBVIOUS
<1>1. FenceInv' /\ TypeOK'
  BY FenceStep DEF SafeInv, FenceInv
<1> USE DEF SafeInv, FenceInv, TypeOK
<1>2. CASE UNCHANGED vars
  BY <1>1, <1>2 DEF vars, Margin, MarginOf
<1>3. CASE Clock
  BY <1>1, <1>3, ClockMargin
<1>4. ASSUME NEW i \in Instances, Step(i) PROVE Margin'
  <2>1. MarginOf(i)
    BY DEF Margin
  <2>2. row \in Row /\ row.left \in 0 .. Ttl /\ row.token \in Nat
    BY RowFields
  <2>3. CASE Boot(i)
    <3>1. lease[i] = 0 /\ ~running[i] /\ tickIn'[i] = Renewal
          /\ \A j \in Instances \ {i} : tickIn'[j] = tickIn[j]
      BY <2>3 DEF Boot, LeaseConsistent
    <3>2. CASE AcquireSome(i) \/ AcquireNone(i)
      BY <1>1, <2>3, <3>1, <3>2, ReconcileMargin DEF Boot, AcquireSome, AcquireNone
    <3>3. CASE mode' = [mode EXCEPT ![i] = "gone"]
                 /\ UNCHANGED <<row, lease, running, work>>
      <4>1. MarginOf(i)'
        BY <3>1, <3>3 DEF MarginOf
      <4>2. ASSUME NEW j \in Instances \ {i} PROVE MarginOf(j)'
        BY <1>1, <2>2, <3>1, <3>3, <4>2, OthersKeepMargin
      <4> QED BY <4>1, <4>2 DEF Margin
    <3> QED BY <2>3, <3>2, <3>3 DEF Boot
  <2>4. CASE mode[i] = "idle" /\ Reconcile(i) /\
             (tickIn' = tickIn \/ (tickIn[i] <= 0 /\ tickIn' = [tickIn EXCEPT ![i] = @ + Renewal]))
    <3>1. tickIn'[i] <= Renewal /\ \A j \in Instances \ {i} : tickIn'[j] = tickIn[j]
      BY <2>1, <2>4 DEF MarginOf
    <3>2. mode'[i] \in {"booting", "starting", "idle", "stopping"}
      BY <2>4 DEF Reconcile, AcquireSome, AcquireNone, AcquireErr, RenewSome,
                  RenewNone, RenewErr, BeginStop
    <3>3. /\ lease[i] # 0 => RenewSome(i) \/ RenewNone(i) \/ RenewErr(i)
          /\ lease[i] = 0 => AcquireSome(i) \/ AcquireNone(i) \/ AcquireErr(i)
      BY <2>4 DEF Reconcile
    <3> QED BY <1>1, <2>4, <3>1, <3>2, <3>3, ReconcileMargin
  <2>5. ASSUME UNCHANGED <<row, tickIn>>, MarginOf(i)',
               \A j \in Instances \ {i} : /\ mode'[j] = mode[j] /\ lease'[j] = lease[j]
                                          /\ running'[j] = running[j] /\ work'[j] = work[j]
        PROVE  Margin'
    <3>1. ASSUME NEW j \in Instances \ {i} PROVE MarginOf(j)'
      BY <1>1, <2>2, <2>5, <3>1, OthersKeepMargin
    <3> QED BY <2>5, <3>1 DEF Margin
  <2>6. CASE StartDone(i)
    <3>1. MarginOf(i)'
      BY <2>1, <2>2, <2>6 DEF StartDone, MarginOf
    <3> QED BY <2>5, <2>6, <3>1 DEF StartDone
  <2>7. CASE StopDone(i)
    <3>1. MarginOf(i)'
      BY <2>1, <2>2, <2>7 DEF StopDone, MarginOf
    <3> QED BY <2>5, <2>7, <3>1 DEF StopDone
  <2>8. CASE Shutdown(i)
    <3>1. lease[i] = 0 => ~running[i]
      BY DEF LeaseConsistent
    <3>2. MarginOf(i)'
      BY <2>1, <2>2, <2>8, <3>1 DEF Shutdown, MarginOf
    <3> QED BY <2>5, <2>8, <3>2 DEF Shutdown
  <2>9. CASE Drained(i)
    <3>1. MarginOf(i)'
      BY <2>1, <2>2, <2>9 DEF Drained, MarginOf
    <3> QED BY <2>5, <2>9, <3>1 DEF Drained
  <2>10. CASE Crash(i)
    <3>1. MarginOf(i)'
      BY <2>1, <2>2, <2>10 DEF Crash, MarginOf
    <3> QED BY <2>5, <2>10, <3>1 DEF Crash
  <2>11. CASE Release(i)
    <3>1. ~running[i] /\ ~running'[i] /\ mode'[i] = "gone" /\ lease'[i] = 0
      BY <2>11 DEF Release, LeaseConsistent
    <3>2. MarginOf(i)'
      BY <3>1 DEF MarginOf
    <3>3. ASSUME NEW j \in Instances \ {i} PROVE MarginOf(j)'
      <4>1. running[j] => row.owner = j
        BY <3>3 DEF Margin, MarginOf
      <4>2. row' = row \/ row.owner = i
        BY <2>11 DEF Release, Matches
      <4>3. /\ mode'[j] = mode[j] /\ lease'[j] = lease[j] /\ running'[j] = running[j]
            /\ tickIn'[j] = tickIn[j] /\ work'[j] = work[j]
        BY <2>11, <3>3 DEF Release
      <4>4. running[j] => row' = row
        BY <3>3, <4>1, <4>2
      <4> QED BY <1>1, <2>2, <2>11, <3>3, <4>1, <4>3, <4>4, OthersKeepMargin
    <3> QED BY <3>2, <3>3 DEF Margin
  <2>12. CASE Tick(i)
    BY <2>4, <2>12 DEF Tick
  <2>13. CASE Request(i)
    BY <2>4, <2>13 DEF Request
  <2> QED BY <1>4, <2>3, <2>6, <2>7, <2>8, <2>9, <2>10, <2>11, <2>12, <2>13 DEF Step
<1> QED BY <1>1, <1>2, <1>3, <1>4 DEF Next

LEMMA SafeInvariant == Punctual => (Spec => []SafeInv)
<1> SUFFICES ASSUME Punctual PROVE Spec => []SafeInv
  OBVIOUS
<1>1. Init => SafeInv
  <2> SUFFICES ASSUME Init PROVE SafeInv
    OBVIOUS
  <2>1. FenceInv
    BY DEF Init, FenceInv, TypeOK, Modes, NoRow, Row, LeaseConsistent, TokensFence
  <2>2. Margin
    BY DEF Init, Margin, MarginOf
  <2> QED BY <2>1, <2>2 DEF SafeInv
<1>2. SafeInv /\ [Next]_vars => SafeInv'
  BY SafeStep
<1> QED BY <1>1, <1>2, PTL DEF Spec

(* The margin invariant: when ticks, starts and stops fit in the lease, a  *)
(* process that runs the role owns a row that outlives its next renewal.   *)
THEOREM MarginCorrect == Punctual => (Spec => []Margin)
<1>1. SafeInv => Margin
  BY DEF SafeInv
<1> QED BY <1>1, SafeInvariant, PTL

(* Mutual exclusion: under the same timing, at most one process runs the   *)
(* role at any moment.                                                     *)
THEOREM MutualExclusion == Punctual => (Spec => []AtMostOneRunning)
<1>1. SafeInv => AtMostOneRunning
  BY DEF SafeInv, Margin, MarginOf, AtMostOneRunning
<1> QED BY <1>1, SafeInvariant, PTL

-----------------------------------------------------------------------------
(* Refinement of SingletonRole. *)

LEMMA RoleStep == SafeInv /\ SafeInv' /\ [Next]_vars => [Role!Next]_(Role!vars)
<1> SUFFICES ASSUME SafeInv, SafeInv', [Next]_vars PROVE [Role!Next]_(Role!vars)
  OBVIOUS
<1> USE DEF SafeInv, FenceInv, TypeOK
<1>1. row \in Row /\ row' \in Row /\ row.owner \in Instances \cup {NoInstance}
  BY RowFields
<1>2. ASSUME row'.owner = row.owner, row'.token = row.token,
             \A j \in Instances : running'[j] => running[j]
      PROVE  [Role!Next]_(Role!vars)
  BY <1>1, <1>2 DEF Role!Next, Role!End, Role!vars, Runner
<1>3. CASE UNCHANGED vars
  BY <1>2, <1>3 DEF vars
<1>4. CASE Clock
  BY <1>1, <1>2, <1>4, RowFields DEF Clock
<1>5. ASSUME NEW i \in Instances, AcquireSome(i), lease[i] = 0
      PROVE  [Role!Next]_(Role!vars)
  <2>1. ~running[i]
    BY <1>5 DEF LeaseConsistent
  <2>2. row.owner = i \/ ~Live(row)
    BY <1>5 DEF AcquireSome, MayAcquire
  <2>3. row.owner \in Instances /\ row.owner # i => ~running[row.owner]
    BY <2>2 DEF Margin, MarginOf
  <2>4. Runner = NoInstance
    BY <2>1, <2>3 DEF Runner
  <2>5. row'.owner = i /\ running'[i]
    BY <1>1, <1>5, RowFields DEF AcquireSome
  <2>6. Runner' = i
    BY <2>5 DEF Runner
  <2>7. row'.token = row.token + 1 \/ (row'.token = row.token /\ row.owner = i)
    <3>1. row'.token = IF row.owner = i /\ Live(row) THEN row.token ELSE row.token + 1
      BY <1>1, <1>5, RowFields DEF AcquireSome
    <3> QED BY <3>1
  <2>8. Role!Begin(i)
    BY <2>4, <2>5, <2>6, <2>7 DEF Role!Begin
  <2> QED BY <2>8 DEF Role!Next
<1>6. ASSUME NEW i \in Instances, Step(i), ~(AcquireSome(i) /\ lease[i] = 0)
      PROVE  /\ row'.owner = row.owner /\ row'.token = row.token
             /\ \A j \in Instances : running'[j] => running[j]
  <2>1. mode[i] = "new" => lease[i] = 0
    BY DEF LeaseConsistent
  <2>2. row' = row \/ row' = Renewed(row) \/ row' = Released(row)
    BY <1>6, <2>1 DEF Step, Boot, Tick, Request, Reconcile, AcquireNone, AcquireErr,
              RenewSome, RenewNone, RenewErr, BeginStop, StartDone, StopDone,
              Shutdown, Drained, Crash, Release
  <2>3. running' = running \/ running' = [running EXCEPT ![i] = FALSE]
    BY <1>6, <2>1 DEF Step, Boot, Tick, Request, Reconcile, AcquireNone, AcquireErr,
              RenewSome, RenewNone, RenewErr, BeginStop, StartDone, StopDone,
              Shutdown, Drained, Crash, Release
  <2> QED BY <1>1, <2>2, <2>3, RowFields
<1> QED BY <1>2, <1>3, <1>4, <1>5, <1>6 DEF Next

(* Refinement: under the same timing, the processes and their lease        *)
(* implement the singleton role: its terms never overlap and are numbered  *)
(* in order.                                                               *)
THEOREM RoleRefined == Punctual => (Spec => RoleSpec)
<1> SUFFICES ASSUME Punctual PROVE Spec => RoleSpec
  OBVIOUS
<1>1. Init => Role!Init
  BY DEF Init, Role!Init, Runner, NoRow
<1>2. Spec => []SafeInv
  BY SafeInvariant
<1> QED BY <1>1, <1>2, RoleStep, PTL DEF Spec, RoleSpec, Role!Spec
=============================================================================
