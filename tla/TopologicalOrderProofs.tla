----------------------- MODULE TopologicalOrderProofs -----------------------
(***************************************************************************)
(* Proofs about TopologicalOrder: for every finite set of tasks and every  *)
(* dependency lists, what validate accepts has an order, and what it       *)
(* refuses as a cycle has none when no list repeats an entry.              *)
(*                                                                         *)
(* The argument counts: the in_degree of a task that is not placed is at   *)
(* least the number of its dependencies that are not placed, so a task     *)
(* reaches the queue only after all of them; without repetitions the two   *)
(* are equal, so an empty queue leaves only tasks that wait for each other.*)
(***************************************************************************)
EXTENDS TopologicalOrder, FiniteSetTheorems, SequenceTheorems, TLAPS

(* The tasks placed in the order so far. *)
Placed == {order[n] : n \in 1 .. Len(order)}

(* A task stands in the order once, after all that it depends on. *)
OrderSorted ==
    /\ Cardinality(Placed) = Len(order)
    /\ \A n \in 1 .. Len(order) :
         /\ Deps[order[n]] \subseteq {order[m] : m \in 1 .. n - 1}
         /\ order[n] \notin {order[m] : m \in 1 .. n - 1}

(* What waits in the queue waits for nothing else. *)
QueueFree ==
    /\ queue \cap Placed = {}
    /\ \A t \in queue : Deps[t] \subseteq Placed
    /\ \A t \in Tasks \ Placed : degree[t] = 0 => t \in queue

DegreeCounts ==
    \A t \in Tasks \ Placed :
      /\ Cardinality(Deps[t] \ Placed) <= degree[t]
      /\ Simple /\ ~Missing => degree[t] = Cardinality(Deps[t] \ Placed)

VerdictRight ==
    /\ verdict = "ok" => ~Missing /\ Len(order) = Cardinality(Tasks)
    /\ verdict = "missing" => Missing
    /\ verdict = "cycle" => ~Missing /\ queue = {} /\ Len(order) # Cardinality(Tasks)

SortInv == OrderTypeOK /\ OrderSorted /\ QueueFree /\ DegreeCounts /\ VerdictRight

-----------------------------------------------------------------------------
(* Facts about finite sets of tasks. *)

\* Among the tasks that are numbered there is one with the smallest number.
LEMMA Smallest ==
    ASSUME NEW place \in [Tasks -> Nat], NEW T \in SUBSET Tasks, T # {}
    PROVE  \E t \in T : \A u \in T : place[t] <= place[u]
<1> DEFINE Numbers == {place[t] : t \in T}
<1>1. Numbers \subseteq Nat /\ Numbers # {}
  OBVIOUS
<1>2. PICK n \in Numbers : \A m \in Numbers : <<m, n>> \notin OpToRel(<, Nat)
  <2> HIDE DEF Numbers
  <2> QED
    BY <1>1, NatLessThanWellFounded, WFMin
<1>3. \A m \in Numbers : ~(m < n)
  BY <1>1, <1>2 DEF OpToRel
<1>4. PICK t \in T : place[t] = n
  OBVIOUS
<1>5. \A u \in T : place[u] \in Nat /\ place[t] \in Nat /\ ~(place[u] < place[t])
  BY <1>3, <1>4
<1> QED
  BY <1>5

\* A set of tasks is finite, and so is its number of elements.
LEMMA TaskSets ==
    ASSUME NEW T \in SUBSET Tasks
    PROVE  IsFiniteSet(T) /\ Cardinality(T) \in Nat
BY TasksAssumption, FS_Subset, FS_CardinalityType

\* Where the tasks can be ordered, some task outside a proper subset has all its dependencies
\* in it.
LEMMA OrderedProgress ==
    ASSUME NEW deps \in [Tasks -> SUBSET Tasks], Orderable(deps),
           NEW T \in SUBSET Tasks, T # Tasks
    PROVE  \E t \in Tasks \ T : deps[t] \subseteq T
<1>1. PICK place \in [Tasks -> 1 .. Cardinality(Tasks)] :
        \A t \in Tasks : \A d \in deps[t] : place[d] < place[t]
  BY DEF Orderable
<1>2. place \in [Tasks -> Nat]
  BY <1>1, TaskSets
<1>3. PICK t \in Tasks \ T : \A u \in Tasks \ T : place[t] <= place[u]
  BY <1>2, Smallest
<1>4. deps[t] \subseteq T
  BY <1>1, <1>2, <1>3
<1> QED
  BY <1>4

\* Deps is a graph over the tasks.
LEMMA DepsType == Deps \in [Tasks -> SUBSET Tasks]
BY DEF Deps

\* A list has at least as many entries as dependencies, and as many when none of its entries
\* is repeated or names no task.
LEMMA EntriesCount ==
    ASSUME repeats \in [Tasks -> [Tasks \cup Absent -> 0 .. MaxRepeat]], NEW t \in Tasks
    PROVE  /\ Cardinality(Entries(t)) \in Nat
           /\ Cardinality(Deps[t]) <= Cardinality(Entries(t))
           /\ Simple /\ ~Missing => Cardinality(Entries(t)) = Cardinality(Deps[t])
<1> DEFINE Ids == Tasks \cup Absent
           entry == [d \in Deps[t] |-> <<d, 1>>]
<1>1. IsFiniteSet(Ids \X (1 .. MaxRepeat))
  <2>1. IsFiniteSet(Ids)
    BY TasksAssumption, OrderAssumption, FS_Union
  <2>2. IsFiniteSet(1 .. MaxRepeat)
    BY OrderAssumption, FS_Interval
  <2> QED
    BY <2>1, <2>2, FS_Product
<1>2. IsFiniteSet(Entries(t)) /\ Cardinality(Entries(t)) \in Nat
  BY <1>1, FS_Subset, FS_CardinalityType DEF Entries
<1>3. Deps[t] = {d \in Tasks : repeats[t][d] > 0}
  BY DEF Deps
<1>4. \A d \in Deps[t] : <<d, 1>> \in Entries(t)
  BY <1>3, OrderAssumption DEF Entries
<1>5. entry \in Injection(Deps[t], Entries(t))
  BY <1>4 DEF Injection, IsInjective
<1>6. ASSUME Simple, ~Missing PROVE entry \in Surjection(Deps[t], Entries(t))
  <2> SUFFICES ASSUME NEW e \in Entries(t) PROVE \E d \in Deps[t] : entry[d] = e
    BY <1>5 DEF Injection, Surjection
  <2>1. /\ e \in Ids \X (1 .. MaxRepeat) /\ e = <<e[1], e[2]>>
        /\ e[2] \in 1 .. MaxRepeat /\ e[2] <= repeats[t][e[1]]
    BY DEF Entries
  <2>2. repeats[t][e[1]] \in 0 .. MaxRepeat /\ repeats[t][e[1]] > 0
    BY <2>1, OrderAssumption
  <2>3. e[1] \in Tasks
    BY <1>6, <2>1, <2>2 DEF Missing
  <2>4. repeats[t][e[1]] <= 1
    BY <1>6, <2>1 DEF Simple
  <2>5. e = <<e[1], 1>>
    BY <2>1, <2>2, <2>4, OrderAssumption
  <2> QED
    BY <1>3, <2>2, <2>3, <2>5
<1> HIDE DEF entry
<1> QED
  BY <1>2, <1>5, <1>6, FS_Injection

-----------------------------------------------------------------------------
(* The invariant. *)

\* The sort starts with nothing placed.
LEMMA SortInit == OrderInit => SortInv
<1> SUFFICES ASSUME OrderInit PROVE SortInv
  OBVIOUS
<1>1. Placed = {} /\ Len(order) = 0 /\ order \in Seq(Tasks)
  BY DEF OrderInit, Placed
<1>2. repeats \in [Tasks -> [Tasks \cup Absent -> 0 .. MaxRepeat]]
  BY DEF OrderInit
<1>3. \A t \in Tasks : degree[t] = Cardinality(Entries(t))
  BY DEF OrderInit
<1>4. OrderTypeOK
  BY <1>1, <1>2, <1>3, EntriesCount DEF OrderInit, OrderTypeOK
<1>5. OrderSorted
  BY <1>1, FS_EmptySet DEF OrderSorted
<1>6. ASSUME NEW t \in Tasks, degree[t] = 0 PROVE t \in queue /\ Deps[t] = {}
  <2>1. Cardinality(Deps[t]) <= 0 /\ t \in queue
    BY <1>2, <1>3, <1>6, EntriesCount DEF OrderInit
  <2>2. Deps[t] \in SUBSET Tasks
    BY DepsType
  <2> QED
    BY <2>1, <2>2, TaskSets, FS_EmptySet
<1>7. QueueFree
  BY <1>1, <1>6 DEF OrderInit, QueueFree
<1>8. \A t \in Tasks : Deps[t] \ Placed = Deps[t]
  BY <1>1
<1>9. DegreeCounts
  BY <1>2, <1>3, <1>8, EntriesCount DEF DegreeCounts
<1> QED
  BY <1>4, <1>5, <1>7, <1>9 DEF OrderInit, SortInv, VerdictRight

\* A task that is placed had all its dependencies placed.
LEMMA PlacedClosed ==
    ASSUME SortInv, NEW t \in Placed
    PROVE  t \in Tasks /\ Deps[t] \subseteq Placed
<1>1. PICK n \in 1 .. Len(order) : order[n] = t
  BY DEF Placed
<1>2. order \in Seq(Tasks) /\ Deps[t] \subseteq {order[m] : m \in 1 .. n - 1}
  BY <1>1 DEF SortInv, OrderTypeOK, OrderSorted
<1> QED
  BY <1>1, <1>2 DEF Placed

\* A step of validate keeps the invariant.
LEMMA SortStep == SortInv /\ [Validate]_orderVars => SortInv'
<1> SUFFICES ASSUME SortInv, [Validate]_orderVars PROVE SortInv'
  OBVIOUS
<1> USE DEF SortInv
<1>1. order \in Seq(Tasks) /\ Len(order) \in Nat
  BY DEF OrderTypeOK
<1>2. Placed \in SUBSET Tasks
  BY PlacedClosed
<1>3. ASSUME UNCHANGED <<repeats, degree, queue, order>>
      PROVE  OrderSorted' /\ QueueFree' /\ DegreeCounts' /\ (Missing' <=> Missing)
  <2>1. Placed' = Placed /\ Deps' = Deps /\ Simple' = Simple /\ Missing' = Missing
    BY <1>3 DEF Placed, Deps, Simple, Missing
  <2>2. OrderSorted'
    BY <1>3, <2>1 DEF OrderSorted
  <2>3. QueueFree'
    BY <1>3, <2>1 DEF QueueFree
  <2>4. DegreeCounts'
    BY <1>3, <2>1 DEF DegreeCounts
  <2> QED
    BY <2>1, <2>2, <2>3, <2>4
<1>4. CASE UNCHANGED orderVars
  <2>1. UNCHANGED <<repeats, degree, queue, order>> /\ verdict' = verdict
    BY <1>4 DEF orderVars, sorting
  <2>2. OrderTypeOK'
    BY <2>1 DEF OrderTypeOK
  <2>3. VerdictRight'
    BY <1>3, <2>1 DEF VerdictRight
  <2> QED
    BY <1>3, <2>1, <2>2, <2>3
<1>5. CASE Refuse
  BY <1>3, <1>5 DEF Refuse, OrderTypeOK, VerdictRight
<1>7. CASE Return
  <2>1. OrderTypeOK'
    BY <1>7 DEF Return, OrderTypeOK
  <2>2. VerdictRight'
    BY <1>3, <1>7 DEF Return, VerdictRight
  <2> QED
    BY <1>3, <1>7, <2>1, <2>2 DEF Return
<1>6. ASSUME NEW t \in Tasks, Pop(t) PROVE SortInv'
  <2>1. /\ t \in queue /\ t \notin Placed /\ Deps[t] \subseteq Placed
        /\ verdict = "none" /\ ~Missing
        /\ UNCHANGED <<repeats, verdict>>
    BY <1>6 DEF Pop, QueueFree
  <2>2. Deps' = Deps /\ Simple' = Simple /\ Missing' = Missing
    BY <2>1 DEF Deps, Simple, Missing
  <2>3. /\ order' = Append(order, t) /\ order' \in Seq(Tasks) /\ Len(order') = Len(order) + 1
        /\ \A n \in 1 .. Len(order) : order'[n] = order[n]
        /\ order'[Len(order) + 1] = t
    BY <1>1, <1>6 DEF Pop
  <2>4. Placed' = Placed \cup {t}
    BY <1>1, <2>3 DEF Placed
  <2>5. OrderSorted'
    <3>1. Cardinality(Placed') = Len(order')
      BY <1>2, <2>1, <2>3, <2>4, TaskSets, FS_AddElement DEF OrderSorted
    <3>2. \A n \in 1 .. Len(order) + 1 :
            {order'[m] : m \in 1 .. n - 1} = {order[m] : m \in 1 .. n - 1}
      BY <1>1, <2>3
    <3>3. Deps[t] \subseteq {order[m] : m \in 1 .. Len(order)} /\ t \notin {order[m] : m \in 1 .. Len(order)}
      BY <2>1 DEF Placed
    <3>4. ASSUME NEW n \in 1 .. Len(order')
          PROVE  /\ Deps'[order'[n]] \subseteq {order'[m] : m \in 1 .. n - 1}
                 /\ order'[n] \notin {order'[m] : m \in 1 .. n - 1}
      <4>1. CASE n \in 1 .. Len(order)
        BY <1>1, <2>2, <2>3, <3>2, <4>1 DEF OrderSorted
      <4>2. CASE n = Len(order) + 1
        BY <1>1, <2>2, <2>3, <3>2, <3>3, <4>2
      <4>3. Len(order') = Len(order) + 1 /\ Len(order) \in Nat
        BY <1>1, <2>3
      <4>4. n \in 1 .. Len(order) \/ n = Len(order) + 1
        BY <4>3
      <4> QED
        BY <4>1, <4>2, <4>4
    <3> QED
      BY <3>1, <3>4 DEF OrderSorted
  <2>6. \A u \in Tasks : u \in Dependents(t) <=> t \in Deps[u]
    BY DEF Dependents, Deps
  <2>7. \A u \in Tasks : /\ degree[u] \in Nat
                         /\ degree'[u] = IF t \in Deps[u] /\ degree[u] > 0
                                         THEN degree[u] - 1 ELSE degree[u]
    BY <1>6, <2>6 DEF Pop, OrderTypeOK
  <2>8. ASSUME NEW u \in Tasks \ Placed, t \in Deps[u]
        PROVE  /\ Cardinality(Deps[u] \ Placed) \in Nat /\ Cardinality(Deps[u] \ Placed') \in Nat
               /\ Cardinality(Deps[u] \ Placed') = Cardinality(Deps[u] \ Placed) - 1
               /\ degree[u] > 0
    <3>1. Deps[u] \ Placed \in SUBSET Tasks /\ Deps[u] \ Placed' \in SUBSET Tasks
      BY DepsType
    <3>2. Deps[u] \ Placed' = (Deps[u] \ Placed) \ {t} /\ t \in Deps[u] \ Placed
      BY <2>1, <2>4, <2>8
    <3>3. /\ IsFiniteSet(Deps[u] \ Placed) /\ Cardinality(Deps[u] \ Placed) \in Nat
          /\ Cardinality(Deps[u] \ Placed') \in Nat
      BY <3>1, TaskSets
    <3>4. Cardinality((Deps[u] \ Placed) \ {t}) = Cardinality(Deps[u] \ Placed) - 1
      BY <3>2, <3>3, FS_RemoveElement
    <3>5. Cardinality(Deps[u] \ Placed') = Cardinality(Deps[u] \ Placed) - 1
      BY <3>2, <3>4
    <3> QED
      BY <2>7, <3>3, <3>5 DEF DegreeCounts
  <2>9. ASSUME NEW u \in Tasks \ Placed, t \notin Deps[u]
        PROVE  Deps[u] \ Placed' = Deps[u] \ Placed
    BY <2>4, <2>9
  <2>10. DegreeCounts'
    <3> SUFFICES ASSUME NEW u \in Tasks \ Placed'
                 PROVE  /\ Cardinality(Deps[u] \ Placed') <= degree'[u]
                        /\ Simple /\ ~Missing => degree'[u] = Cardinality(Deps[u] \ Placed')
      BY <2>2 DEF DegreeCounts
    <3>1. /\ u \in Tasks \ Placed /\ degree[u] \in Nat
          /\ Cardinality(Deps[u] \ Placed) <= degree[u]
          /\ Simple /\ ~Missing => degree[u] = Cardinality(Deps[u] \ Placed)
      BY <2>4, <2>7 DEF DegreeCounts
    <3>2. CASE t \in Deps[u]
      <4>1. degree'[u] = degree[u] - 1
        BY <2>7, <2>8, <3>1, <3>2
      <4> QED
        BY <2>8, <3>1, <3>2, <4>1
    <3>3. CASE t \notin Deps[u]
      BY <2>7, <2>9, <3>1, <3>3
    <3> QED
      BY <3>2, <3>3
  <2>11. queue' = (queue \ {t}) \cup {u \in Tasks : t \in Deps[u] /\ degree[u] <= 1}
    BY <1>6, <2>6 DEF Pop, Freed, Dependents
  <2>12. ASSUME NEW u \in Tasks, t \in Deps[u] PROVE u \notin Placed /\ u # t
    BY <2>1, <2>12, PlacedClosed
  <2>13. ASSUME NEW u \in Tasks, t \in Deps[u], degree[u] <= 1 PROVE Deps[u] \subseteq Placed'
    <3>1. u \notin Placed /\ degree[u] \in Nat /\ Cardinality(Deps[u] \ Placed) <= degree[u]
      BY <2>7, <2>12, <2>13 DEF DegreeCounts
    <3>2. /\ Cardinality(Deps[u] \ Placed') \in Nat /\ Cardinality(Deps[u] \ Placed) \in Nat
          /\ Cardinality(Deps[u] \ Placed') = Cardinality(Deps[u] \ Placed) - 1
      BY <2>8, <2>13, <3>1
    <3>3. Cardinality(Deps[u] \ Placed') = 0
      BY <2>13, <3>1, <3>2
    <3>4. Deps[u] \ Placed' \in SUBSET Tasks
      BY DepsType
    <3> QED
      BY <3>3, <3>4, TaskSets, FS_EmptySet
  <2>14. QueueFree'
    <3>1. queue' \cap Placed' = {}
      BY <2>1, <2>4, <2>11, <2>12 DEF QueueFree
    <3>2. \A u \in queue' : Deps[u] \subseteq Placed'
      BY <2>4, <2>11, <2>13 DEF QueueFree
    <3>3. ASSUME NEW u \in Tasks \ Placed', degree'[u] = 0 PROVE u \in queue'
      BY <2>4, <2>7, <2>8, <2>11, <3>3 DEF QueueFree
    <3> QED
      BY <2>2, <3>1, <3>2, <3>3 DEF QueueFree
  <2>15. OrderTypeOK'
    <3>1. degree' \in [Tasks -> Nat]
      BY <1>6, <2>7 DEF Pop
    <3> QED
      BY <2>1, <2>3, <2>11, <3>1 DEF OrderTypeOK
  <2> QED
    BY <2>1, <2>5, <2>10, <2>14, <2>15 DEF VerdictRight
<1> QED
  BY <1>4, <1>5, <1>6, <1>7 DEF Validate

-----------------------------------------------------------------------------
(* What the verdict means. *)

\* An accepted graph has an order.
LEMMA AcceptedOrderable == SortInv /\ verdict = "ok" => Orderable(Deps)
<1> SUFFICES ASSUME SortInv, verdict = "ok" PROVE Orderable(Deps)
  OBVIOUS
<1>1. order \in Seq(Tasks) /\ Len(order) = Cardinality(Tasks) /\ Len(order) \in Nat
  BY DEF SortInv, OrderTypeOK, VerdictRight
<1>2. Placed = Tasks
  BY <1>1, PlacedClosed, TasksAssumption, FS_Subset DEF SortInv, OrderSorted
<1> DEFINE place == [t \in Tasks |-> CHOOSE n \in 1 .. Len(order) : order[n] = t]
<1>3. \A t \in Tasks : place[t] \in 1 .. Len(order) /\ order[place[t]] = t
  BY <1>2 DEF Placed
<1> HIDE DEF place
<1>4. ASSUME NEW t \in Tasks, NEW d \in Deps[t] PROVE place[d] < place[t]
  <2>1. d \in Tasks
    BY DepsType
  <2>2. PICK m \in 1 .. place[t] - 1 : order[m] = d
    <3>1. Deps[order[place[t]]] \subseteq {order[m] : m \in 1 .. place[t] - 1}
      BY <1>3 DEF SortInv, OrderSorted
    <3>2. d \in {order[m] : m \in 1 .. place[t] - 1}
      BY <1>3, <1>4, <3>1
    <3> QED
      BY <3>2
  <2>3. place[d] <= m
    <3> SUFFICES ASSUME m < place[d] PROVE FALSE
      BY <1>1, <1>3, <2>1
    <3>1. order[place[d]] \notin {order[k] : k \in 1 .. place[d] - 1}
      BY <1>3, <2>1 DEF SortInv, OrderSorted
    <3> QED
      BY <1>1, <1>3, <2>1, <2>2, <3>1
  <2> QED
    BY <1>1, <1>3, <2>1, <2>2, <2>3
<1>5. place \in [Tasks -> 1 .. Cardinality(Tasks)]
  BY <1>1, <1>3 DEF place
<1> QED
  BY <1>4, <1>5 DEF Orderable

\* The invariant gives the exact verdict.
LEMMA SortExact == SortInv => ValidateExact
<1> SUFFICES ASSUME SortInv PROVE ValidateExact
  OBVIOUS
<1>1. order \in Seq(Tasks) /\ Len(order) \in Nat /\ Placed \in SUBSET Tasks
  <2>1. order \in Seq(Tasks)
    BY DEF SortInv, OrderTypeOK
  <2> QED
    BY <2>1, PlacedClosed
<1>2. ASSUME verdict = "ok", NEW t \in Tasks
      PROVE  \E n \in DOMAIN order : order[n] = t /\ Deps[t] \subseteq {order[m] : m \in 1 .. n - 1}
  <2>1. Placed = Tasks
    BY <1>1, <1>2, TasksAssumption, FS_Subset DEF SortInv, OrderSorted, VerdictRight
  <2>2. PICK n \in 1 .. Len(order) : order[n] = t
    BY <2>1 DEF Placed
  <2>3. Deps[order[n]] \subseteq {order[m] : m \in 1 .. n - 1}
    BY <2>2 DEF SortInv, OrderSorted
  <2>4. n \in DOMAIN order
    BY <1>1, <2>2
  <2> QED
    BY <2>2, <2>3, <2>4
<1>3. ASSUME verdict = "cycle", Simple, Orderable(Deps) PROVE FALSE
  <2>1. Placed # Tasks
    BY <1>3 DEF SortInv, OrderSorted, VerdictRight
  <2>2. PICK t \in Tasks \ Placed : Deps[t] \subseteq Placed
    BY <1>1, <1>3, <2>1, DepsType, OrderedProgress
  <2>3. Deps[t] \ Placed = {}
    BY <2>2
  <2>4. degree[t] = 0
    BY <1>3, <2>3, FS_EmptySet DEF SortInv, DegreeCounts, VerdictRight
  <2> QED
    BY <1>3, <2>4 DEF SortInv, QueueFree, VerdictRight
<1> QED
  BY <1>2, <1>3, AcceptedOrderable DEF ValidateExact, SortInv, VerdictRight

\* validate is exact for every graph: it accepts only graphs that have an order and, of those
\* whose lists repeat nothing, it refuses exactly the ones with a missing dependency or a cycle.
THEOREM ValidateCorrect == OrderInit /\ [][Validate]_orderVars => []ValidateExact
<1>1. OrderInit /\ [][Validate]_orderVars => []SortInv
  BY SortInit, SortStep, PTL
<1> QED
  BY <1>1, SortExact, PTL
=============================================================================
