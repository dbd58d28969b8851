----------------------- MODULE AgentDelegationProofs -----------------------
(***************************************************************************)
(* Proofs about AgentDelegation and the ProviderPool it composes: types,   *)
(* the accounting of permits and counters, and what a batch reports.       *)
(***************************************************************************)
EXTENDS AgentDelegation, FiniteSetTheorems, SequenceTheorems, TLAPS

------------------------------------------------------------------------------
(* Counting.                                                                *)

Bit(b) == IF b THEN 1 ELSE 0

\* Any set of callers is finite.
LEMMA CallersFinite ==
    ASSUME NEW S \in SUBSET Callers
    PROVE  IsFiniteSet(S) /\ Cardinality(S) \in Nat
BY ProviderAssumption, FS_Subset, FS_CardinalityType

\* A set of callers without one of them.
LEMMA LessOne ==
    ASSUME NEW S \in SUBSET Callers, NEW c
    PROVE  Cardinality(S \ {c}) = Cardinality(S) - Bit(c \in S)
<1>1. IsFiniteSet(S) /\ Cardinality(S) \in Nat
  BY CallersFinite
<1>2. Cardinality(S \ {c}) = IF c \in S THEN Cardinality(S) - 1 ELSE Cardinality(S)
  BY <1>1, FS_RemoveElement
<1> QED
  BY <1>1, <1>2 DEF Bit

\* Two sets of callers that differ in one caller at most differ in size by it.
LEMMA OneCaller ==
    ASSUME NEW S \in SUBSET Callers, NEW T \in SUBSET Callers, NEW c \in Callers,
           \A d \in Callers \ {c} : d \in S <=> d \in T
    PROVE  Cardinality(T) = Cardinality(S) - Bit(c \in S) + Bit(c \in T)
<1>1. S \ {c} = T \ {c}
  OBVIOUS
<1>2. Cardinality(S) \in Nat /\ Cardinality(T) \in Nat
  BY CallersFinite
<1>3. /\ Cardinality(S \ {c}) = Cardinality(S) - Bit(c \in S)
      /\ Cardinality(T \ {c}) = Cardinality(T) - Bit(c \in T)
  BY LessOne
<1> QED
  BY <1>1, <1>2, <1>3 DEF Bit

------------------------------------------------------------------------------
(* The provider pool.                                                       *)

CallRec ==
    [phase : {"none", "requesting", "streaming"} \cup Waiting \cup Ended,
     route : Nat, attempt : 0..1, provider : Providers \cup {NoProvider},
     fresh : BOOLEAN, shown : BOOLEAN, error : ErrorKinds \cup {"none", "unavailable"}]

\* The pool's variables, without the bounds that the accounting gives them.
PoolShaped ==
    /\ freeze \in [Providers -> FreezeStates]
    /\ global \in Nat
    /\ free \in [Providers -> Nat]
    /\ active \in [Providers -> Int]
    /\ dropped \in [Providers -> Nat]
    /\ errors \in 0..MaxErrors
    /\ call \in [Callers -> CallRec]

\* A call is on one of its caller's routes, and knows its provider once it has selected one.
Routed(c) ==
    /\ call[c].route \in DOMAIN Routes[c]
    /\ call[c].phase \in {"global", "provider", "requesting", "streaming"} =>
         call[c].provider \in Providers

\* The calls that hold a global permit, that hold one of p, that p works for.
GlobalHolders == {c \in Callers : HoldsGlobal(c)}
HoldersOf(p)  == {c \in Callers : HoldsProvider(c, p)}
FlyingAt(p)   == {c \in Callers : InFlight(c, p)}

PoolCounts ==
    /\ global + Cardinality(GlobalHolders) = MaxGlobal
    /\ \A p \in Providers :
          /\ free[p] + Cardinality(HoldersOf(p)) = MaxConcurrency[p]
          /\ active[p] = dropped[p] + Cardinality(FlyingAt(p))

PoolInv == PoolShaped /\ PoolCounts /\ \A c \in Callers : Routed(c)

\* A step of one caller's call: the permits and counters follow what it holds.
Balanced(c) ==
    /\ call' \in [Callers -> CallRec]
    /\ \A d \in Callers \ {c} : call'[d] = call[d]
    /\ Routed(c)'
    /\ global' \in Nat
    /\ global' = global + Bit(HoldsGlobal(c)) - Bit(HoldsGlobal(c)')
    /\ free' \in [Providers -> Nat] /\ active' \in [Providers -> Int]
    /\ dropped' \in [Providers -> Nat]
    /\ \A p \in Providers :
          /\ free'[p] = free[p] + Bit(HoldsProvider(c, p)) - Bit(HoldsProvider(c, p)')
          /\ active'[p] - dropped'[p]
                = active[p] - dropped[p] - Bit(InFlight(c, p)) + Bit(InFlight(c, p)')
    /\ freeze' \in [Providers -> FreezeStates] /\ errors' \in 0..MaxErrors

\* The sets of callers counted are finite.
LEMMA HoldersFinite ==
    /\ GlobalHolders \in SUBSET Callers /\ Cardinality(GlobalHolders) \in Nat
    /\ \A p \in Providers :
          /\ HoldersOf(p) \in SUBSET Callers /\ Cardinality(HoldersOf(p)) \in Nat
          /\ FlyingAt(p) \in SUBSET Callers /\ Cardinality(FlyingAt(p)) \in Nat
<1>1. GlobalHolders \in SUBSET Callers
  BY DEF GlobalHolders
<1>2. \A p \in Providers : HoldersOf(p) \in SUBSET Callers /\ FlyingAt(p) \in SUBSET Callers
  BY DEF HoldersOf, FlyingAt
<1> QED
  BY <1>1, <1>2, CallersFinite

\* The accounting bounds the permits and the counters.
LEMMA PoolTyped ==
    ASSUME PoolInv
    PROVE  PoolTypeOK
<1>1. global \in 0..MaxGlobal
  BY HoldersFinite, ProviderAssumption DEF PoolInv, PoolShaped, PoolCounts
<1>2. ASSUME NEW p \in Providers
      PROVE  free[p] <= MaxConcurrency[p] /\ active[p] \in Nat
  <2>1. /\ free[p] \in Nat /\ MaxConcurrency[p] \in Nat /\ dropped[p] \in Nat
        /\ free[p] + Cardinality(HoldersOf(p)) = MaxConcurrency[p]
        /\ active[p] = dropped[p] + Cardinality(FlyingAt(p))
    BY ProviderAssumption DEF PoolInv, PoolShaped, PoolCounts
  <2>2. Cardinality(HoldersOf(p)) \in Nat /\ Cardinality(FlyingAt(p)) \in Nat
    BY HoldersFinite
  <2> QED
    BY <2>1, <2>2
<1>3. active \in [Providers -> Nat]
  BY <1>2 DEF PoolInv, PoolShaped
<1> QED
  BY <1>1, <1>2, <1>3 DEF PoolInv, PoolShaped, PoolTypeOK, CallRec

\* What the counts say of the sets the model writes out.
LEMMA PoolCounted == PoolAccounted <=> PoolCounts
BY DEF PoolAccounted, PoolCounts, GlobalHolders, HoldersOf, FlyingAt

\* Nobody calls at first.
LEMMA PoolStarts ==
    ASSUME PoolInit
    PROVE  PoolInv
<1>1. PoolShaped
  BY ProviderAssumption
     DEF PoolInit, PoolShaped, CallRec, NoCall, FreezeStates, ErrorKinds, Waiting, Ended
<1>2. \A c \in Callers : Routed(c)
  <2> SUFFICES ASSUME NEW c \in Callers
               PROVE  Routed(c)
    OBVIOUS
  <2>1. 1 \in DOMAIN Routes[c]
    BY ProviderAssumption
  <2> QED
    BY <2>1 DEF PoolInit, Routed, NoCall
<1>3. /\ GlobalHolders = {}
      /\ \A p \in Providers : HoldersOf(p) = {} /\ FlyingAt(p) = {}
  BY DEF PoolInit, HoldsGlobal, HoldsProvider, InFlight, NoCall, GlobalHolders, HoldersOf, FlyingAt
<1>4. Cardinality({}) = 0
  BY FS_EmptySet
<1>5. global = MaxGlobal /\ MaxGlobal + 0 = MaxGlobal
  BY ProviderAssumption DEF PoolInit
<1>6. ASSUME NEW p \in Providers
      PROVE  free[p] + 0 = MaxConcurrency[p] /\ active[p] = dropped[p] + 0
  BY ProviderAssumption DEF PoolInit
<1>7. PoolCounts
  BY <1>3, <1>4, <1>5, <1>6 DEF PoolCounts
<1> QED
  BY <1>1, <1>2, <1>7 DEF PoolInv

\* A balanced step of one call keeps the pool's invariant.
LEMMA PoolStep ==
    ASSUME PoolInv, NEW c \in Callers, Balanced(c)
    PROVE  PoolInv'
<1>1. PoolShaped'
  BY DEF PoolInv, PoolShaped, Balanced
<1>2. \A d \in Callers : Routed(d)'
  BY DEF PoolInv, Routed, Balanced
<1>3. ASSUME NEW d \in Callers \ {c}
      PROVE  /\ HoldsGlobal(d)' <=> HoldsGlobal(d)
             /\ \A p \in Providers : /\ HoldsProvider(d, p)' <=> HoldsProvider(d, p)
                                     /\ InFlight(d, p)' <=> InFlight(d, p)
  BY <1>3 DEF Balanced, HoldsGlobal, HoldsProvider, InFlight
<1>4. /\ GlobalHolders' \in SUBSET Callers /\ Cardinality(GlobalHolders') \in Nat
      /\ \A p \in Providers :
            /\ HoldersOf(p)' \in SUBSET Callers /\ Cardinality(HoldersOf(p)') \in Nat
            /\ FlyingAt(p)' \in SUBSET Callers /\ Cardinality(FlyingAt(p)') \in Nat
  <2>1. GlobalHolders' \in SUBSET Callers
    BY DEF GlobalHolders
  <2>2. \A p \in Providers : HoldersOf(p)' \in SUBSET Callers /\ FlyingAt(p)' \in SUBSET Callers
    BY DEF HoldersOf, FlyingAt
  <2> QED
    BY <2>1, <2>2, CallersFinite
<1>5. global' + Cardinality(GlobalHolders') = MaxGlobal
  <2>1. /\ c \in GlobalHolders <=> HoldsGlobal(c)
        /\ c \in GlobalHolders' <=> HoldsGlobal(c)'
        /\ \A d \in Callers \ {c} : d \in GlobalHolders <=> d \in GlobalHolders'
    BY <1>3 DEF GlobalHolders
  <2>2. Cardinality(GlobalHolders')
          = Cardinality(GlobalHolders) - Bit(c \in GlobalHolders) + Bit(c \in GlobalHolders')
    BY <1>4, <2>1, HoldersFinite, OneCaller
  <2> QED
    BY <1>4, <2>1, <2>2, HoldersFinite, ProviderAssumption
       DEF PoolInv, PoolShaped, PoolCounts, Balanced, Bit
<1>6. ASSUME NEW p \in Providers
      PROVE  /\ free'[p] + Cardinality(HoldersOf(p)') = MaxConcurrency[p]
             /\ active'[p] = dropped'[p] + Cardinality(FlyingAt(p)')
  <2>1. /\ c \in HoldersOf(p) <=> HoldsProvider(c, p)
        /\ c \in HoldersOf(p)' <=> HoldsProvider(c, p)'
        /\ \A d \in Callers \ {c} : d \in HoldersOf(p) <=> d \in HoldersOf(p)'
    BY <1>3 DEF HoldersOf
  <2>2. /\ c \in FlyingAt(p) <=> InFlight(c, p)
        /\ c \in FlyingAt(p)' <=> InFlight(c, p)'
        /\ \A d \in Callers \ {c} : d \in FlyingAt(p) <=> d \in FlyingAt(p)'
    BY <1>3 DEF FlyingAt
  <2>3. HoldersOf(p) \in SUBSET Callers /\ FlyingAt(p) \in SUBSET Callers
    BY HoldersFinite
  <2>4. Cardinality(HoldersOf(p)')
          = Cardinality(HoldersOf(p)) - Bit(c \in HoldersOf(p)) + Bit(c \in HoldersOf(p)')
    BY <1>4, <2>1, <2>3, OneCaller
  <2>5. Cardinality(FlyingAt(p)')
          = Cardinality(FlyingAt(p)) - Bit(c \in FlyingAt(p)) + Bit(c \in FlyingAt(p)')
    BY <1>4, <2>2, <2>3, OneCaller
  <2>6. /\ Cardinality(HoldersOf(p)') \in Nat /\ Cardinality(FlyingAt(p)') \in Nat
        /\ Cardinality(HoldersOf(p)) \in Nat /\ Cardinality(FlyingAt(p)) \in Nat
    BY <1>4, HoldersFinite
  <2>7. /\ free[p] \in Nat /\ free'[p] \in Nat /\ active[p] \in Int /\ active'[p] \in Int
        /\ dropped[p] \in Nat /\ dropped'[p] \in Nat /\ MaxConcurrency[p] \in Nat
        /\ free[p] + Cardinality(HoldersOf(p)) = MaxConcurrency[p]
        /\ active[p] = dropped[p] + Cardinality(FlyingAt(p))
    BY ProviderAssumption DEF PoolInv, PoolShaped, PoolCounts, Balanced
  <2>8. /\ free'[p] = free[p] + Bit(HoldsProvider(c, p)) - Bit(HoldsProvider(c, p)')
        /\ active'[p] - dropped'[p]
              = active[p] - dropped[p] - Bit(InFlight(c, p)) + Bit(InFlight(c, p)')
    BY DEF Balanced
  <2>9. free'[p] + Cardinality(HoldersOf(p)') = MaxConcurrency[p]
    BY <2>1, <2>4, <2>6, <2>7, <2>8 DEF Bit
  <2>10. active'[p] = dropped'[p] + Cardinality(FlyingAt(p)')
    BY <2>2, <2>5, <2>6, <2>7, <2>8 DEF Bit
  <2> QED
    BY <2>9, <2>10
<1>7. PoolCounts'
  BY <1>5, <1>6 DEF PoolCounts
<1> QED
  BY <1>1, <1>2, <1>7 DEF PoolInv

------------------------------------------------------------------------------
(* The steps of a call are balanced.                                        *)

\* A step that moves the call of c between phases that hold nothing, or hold the same.
LEMMA SameHoldings ==
    ASSUME PoolInv, NEW c \in Callers, NEW x \in CallRec,
           call' = [call EXCEPT ![c] = x],
           x.route \in DOMAIN Routes[c],
           x.phase \in {"global", "provider", "requesting", "streaming"} => x.provider \in Providers,
           call[c].phase \notin {"provider", "requesting", "streaming"},
           x.phase \notin {"provider", "requesting", "streaming"},
           freeze' \in [Providers -> FreezeStates],
           UNCHANGED <<global, free, active, errors, dropped>>
    PROVE  Balanced(c)
<1>1. call' \in [Callers -> CallRec] /\ call'[c] = x /\ \A d \in Callers \ {c} : call'[d] = call[d]
  BY DEF PoolInv, PoolShaped
<1>2. Routed(c)'
  BY <1>1 DEF Routed
<1>3. /\ ~HoldsGlobal(c) /\ ~HoldsGlobal(c)'
      /\ \A p \in Providers : /\ ~HoldsProvider(c, p) /\ ~HoldsProvider(c, p)'
                              /\ ~InFlight(c, p) /\ ~InFlight(c, p)'
  BY <1>1 DEF HoldsGlobal, HoldsProvider, InFlight
<1> QED
  BY <1>1, <1>2, <1>3 DEF PoolInv, PoolShaped, Balanced, Bit

\* The record of a call that is to be routed again.
Rerouted(r, route, attempt, error) ==
    [r EXCEPT !.phase = "routing", !.route = route, !.attempt = attempt,
              !.provider = NoProvider, !.error = error]

\* It is a call.
LEMMA RoutedAgain ==
    ASSUME NEW r \in CallRec, NEW route \in Nat, NEW attempt \in 0..1,
           NEW error \in ErrorKinds \cup {"none", "unavailable"}
    PROVE  /\ Rerouted(r, route, attempt, error) \in CallRec
           /\ Rerouted(r, route, attempt, error).route = route
           /\ Rerouted(r, route, attempt, error).phase = "routing"
<1> DEFINE x == Rerouted(r, route, attempt, error)
<1>1. "routing" \in Waiting
  BY DEF Waiting
<1>2. /\ x.phase = "routing" /\ x.route = route /\ x.attempt = attempt /\ x.provider = NoProvider
      /\ x.fresh = r.fresh /\ x.shown = r.shown /\ x.error = error
  BY DEF CallRec, Rerouted
<1>3. x = [f \in {"phase", "route", "attempt", "provider", "fresh", "shown", "error"} |-> x[f]]
  <2>1. DOMAIN r = {"phase", "route", "attempt", "provider", "fresh", "shown", "error"}
    BY DEF CallRec
  <2> QED
    BY <2>1 DEF Rerouted
<1>4. r.fresh \in BOOLEAN /\ r.shown \in BOOLEAN
  BY DEF CallRec
<1> QED
  BY <1>1, <1>2, <1>3, <1>4 DEF CallRec

\* The record of a call after a route has failed.
LEMMA NextRouteRec ==
    ASSUME PoolInv, NEW c \in Callers, NEW error \in ErrorKinds \cup {"unavailable"}
    PROVE  /\ NextRoute(c, error) \in CallRec
           /\ NextRoute(c, error).route \in DOMAIN Routes[c]
           /\ NextRoute(c, error).phase \in {"routing", "failed"}
<1>1. call[c] \in CallRec /\ call[c].route \in DOMAIN Routes[c]
  BY DEF PoolInv, PoolShaped, Routed
<1>2. Routes[c] \in Seq([serves : SUBSET Providers, pinned : BOOLEAN])
  BY ProviderAssumption
<1>3. call[c].route + 1 \in Nat /\ (call[c].route < Len(Routes[c]) => call[c].route + 1 \in DOMAIN Routes[c])
  BY <1>1, <1>2 DEF CallRec
<1>4. PICK last \in ErrorKinds \cup {"none", "unavailable"} :
         last = IF call[c].error = "none" \/ error # "unavailable" THEN error ELSE call[c].error
  BY <1>1 DEF CallRec
<1>5. NextRoute(c, error) =
        IF call[c].route < Len(Routes[c])
        THEN [call[c] EXCEPT !.phase = "routing", !.route = call[c].route + 1, !.attempt = 0,
                             !.provider = NoProvider, !.error = last]
        ELSE [call[c] EXCEPT !.phase = "failed", !.provider = NoProvider, !.error = last]
  BY <1>4 DEF NextRoute
<1>6. CASE call[c].route < Len(Routes[c])
  <2>1. NextRoute(c, error) = Rerouted(call[c], call[c].route + 1, 0, last)
    BY <1>5, <1>6 DEF Rerouted
  <2>2. /\ Rerouted(call[c], call[c].route + 1, 0, last) \in CallRec
        /\ Rerouted(call[c], call[c].route + 1, 0, last).route = call[c].route + 1
        /\ Rerouted(call[c], call[c].route + 1, 0, last).phase = "routing"
    <3>1. PICK route \in Nat : route = call[c].route + 1
      BY <1>3
    <3>2. PICK rec \in CallRec : rec = call[c]
      BY <1>1
    <3>3. /\ Rerouted(rec, route, 0, last) \in CallRec
          /\ Rerouted(rec, route, 0, last).route = route
          /\ Rerouted(rec, route, 0, last).phase = "routing"
      <4>1. 0 \in 0..1
        OBVIOUS
      <4> QED
        BY <4>1, RoutedAgain
    <3> QED
      BY <3>1, <3>2, <3>3
  <2> QED
    BY <1>3, <1>6, <2>1, <2>2
<1>7. CASE ~(call[c].route < Len(Routes[c]))
  <2>1. PICK x : x = [call[c] EXCEPT !.phase = "failed", !.provider = NoProvider]
    OBVIOUS
  <2>2. x \in CallRec /\ x.route = call[c].route /\ x.phase = "failed"
    BY <1>1, <2>1 DEF CallRec, Ended
  <2>3. NextRoute(c, error) = [x EXCEPT !.error = last]
    BY <1>1, <1>5, <1>7, <2>1 DEF CallRec
  <2>4. [x EXCEPT !.error = last] \in CallRec
    BY <1>4, <2>2 DEF CallRec
  <2>5. [x EXCEPT !.error = last].route = x.route /\ [x EXCEPT !.error = last].phase = x.phase
    BY <2>2 DEF CallRec
  <2> QED
    BY <1>1, <2>2, <2>3, <2>4, <2>5
<1> QED
  BY <1>6, <1>7

\* What is served by the route of a call.
LEMMA RouteServes ==
    ASSUME PoolInv, NEW c \in Callers
    PROVE  Route(c).serves \subseteq Providers
<1>1. Routes[c] \in Seq([serves : SUBSET Providers, pinned : BOOLEAN])
  BY ProviderAssumption
<1>2. call[c].route \in 1..Len(Routes[c])
  BY <1>1 DEF PoolInv, Routed
<1>3. Routes[c][call[c].route] \in [serves : SUBSET Providers, pinned : BOOLEAN]
  BY <1>1, <1>2, ElementOfSeq
<1> QED
  BY <1>3 DEF Route

\* A call picks a provider, or goes to its next route.
LEMMA SelectBalanced ==
    ASSUME PoolInv, NEW c \in Callers, Select(c)
    PROVE  Balanced(c)
<1>1. /\ call \in [Callers -> CallRec] /\ call[c] \in CallRec /\ call[c].phase = "routing"
      /\ call[c].route \in DOMAIN Routes[c]
      /\ freeze \in [Providers -> FreezeStates]
      /\ UNCHANGED <<global, free, active, errors, dropped>>
  BY DEF PoolInv, PoolShaped, Routed, Select
<1>2. Thawed \in [Providers -> FreezeStates]
  BY <1>1 DEF Thawed, FreezeStates
<1>3. freeze' \in [Providers -> FreezeStates]
  BY <1>1, <1>2 DEF Select
<1>4. CASE \E p \in Route(c).serves :
             call' = [call EXCEPT ![c].phase = "global", ![c].provider = p]
  <2>1. PICK p \in Providers : call' = [call EXCEPT ![c].phase = "global", ![c].provider = p]
    BY <1>4, RouteServes
  <2>2. call' = [call EXCEPT ![c] = [call[c] EXCEPT !.phase = "global", !.provider = p]]
    BY <1>1, <2>1
  <2>3. /\ [call[c] EXCEPT !.phase = "global", !.provider = p] \in CallRec
        /\ [call[c] EXCEPT !.phase = "global", !.provider = p].route = call[c].route
        /\ [call[c] EXCEPT !.phase = "global", !.provider = p].phase = "global"
        /\ [call[c] EXCEPT !.phase = "global", !.provider = p].provider = p
    BY <1>1 DEF CallRec, Waiting
  <2> QED
    BY <1>1, <1>3, <2>2, <2>3, SameHoldings
<1>5. CASE call' = [call EXCEPT ![c] = NextRoute(c, "unavailable")]
  <2>1. /\ NextRoute(c, "unavailable") \in CallRec
        /\ NextRoute(c, "unavailable").route \in DOMAIN Routes[c]
        /\ NextRoute(c, "unavailable").phase \in {"routing", "failed"}
    BY NextRouteRec
  <2> QED
    BY <1>1, <1>3, <1>5, <2>1, SameHoldings
<1> QED
  BY <1>4, <1>5 DEF Select, Candidates

\* The record of a call that goes to another phase.
LEMMA GotoRec ==
    ASSUME PoolInv, NEW c \in Callers, NEW phase \in {"none", "requesting", "streaming"} \cup Waiting \cup Ended,
           Goto(c, phase)
    PROVE  /\ call' \in [Callers -> CallRec] /\ \A d \in Callers \ {c} : call'[d] = call[d]
           /\ call'[c].phase = phase /\ call'[c].provider = call[c].provider
           /\ call'[c].route = call[c].route
<1>1. call \in [Callers -> CallRec]
  BY DEF PoolInv, PoolShaped
<1> QED
  BY <1>1 DEF Goto, CallRec

\* A call takes the global permit.
LEMMA AcquireGlobalBalanced ==
    ASSUME PoolInv, NEW c \in Callers, AcquireGlobal(c)
    PROVE  Balanced(c)
<1>1. /\ call' \in [Callers -> CallRec] /\ \A d \in Callers \ {c} : call'[d] = call[d]
      /\ call'[c].phase = "provider" /\ call'[c].provider = call[c].provider
      /\ call'[c].route = call[c].route
  BY GotoRec DEF AcquireGlobal, Waiting
<1>2. Routed(c)'
  BY <1>1 DEF AcquireGlobal, PoolInv, Routed
<1>3. /\ ~HoldsGlobal(c) /\ HoldsGlobal(c)'
      /\ \A p \in Providers : /\ ~HoldsProvider(c, p) /\ ~HoldsProvider(c, p)'
                              /\ ~InFlight(c, p) /\ ~InFlight(c, p)'
  BY <1>1 DEF AcquireGlobal, HoldsGlobal, HoldsProvider, InFlight
<1> QED
  BY <1>1, <1>2, <1>3 DEF AcquireGlobal, PoolInv, PoolShaped, Balanced, Bit

\* A call takes its provider's permit and is counted.
LEMMA AcquireProviderBalanced ==
    ASSUME PoolInv, NEW c \in Callers, AcquireProvider(c)
    PROVE  Balanced(c)
<1>1. /\ call' \in [Callers -> CallRec] /\ \A d \in Callers \ {c} : call'[d] = call[d]
      /\ call'[c].phase = "requesting" /\ call'[c].provider = call[c].provider
      /\ call'[c].route = call[c].route
  BY GotoRec DEF AcquireProvider
<1>2. Routed(c)' /\ call[c].provider \in Providers
  BY <1>1 DEF AcquireProvider, PoolInv, Routed
<1>3. /\ HoldsGlobal(c) /\ HoldsGlobal(c)'
      /\ \A p \in Providers : /\ ~HoldsProvider(c, p) /\ ~InFlight(c, p)
                              /\ HoldsProvider(c, p)' <=> p = call[c].provider
                              /\ InFlight(c, p)' <=> p = call[c].provider
  BY <1>1 DEF AcquireProvider, HoldsGlobal, HoldsProvider, InFlight
<1> QED
  BY <1>1, <1>2, <1>3 DEF AcquireProvider, PoolInv, PoolShaped, Balanced, Bit

\* A request that returns gives both permits back; a stream goes on counted.
LEMMA RespondBalanced ==
    ASSUME PoolInv, NEW c \in Callers, Respond(c) \/ StreamStarts(c)
    PROVE  Balanced(c)
<1> DEFINE phase == call'[c].phase
<1>1. /\ call' \in [Callers -> CallRec] /\ \A d \in Callers \ {c} : call'[d] = call[d]
      /\ phase \in {"answered", "streaming"} /\ call'[c].provider = call[c].provider
      /\ call'[c].route = call[c].route
      /\ phase = "answered" => Leave(c)
      /\ phase = "streaming" => UNCHANGED active
  <2>1. CASE Respond(c)
    BY <2>1, GotoRec DEF Respond, Ended
  <2>2. CASE StreamStarts(c)
    BY <2>2, GotoRec DEF StreamStarts
  <2> QED
    BY <2>1, <2>2
<1>2. /\ call[c].phase = "requesting" /\ ReturnPermits(c) /\ UNCHANGED <<freeze, errors, dropped>>
      /\ call[c].provider \in Providers
  BY DEF Respond, StreamStarts, PoolInv, Routed
<1>3. Routed(c)'
  BY <1>1, <1>2 DEF PoolInv, Routed
<1>4. /\ HoldsGlobal(c) /\ ~HoldsGlobal(c)'
      /\ \A p \in Providers : /\ HoldsProvider(c, p) <=> p = call[c].provider
                              /\ InFlight(c, p) <=> p = call[c].provider
                              /\ ~HoldsProvider(c, p)'
                              /\ InFlight(c, p)' <=> phase = "streaming" /\ p = call[c].provider
  BY <1>1, <1>2 DEF HoldsGlobal, HoldsProvider, InFlight
<1> HIDE DEF phase
<1> QED
  BY <1>1, <1>2, <1>3, <1>4 DEF ReturnPermits, Leave, PoolInv, PoolShaped, Balanced, Bit

\* A stream shows something.
LEMMA DeltaBalanced ==
    ASSUME PoolInv, NEW c \in Callers, Delta(c)
    PROVE  Balanced(c)
<1>1. /\ call' \in [Callers -> CallRec] /\ \A d \in Callers \ {c} : call'[d] = call[d]
      /\ call'[c].phase = call[c].phase /\ call'[c].provider = call[c].provider
      /\ call'[c].route = call[c].route
  <2>1. call \in [Callers -> CallRec] /\ call[c] \in CallRec
    BY DEF PoolInv, PoolShaped
  <2>2. PICK x \in CallRec : x = [call[c] EXCEPT !.shown = TRUE]
    BY <2>1 DEF CallRec
  <2>3. x.phase = call[c].phase /\ x.provider = call[c].provider /\ x.route = call[c].route
    BY <2>1, <2>2 DEF CallRec
  <2>4. call' = [call EXCEPT ![c] = x]
    BY <2>1, <2>2 DEF Delta
  <2> QED
    BY <2>1, <2>3, <2>4
<1>2. Routed(c)'
  BY <1>1 DEF PoolInv, Routed
<1>3. /\ HoldsGlobal(c) <=> HoldsGlobal(c)'
      /\ \A p \in Providers : /\ HoldsProvider(c, p) <=> HoldsProvider(c, p)'
                              /\ InFlight(c, p) <=> InFlight(c, p)'
  BY <1>1 DEF HoldsGlobal, HoldsProvider, InFlight
<1> QED
  BY <1>1, <1>2, <1>3 DEF Delta, PoolInv, PoolShaped, Balanced, Bit

\* A stream that ends is counted no more.
LEMMA StreamEndsBalanced ==
    ASSUME PoolInv, NEW c \in Callers, StreamEnds(c)
    PROVE  Balanced(c)
<1>1. /\ call' \in [Callers -> CallRec] /\ \A d \in Callers \ {c} : call'[d] = call[d]
      /\ call'[c].phase = "answered" /\ call'[c].provider = call[c].provider
      /\ call'[c].route = call[c].route
  BY GotoRec DEF StreamEnds, Ended
<1>2. Routed(c)' /\ call[c].provider \in Providers
  BY <1>1 DEF StreamEnds, PoolInv, Routed
<1>3. /\ ~HoldsGlobal(c) /\ ~HoldsGlobal(c)'
      /\ \A p \in Providers : /\ ~HoldsProvider(c, p) /\ ~HoldsProvider(c, p)' /\ ~InFlight(c, p)'
                              /\ InFlight(c, p) <=> p = call[c].provider
  BY <1>1 DEF StreamEnds, HoldsGlobal, HoldsProvider, InFlight
<1> QED
  BY <1>1, <1>2, <1>3 DEF StreamEnds, Leave, PoolInv, PoolShaped, Balanced, Bit

\* A failure gives back what the call holds, wherever call_llm goes on.
LEMMA FailBalanced ==
    ASSUME PoolInv, NEW c \in Callers, Fail(c)
    PROVE  Balanced(c)
<1>1. PICK error \in ErrorKinds : /\ freeze' = Frozen(call[c].provider, error)
                                  /\ call' = [call EXCEPT ![c] = AfterError(c, error)]
  BY DEF Fail
<1>2. call[c] \in CallRec /\ call \in [Callers -> CallRec] /\ call[c].route \in DOMAIN Routes[c]
  BY DEF PoolInv, PoolShaped, Routed
<1>3. /\ AfterError(c, error) \in CallRec
      /\ AfterError(c, error).route \in DOMAIN Routes[c]
      /\ AfterError(c, error).phase \in {"routing", "failed"}
  <2>1. CASE ~(call[c].fresh /\ error = "transient")
    BY <1>2, <2>1 DEF AfterError, CallRec, Ended
  <2>2. CASE call[c].fresh /\ error = "transient" /\ call[c].attempt = 0
    <3>1. AfterError(c, error) = [call[c] EXCEPT !.phase = "routing", !.attempt = 1,
                                                 !.provider = NoProvider, !.error = error]
      BY <2>2 DEF AfterError
    <3>2. AfterError(c, error) = Rerouted(call[c], call[c].route, 1, error)
      BY <1>2, <3>1 DEF CallRec, Rerouted
    <3>3. call[c].route \in Nat
      BY <1>2 DEF CallRec
    <3>4. PICK route \in Nat : route = call[c].route
      BY <3>3
    <3>5. PICK rec \in CallRec : rec = call[c]
      BY <1>2
    <3>6. /\ Rerouted(rec, route, 1, error) \in CallRec
          /\ Rerouted(rec, route, 1, error).route = route
          /\ Rerouted(rec, route, 1, error).phase = "routing"
      BY <1>1, RoutedAgain
    <3> QED
      BY <1>2, <3>2, <3>4, <3>5, <3>6
  <2>3. CASE call[c].fresh /\ error = "transient" /\ call[c].attempt # 0
    BY <1>2, <2>3, NextRouteRec DEF AfterError
  <2> QED
    BY <2>1, <2>2, <2>3
<1>4. /\ call' \in [Callers -> CallRec] /\ \A d \in Callers \ {c} : call'[d] = call[d]
      /\ call'[c].phase \in {"routing", "failed"} /\ Routed(c)'
  BY <1>1, <1>2, <1>3 DEF Routed
<1>5. freeze' \in [Providers -> FreezeStates] /\ call[c].provider \in Providers
  BY <1>1 DEF Frozen, FreezeStates, ErrorKinds, PoolInv, PoolShaped, Fail, Routed
<1>6. errors' \in 0..MaxErrors
  BY ProviderAssumption DEF Fail, PoolInv, PoolShaped
<1>7. /\ HoldsGlobal(c) <=> call[c].phase = "requesting"
      /\ ~HoldsGlobal(c)'
      /\ \A p \in Providers : /\ HoldsProvider(c, p) <=> call[c].phase = "requesting" /\ p = call[c].provider
                              /\ InFlight(c, p) <=> p = call[c].provider
                              /\ ~HoldsProvider(c, p)' /\ ~InFlight(c, p)'
  BY <1>4 DEF Fail, HoldsGlobal, HoldsProvider, InFlight
<1>8. /\ Leave(c) /\ UNCHANGED dropped
      /\ call[c].phase = "requesting" => ReturnPermits(c)
      /\ call[c].phase # "requesting" => UNCHANGED <<global, free>>
  BY DEF Fail
<1> QED
  BY <1>4, <1>5, <1>6, <1>7, <1>8 DEF ReturnPermits, Leave, PoolInv, PoolShaped, Balanced, Bit

\* A dropped request gives back what it holds, and stays counted if it was not a stream.
LEMMA CancelCallBalanced ==
    ASSUME PoolInv, NEW c \in Callers, CancelCall(c)
    PROVE  Balanced(c)
<1>1. /\ call' \in [Callers -> CallRec] /\ \A d \in Callers \ {c} : call'[d] = call[d]
      /\ call'[c].phase = "cancelled" /\ call'[c].provider = call[c].provider
      /\ call'[c].route = call[c].route
  BY GotoRec DEF CancelCall, Ended
<1>2. Routed(c)' /\ (call[c].phase \in {"requesting", "streaming"} => call[c].provider \in Providers)
  BY <1>1 DEF PoolInv, Routed
<1>3. /\ HoldsGlobal(c) <=> call[c].phase \in {"provider", "requesting"}
      /\ ~HoldsGlobal(c)'
      /\ \A p \in Providers :
            /\ HoldsProvider(c, p) <=> call[c].phase = "requesting" /\ p = call[c].provider
            /\ InFlight(c, p) <=> call[c].phase \in {"requesting", "streaming"} /\ p = call[c].provider
            /\ ~HoldsProvider(c, p)' /\ ~InFlight(c, p)'
  BY <1>1 DEF HoldsGlobal, HoldsProvider, InFlight
<1>4. /\ global' = IF call[c].phase \in {"provider", "requesting"} THEN global + 1 ELSE global
      /\ free' = IF call[c].phase = "requesting" THEN [free EXCEPT ![call[c].provider] = @ + 1] ELSE free
      /\ call[c].phase = "streaming" => Leave(c)
      /\ call[c].phase # "streaming" => UNCHANGED active
      /\ dropped' = IF call[c].phase = "requesting"
                    THEN [dropped EXCEPT ![call[c].provider] = @ + 1] ELSE dropped
      /\ UNCHANGED <<freeze, errors>>
  BY DEF CancelCall
<1> QED
  BY <1>1, <1>2, <1>3, <1>4 DEF Leave, PoolInv, PoolShaped, Balanced, Bit

\* Every step of a call is balanced.
LEMMA ConverseBalanced ==
    ASSUME PoolInv, NEW c \in Callers, Converse(c) \/ Fail(c) \/ CancelCall(c)
    PROVE  Balanced(c)
BY SelectBalanced, AcquireGlobalBalanced, AcquireProviderBalanced, RespondBalanced, DeltaBalanced,
   StreamEndsBalanced, FailBalanced, CancelCallBalanced DEF Converse

\* A caller asks, or takes the end of its call in.
LEMMA AskBalanced ==
    ASSUME PoolInv, NEW c \in Callers, NEW fresh \in BOOLEAN, call[c].phase \in {"none"} \cup Ended,
           Ask(c, fresh) \/ call' = [call EXCEPT ![c] = NoCall],
           UNCHANGED <<freeze, global, free, active, errors, dropped>>
    PROVE  Balanced(c)
<1>1. Routes[c] \in Seq([serves : SUBSET Providers, pinned : BOOLEAN]) /\ Routes[c] # <<>>
  BY ProviderAssumption
<1>2. 1 \in DOMAIN Routes[c]
  BY <1>1
<1>3. /\ NoCall \in CallRec /\ NoCall.route = 1 /\ NoCall.phase = "none"
      /\ [NoCall EXCEPT !.phase = "routing", !.fresh = fresh] \in CallRec
      /\ [NoCall EXCEPT !.phase = "routing", !.fresh = fresh].route = 1
      /\ [NoCall EXCEPT !.phase = "routing", !.fresh = fresh].phase = "routing"
  <2>1. NoCall \in CallRec /\ NoCall.route = 1 /\ NoCall.phase = "none"
    BY DEF NoCall, CallRec
  <2>2. "routing" \in Waiting
    BY DEF Waiting
  <2> QED
    BY <2>1, <2>2 DEF CallRec
<1>4. call[c].phase \notin {"provider", "requesting", "streaming"}
  BY DEF Ended
<1>5. freeze' \in [Providers -> FreezeStates]
  BY DEF PoolInv, PoolShaped
<1>6. CASE Ask(c, fresh)
  BY <1>2, <1>3, <1>4, <1>5, <1>6, SameHoldings DEF Ask
<1>7. CASE call' = [call EXCEPT ![c] = NoCall]
  BY <1>2, <1>3, <1>4, <1>5, <1>7, SameHoldings
<1> QED
  BY <1>6, <1>7

\* The freezes end without touching a call.
LEMMA ThawKeeps ==
    ASSUME PoolInv, NEW p \in Providers, Expire(p) \/ CheckAndThaw(p)
    PROVE  PoolInv'
<1>0. PoolShaped /\ MaxErrors \in Nat
  BY ProviderAssumption DEF PoolInv
<1>1. UNCHANGED <<global, free, active, call, dropped>> /\ errors' \in 0 .. MaxErrors
  <2>1. UNCHANGED <<global, free, active, call, dropped>>
    BY DEF Expire, CheckAndThaw
  <2>2. errors' = errors \/ (errors < MaxErrors /\ errors' = errors + 1)
    BY DEF Expire, CheckAndThaw
  <2>3. errors' \in 0 .. MaxErrors
    BY <1>0, <2>2 DEF PoolShaped
  <2> QED
    BY <2>1, <2>3
<1>2. freeze' \in [Providers -> FreezeStates]
  <2>1. \E s \in FreezeStates : freeze' = [freeze EXCEPT ![p] = s]
    BY DEF Expire, CheckAndThaw, FreezeStates
  <2> QED
    BY <1>0, <2>1 DEF PoolShaped
<1>3. PoolShaped'
  BY <1>0, <1>1, <1>2 DEF PoolShaped
<1>4. PoolCounts' /\ \A c \in Callers : Routed(c)'
  BY <1>1 DEF PoolInv, PoolCounts, GlobalHolders, HoldersOf, FlyingAt, HoldsGlobal, HoldsProvider,
              InFlight, Routed
<1> QED
  BY <1>3, <1>4 DEF PoolInv

------------------------------------------------------------------------------
(* The runs and their batches.                                              *)

RunRec == [phase : Phases, iteration : Nat, fresh : BOOLEAN, again : BOOLEAN]
Marks  == Results \cup {"none"}
BatchRec == [items : Seq(Callers), admitted : Nat, swarm : BOOLEAN,
             results : UNION {[S -> Marks] : S \in SUBSET Callers}]

Items(r)  == DOMAIN batch[r].results
Active(c) == run[c].phase = "waiting" \/ Running(c)
Busy(r)   == {c \in Items(r) : Active(c)}

AgentShaped ==
    /\ run \in [Callers -> RunRec]
    /\ batch \in [Callers -> BatchRec]
    /\ permits \in Nat
    /\ tracked \subseteq Callers
    /\ cancelled \subseteq Turns

\* The items of a batch are different children of the run, each with its result.
BatchShaped(r) ==
    /\ Items(r) = ToSet(batch[r].items) /\ Items(r) \subseteq Children(r)
    /\ IsInjective(batch[r].items)
    /\ batch[r].admitted <= Len(batch[r].items)

\* What the results of a batch say of its items, and what is still to come.
Reported(r) ==
    /\ \A c \in Items(r) :
          /\ run[c].phase # "idle"
          /\ batch[r].results[c] = "completed" <=> run[c].phase = "ok"
          /\ batch[r].results[c] = "none" => run[c].phase \notin Outcomes
          /\ batch[r].results[c] = "not_started" => run[c].phase = "queued" /\ TurnCancelled(r)
          /\ batch[r].results[c] = "aborted" => TurnCancelled(r)
          /\ batch[r].results[c] \in {"completed", "failed", "aborted"} => run[c].phase \in Outcomes
    /\ \A i \in (batch[r].admitted + 1)..Len(batch[r].items) :
          run[batch[r].items[i]].phase = "queued" /\ batch[r].results[batch[r].items[i]] = "none"

Bounded(r) == batch[r].swarm => Cardinality(Busy(r)) <= PerDelegation

\* An item has one parent.
Disjoint == \A q, r \in Callers : q # r => Items(q) \cap Items(r) = {}

\* Nobody waits for a permit who needs none.
Awaited == \A r \in Callers : run[r].phase \in {"queued", "waiting"} => Delegated(r)

PermitsCounted ==
    /\ \A r \in Callers : r \in tracked <=> Delegated(r) /\ Running(r)
    /\ permits + Cardinality(tracked) = MaxAgents

AgentInv ==
    /\ AgentShaped
    /\ \A r \in Callers : BatchShaped(r) /\ Reported(r) /\ Bounded(r)
    /\ Disjoint
    /\ Awaited
    /\ PermitsCounted

\* A run has a call only while it asks.
Calling == \A r \in Callers : run[r].phase # "asking" => call[r].phase = "none"

IInv == PoolInv /\ AgentInv /\ Calling

\* What the type of a batch says of its parts.
LEMMA BatchParts ==
    ASSUME AgentShaped, NEW r \in Callers
    PROVE  /\ batch[r] \in BatchRec
           /\ batch[r].items \in Seq(Callers) /\ batch[r].admitted \in Nat /\ batch[r].swarm \in BOOLEAN
           /\ Items(r) \in SUBSET Callers
           /\ batch[r].results \in [Items(r) -> Marks]
<1>1. batch[r] \in BatchRec
  BY DEF AgentShaped
<1>2. PICK S \in SUBSET Callers : batch[r].results \in [S -> Marks]
  BY <1>1 DEF BatchRec
<1> QED
  BY <1>1, <1>2 DEF BatchRec, Items

\* The invariant bounds what TypeOK bounds.
LEMMA AgentTyped ==
    ASSUME IInv
    PROVE  TypeOK
<1>1. PoolTypeOK
  BY PoolTyped DEF IInv
<1>2. tracked \in SUBSET Callers /\ cancelled \in SUBSET Turns /\ permits \in Nat
  BY DEF IInv, AgentInv, AgentShaped
<1>3. permits \in 0..MaxAgents
  BY <1>2, CallersFinite, AgentAssumption DEF IInv, AgentInv, PermitsCounted
<1>4. ASSUME NEW r \in Callers
      PROVE  /\ ToSet(batch[r].items) \subseteq Children(r)
             /\ batch[r].admitted \in 0..Len(batch[r].items)
             /\ DOMAIN batch[r].results = ToSet(batch[r].items)
             /\ \A c \in DOMAIN batch[r].results : batch[r].results[c] \in Results \cup {"none"}
  <2>1. BatchShaped(r) /\ AgentShaped
    BY DEF IInv, AgentInv
  <2>2. Len(batch[r].items) \in Nat
    BY <2>1, BatchParts
  <2> QED
    BY <2>1, <2>2, BatchParts DEF BatchShaped, Items, Marks
<1>5. run \in [Callers -> [phase : Phases, iteration : Nat, fresh : BOOLEAN, again : BOOLEAN]]
  BY DEF IInv, AgentInv, AgentShaped, RunRec
<1> QED
  BY <1>1, <1>2, <1>3, <1>4, <1>5 DEF TypeOK

------------------------------------------------------------------------------
(* Steps of the runs.                                                       *)

\* Only the run of r moves.
Moves(r) ==
    /\ run' \in [Callers -> RunRec]
    /\ \A q \in Callers \ {r} : run'[q] = run[q]

\* No more is cancelled than turns, and nothing is taken back.
LEMMA CancelledStays ==
    ASSUME cancelled \subseteq cancelled', NEW r \in Callers, TurnCancelled(r)
    PROVE  TurnCancelled(r)'
BY DEF TurnCancelled

\* What an item is to its batch.
Alike(c) == run'[c].phase = run[c].phase \/ (Active(c) /\ Active(c)')

\* The batches stand while their items stay what they are to them.
LEMMA BatchesKept ==
    ASSUME AgentInv, UNCHANGED batch, cancelled \subseteq cancelled',
           \A r \in Callers : \A c \in Items(r) : Alike(c)
    PROVE  Disjoint' /\ \A r \in Callers : BatchShaped(r)' /\ Reported(r)' /\ Bounded(r)'
<1>1. \A r \in Callers : Items(r)' = Items(r)
  BY DEF Items
<1>2. ASSUME NEW r \in Callers
      PROVE  BatchShaped(r)'
  BY <1>1 DEF AgentInv, BatchShaped
<1>3. Disjoint'
  BY <1>1 DEF AgentInv, Disjoint
<1>4. ASSUME NEW r \in Callers
      PROVE  Reported(r)'
  <2>1. Reported(r) /\ BatchShaped(r) /\ AgentShaped
    BY DEF AgentInv
  <2>2. ASSUME NEW c \in Items(r)
        PROVE  /\ run'[c].phase # "idle"
               /\ batch[r].results[c] = "completed" <=> run'[c].phase = "ok"
               /\ batch[r].results[c] = "none" => run'[c].phase \notin Outcomes
               /\ batch[r].results[c] = "not_started" => run'[c].phase = "queued"
               /\ batch[r].results[c] \in {"completed", "failed", "aborted"} => run'[c].phase \in Outcomes
    BY <2>1 DEF Reported, Alike, Active, Running, Outcomes
  <2>3. ASSUME NEW i \in (batch[r].admitted + 1)..Len(batch[r].items)
        PROVE  run'[batch[r].items[i]].phase = "queued"
    <3>1. run[batch[r].items[i]].phase = "queued"
      BY <2>1 DEF Reported
    <3>2. i \in DOMAIN batch[r].items
      BY <2>1, BatchParts
    <3>3. batch[r].items[i] \in Items(r)
      BY <2>1, <3>2 DEF BatchShaped, ToSet
    <3> QED
      BY <3>1, <3>3 DEF Alike, Active, Running
  <2>4. TurnCancelled(r) => TurnCancelled(r)'
    BY CancelledStays
  <2> QED
    BY <1>1, <2>1, <2>2, <2>3, <2>4 DEF Reported
<1>5. ASSUME NEW r \in Callers
      PROVE  Bounded(r)'
  <2>1. Busy(r)' = Busy(r)
    BY <1>1 DEF Busy, Alike, Active, Running
  <2> QED
    BY <2>1 DEF AgentInv, Bounded
<1> QED
  BY <1>2, <1>3, <1>4, <1>5

\* A step of one run that goes on, or begins, or gets its permit.
LEMMA MoveKeeps ==
    ASSUME AgentInv, NEW r \in Callers, Moves(r), UNCHANGED <<batch, cancelled>>,
           \A q \in Callers : r \in Items(q) => Alike(r),
           run'[r].phase \in {"queued", "waiting"} => Delegated(r),
           permits' \in Nat, tracked' \subseteq Callers, PermitsCounted'
    PROVE  AgentInv'
<1>1. AgentShaped'
  BY DEF AgentInv, AgentShaped, Moves
<1>2. \A q \in Callers : \A c \in Items(q) : Alike(c)
  <2> SUFFICES ASSUME NEW q \in Callers, NEW c \in Items(q)
               PROVE  Alike(c)
    OBVIOUS
  <2>1. c \in Callers
    BY BatchParts DEF AgentInv
  <2> QED
    BY <2>1 DEF Moves, Alike
<1>3. Disjoint' /\ \A q \in Callers : BatchShaped(q)' /\ Reported(q)' /\ Bounded(q)'
  BY <1>2, BatchesKept
<1>4. Awaited'
  BY DEF AgentInv, Awaited, Moves, Delegated
<1> QED
  BY <1>1, <1>3, <1>4 DEF AgentInv

\* A running run that goes on running.
GoesOn(r) == /\ Moves(r) /\ Running(r) /\ Running(r)'
             /\ UNCHANGED <<batch, permits, tracked, cancelled>>

\* It disturbs no batch and no account.
LEMMA GoesOnKeeps ==
    ASSUME AgentInv, NEW r \in Callers, GoesOn(r)
    PROVE  AgentInv'
<1>1. run'[r].phase \notin {"queued", "waiting"} /\ Alike(r)
  BY DEF GoesOn, Running, Alike, Active
<1>2. PermitsCounted'
  BY DEF AgentInv, PermitsCounted, GoesOn, Moves, Running, Delegated
<1>3. permits' \in Nat /\ tracked' \subseteq Callers
  BY DEF AgentInv, AgentShaped, GoesOn
<1> QED
  BY <1>1, <1>2, <1>3, MoveKeeps DEF GoesOn

\* A root is in nobody's batch: its beginning disturbs none.
LEMMA BeginKeeps ==
    ASSUME AgentInv, NEW r \in Callers, Begin(r)
    PROVE  AgentInv'
<1>1. /\ r \in Roots /\ run[r].phase = "idle" /\ UNCHANGED <<batch, permits, tracked, cancelled>>
      /\ Move(r, IF Delegated(r) THEN "waiting" ELSE "looping")
  BY DEF Begin
<1>2. Moves(r) /\ run'[r].phase = IF Delegated(r) THEN "waiting" ELSE "looping"
  BY <1>1 DEF AgentInv, AgentShaped, Move, Moves, RunRec, Phases
<1>3. \A q \in Callers : r \notin Items(q)
  BY <1>1 DEF AgentInv, BatchShaped, Roots
<1>4. \A q \in Callers : q \in tracked' <=> Delegated(q)' /\ Running(q)'
  BY <1>1, <1>2 DEF AgentInv, PermitsCounted, Moves, Running, Delegated
<1>5. PermitsCounted'
  BY <1>1, <1>4 DEF AgentInv, PermitsCounted
<1> QED
  BY <1>1, <1>2, <1>3, <1>5, MoveKeeps DEF AgentInv, AgentShaped

\* A permit is taken by exactly the run that begins to be tracked.
LEMMA AcquireKeeps ==
    ASSUME AgentInv, NEW r \in Callers, Acquire(r)
    PROVE  AgentInv'
<1>1. /\ run[r].phase = "waiting" /\ permits > 0 /\ permits' = permits - 1
      /\ tracked' = tracked \cup {r} /\ UNCHANGED <<batch, cancelled>>
      /\ Move(r, "looping")
  BY DEF Acquire
<1>2. Moves(r) /\ run'[r].phase = "looping"
  BY <1>1 DEF AgentInv, AgentShaped, Move, Moves, RunRec, Phases
<1>3. Delegated(r) /\ ~Running(r) /\ Running(r)' /\ Alike(r)
  BY <1>1, <1>2 DEF AgentInv, Awaited, Running, Alike, Active, Outcomes
<1>4. \A q \in Callers : q \in tracked' <=> Delegated(q)' /\ Running(q)'
  BY <1>1, <1>2, <1>3 DEF AgentInv, PermitsCounted, Moves, Running, Delegated
<1>5. permits' + Cardinality(tracked') = MaxAgents
  <2>1. tracked \in SUBSET Callers /\ tracked' \in SUBSET Callers /\ permits \in Nat
    BY <1>1 DEF AgentInv, AgentShaped
  <2>2. r \notin tracked /\ r \in tracked' /\ \A q \in Callers \ {r} : q \in tracked <=> q \in tracked'
    BY <1>1, <1>3 DEF AgentInv, PermitsCounted
  <2>3. Cardinality(tracked') = Cardinality(tracked) - Bit(r \in tracked) + Bit(r \in tracked')
    BY <2>1, <2>2, OneCaller
  <2>4. Cardinality(tracked) \in Nat /\ Cardinality(tracked') \in Nat
    BY <2>1, CallersFinite
  <2> QED
    BY <1>1, <2>1, <2>2, <2>3, <2>4, AgentAssumption DEF AgentInv, PermitsCounted, Bit
<1>6. PermitsCounted'
  BY <1>4, <1>5 DEF PermitsCounted
<1>7. permits' \in Nat /\ tracked' \subseteq Callers
  BY <1>1 DEF AgentInv, AgentShaped
<1> QED
  BY <1>1, <1>2, <1>3, <1>6, <1>7, MoveKeeps

\* What the end of r writes into the batches.
LEMMA EndedBatches ==
    ASSUME AgentInv, NEW r \in Callers, NEW outcome \in Outcomes, End(r, outcome)
    PROVE  /\ batch' \in [Callers -> BatchRec]
           /\ \A q \in Callers :
                 /\ batch'[q].items = batch[q].items /\ batch'[q].admitted = batch[q].admitted
                 /\ batch'[q].swarm = batch[q].swarm /\ Items(q)' = Items(q)
                 /\ \A c \in Items(q) : batch'[q].results[c] =
                       IF c = r THEN ResultOf(q, outcome) ELSE batch[q].results[c]
<1> SUFFICES ASSUME NEW q \in Callers
             PROVE  /\ batch'[q] \in BatchRec
                    /\ batch'[q].items = batch[q].items /\ batch'[q].admitted = batch[q].admitted
                    /\ batch'[q].swarm = batch[q].swarm /\ Items(q)' = Items(q)
                    /\ \A c \in Items(q) : batch'[q].results[c] =
                          IF c = r THEN ResultOf(q, outcome) ELSE batch[q].results[c]
  BY DEF End
<1>1. batch'[q] = IF r \in Items(q) THEN [batch[q] EXCEPT !.results[r] = ResultOf(q, outcome)]
                                    ELSE batch[q]
  BY DEF End, Items
<1>2. /\ batch[q] \in BatchRec /\ batch[q].results \in [Items(q) -> Marks] /\ Items(q) \in SUBSET Callers
  BY BatchParts DEF AgentInv
<1>3. CASE r \notin Items(q)
  BY <1>1, <1>2, <1>3 DEF Items
<1>4. CASE r \in Items(q)
  <2>1. ResultOf(q, outcome) \in Marks
    BY DEF ResultOf, Marks, Results
  <2>2. [batch[q].results EXCEPT ![r] = ResultOf(q, outcome)] \in [Items(q) -> Marks]
    BY <1>2, <2>1
  <2>3. batch'[q] = [batch[q] EXCEPT !.results = [batch[q].results EXCEPT ![r] = ResultOf(q, outcome)]]
    BY <1>1, <1>4
  <2>4. batch'[q] \in BatchRec
    BY <1>2, <2>2, <2>3 DEF BatchRec
  <2>5. /\ batch'[q].items = batch[q].items /\ batch'[q].admitted = batch[q].admitted
        /\ batch'[q].swarm = batch[q].swarm
        /\ batch'[q].results = [batch[q].results EXCEPT ![r] = ResultOf(q, outcome)]
    BY <1>2, <2>3 DEF BatchRec
  <2>6. Items(q)' = Items(q)
    BY <1>2, <2>2, <2>5 DEF Items
  <2> QED
    BY <1>2, <2>4, <2>5, <2>6
<1> QED
  BY <1>3, <1>4

\* A run that ends gives its permit back and writes what became of it where it is awaited.
LEMMA EndKeeps ==
    ASSUME AgentInv, NEW r \in Callers, NEW outcome \in Outcomes, Running(r), End(r, outcome),
           UNCHANGED cancelled
    PROVE  AgentInv' /\ Moves(r) /\ run'[r].phase = outcome
<1>1. Moves(r) /\ run'[r].phase = outcome
  BY DEF End, Move, Moves, AgentInv, AgentShaped, RunRec, Phases
<1>2. ~Running(r)' /\ \A q \in Callers \ {r} : Running(q)' <=> Running(q)
  BY <1>1 DEF Moves, Running
<1>3. PermitsCounted' /\ permits' \in Nat /\ tracked' \subseteq Callers
  <2>1. tracked \in SUBSET Callers /\ tracked' \in SUBSET Callers /\ permits \in Nat
    BY DEF AgentInv, AgentShaped, End
  <2>2. /\ r \in tracked <=> Delegated(r)
        /\ r \notin tracked' /\ \A q \in Callers \ {r} : q \in tracked <=> q \in tracked'
    BY DEF AgentInv, PermitsCounted, End
  <2>3. \A q \in Callers : q \in tracked' <=> Delegated(q)' /\ Running(q)'
    BY <1>2, <2>2 DEF AgentInv, PermitsCounted, Delegated
  <2>4. Cardinality(tracked') = Cardinality(tracked) - Bit(r \in tracked) + Bit(r \in tracked')
    BY <2>1, <2>2, OneCaller
  <2>5. Cardinality(tracked) \in Nat /\ Cardinality(tracked') \in Nat
    BY <2>1, CallersFinite
  <2>6. permits' = permits + Bit(r \in tracked) /\ permits' \in Nat
    BY <2>1, <2>2 DEF End, Bit
  <2>7. permits' + Cardinality(tracked') = MaxAgents
    BY <2>1, <2>2, <2>4, <2>5, <2>6, AgentAssumption DEF AgentInv, PermitsCounted, Bit
  <2> QED
    BY <2>1, <2>3, <2>6, <2>7 DEF PermitsCounted
<1>4. AgentShaped'
  BY <1>1, <1>3, EndedBatches DEF AgentInv, AgentShaped, Moves
<1>5. \A q \in Callers : BatchShaped(q)'
  BY EndedBatches DEF AgentInv, BatchShaped
<1>6. Disjoint'
  BY EndedBatches DEF AgentInv, Disjoint
<1>7. Awaited'
  BY <1>1 DEF AgentInv, Awaited, Moves, Delegated, Outcomes
<1>8. ASSUME NEW q \in Callers
      PROVE  Reported(q)'
  <2>1. Reported(q) /\ BatchShaped(q) /\ AgentShaped
    BY DEF AgentInv
  <2>2. TurnCancelled(q)' <=> TurnCancelled(q)
    BY DEF TurnCancelled
  <2>3. ASSUME NEW c \in Items(q)
        PROVE  /\ run'[c].phase # "idle"
               /\ batch'[q].results[c] = "completed" <=> run'[c].phase = "ok"
               /\ batch'[q].results[c] = "none" => run'[c].phase \notin Outcomes
               /\ batch'[q].results[c] = "not_started" => run'[c].phase = "queued" /\ TurnCancelled(q)
               /\ batch'[q].results[c] = "aborted" => TurnCancelled(q)
               /\ batch'[q].results[c] \in {"completed", "failed", "aborted"} => run'[c].phase \in Outcomes
    <3>1. c \in Callers
      BY <2>1, BatchParts
    <3>2. CASE c = r
      <4>1. batch'[q].results[r] = ResultOf(q, outcome) /\ run'[r].phase = outcome
        BY <1>1, <3>2, EndedBatches
      <4>2. /\ ResultOf(q, outcome) \in {"completed", "failed", "aborted"}
            /\ ResultOf(q, outcome) = "completed" <=> outcome = "ok"
            /\ ResultOf(q, outcome) = "aborted" => TurnCancelled(q)
        <5>1. CASE outcome = "ok"
          BY <5>1 DEF ResultOf
        <5>2. CASE outcome # "ok" /\ batch[q].swarm /\ Cancelled(q)
          BY <5>2 DEF ResultOf, Cancelled, TurnCancelled
        <5>3. CASE outcome # "ok" /\ ~(batch[q].swarm /\ Cancelled(q))
          BY <5>3 DEF ResultOf
        <5> QED
          BY <5>1, <5>2, <5>3
      <4>3. outcome # "idle"
        BY DEF Outcomes
      <4> QED
        BY <3>2, <4>1, <4>2, <4>3
    <3>3. CASE c # r
      <4>1. batch'[q].results[c] = batch[q].results[c] /\ run'[c] = run[c]
        BY <1>1, <3>1, <3>3, EndedBatches DEF Moves
      <4> QED
        BY <2>1, <4>1 DEF Reported
    <3> QED
      BY <3>2, <3>3
  <2>4. ASSUME NEW i \in (batch[q].admitted + 1)..Len(batch[q].items)
        PROVE  /\ run'[batch[q].items[i]].phase = "queued"
               /\ batch'[q].results[batch[q].items[i]] = "none"
    <3>1. run[batch[q].items[i]].phase = "queued" /\ batch[q].results[batch[q].items[i]] = "none"
      BY <2>1 DEF Reported
    <3>2. i \in DOMAIN batch[q].items
      BY <2>1, BatchParts
    <3>3. batch[q].items[i] \in Items(q) /\ batch[q].items[i] \in Callers
      BY <2>1, <3>2, BatchParts DEF BatchShaped, ToSet
    <3>4. batch[q].items[i] # r
      BY <3>1 DEF Running
    <3>5. run'[batch[q].items[i]] = run[batch[q].items[i]]
      BY <1>1, <3>3, <3>4 DEF Moves
    <3>6. batch'[q].results[batch[q].items[i]] = batch[q].results[batch[q].items[i]]
      BY <3>3, <3>4, EndedBatches
    <3> QED
      BY <3>1, <3>5, <3>6
  <2>5. /\ Items(q)' = Items(q) /\ batch'[q].items = batch[q].items
        /\ batch'[q].admitted = batch[q].admitted
    BY EndedBatches
  <2> QED
    BY <2>2, <2>3, <2>4, <2>5 DEF Reported
<1>9. ASSUME NEW q \in Callers
      PROVE  Bounded(q)'
  <2>1. Busy(q)' = Busy(q) \ {r}
    <3>1. Items(q)' = Items(q) /\ Items(q) \in SUBSET Callers
      BY EndedBatches, BatchParts DEF AgentInv
    <3>2. \A c \in Items(q) : Active(c)' <=> Active(c) /\ c # r
      BY <1>1, <1>2, <3>1 DEF Active, Moves, Outcomes
    <3> QED
      BY <3>1, <3>2 DEF Busy
  <2>2. Busy(q) \in SUBSET Callers
    BY BatchParts DEF AgentInv, Busy
  <2>3. Cardinality(Busy(q)') <= Cardinality(Busy(q)) /\ Cardinality(Busy(q)) \in Nat
        /\ Cardinality(Busy(q)') \in Nat
    BY <2>1, <2>2, CallersFinite, LessOne DEF Bit
  <2>4. batch'[q].swarm = batch[q].swarm
    BY EndedBatches
  <2>5. batch[q].swarm => Cardinality(Busy(q)) <= PerDelegation
    BY DEF AgentInv, Bounded
  <2>6. batch'[q].swarm => Cardinality(Busy(q)') <= PerDelegation
    BY <2>3, <2>4, <2>5, AgentAssumption
  <2> QED
    BY <2>6 DEF Bounded
<1> QED
  BY <1>1, <1>3, <1>4, <1>5, <1>6, <1>7, <1>8, <1>9 DEF AgentInv

------------------------------------------------------------------------------
(* A run delegates.                                                         *)

\* Nobody but r stops asking.
KeepAsking(r) == \A q \in Callers \ {r} : run[q].phase = "asking" => run'[q].phase = "asking"

NoResults(items) == [c \in ToSet(items) |-> "none"]

\* A new batch of children that have not been used.
LEMMA DelegateKeeps ==
    ASSUME AgentInv, NEW r \in Callers, Running(r), NEW items \in Seq(Callers), IsInjective(items),
           ToSet(items) \subseteq Children(r), \A c \in ToSet(items) : run[c].phase = "idle",
           NEW swarm \in BOOLEAN, NEW phase \in {"tool", "compact"}, NEW again \in BOOLEAN,
           Delegate(r, items, swarm, phase, again), UNCHANGED <<permits, tracked, cancelled>>
    PROVE  AgentInv' /\ KeepAsking(r) /\ run'[r].phase = phase
<1>1. run \in [Callers -> RunRec] /\ batch \in [Callers -> BatchRec]
  BY DEF AgentInv, AgentShaped
<1>2. /\ ToSet(items) \in SUBSET Callers /\ r \notin ToSet(items)
      /\ \A c \in ToSet(items) : Delegated(c) /\ ~Running(c)
  <2>1. \A c \in ToSet(items) : c \in Callers /\ c \notin Roots
    BY DEF ToSet, Roots
  <2> QED
    BY <2>1, AgentAssumption DEF Delegated, Running
<1>3. /\ run' \in [Callers -> RunRec]
      /\ run'[r].phase = phase
      /\ \A q \in ToSet(items) : run'[q].phase = "queued"
      /\ \A q \in Callers \ (ToSet(items) \cup {r}) : run'[q] = run[q]
  <2>1. run' = [q \in Callers |->
          CASE q = r              -> [run[r] EXCEPT !.phase = phase, !.again = again]
            [] q \in ToSet(items) -> [run[q] EXCEPT !.phase = "queued"]
            [] OTHER              -> run[q]]
    BY DEF Delegate
  <2>2. /\ [run[r] EXCEPT !.phase = phase, !.again = again] \in RunRec
        /\ [run[r] EXCEPT !.phase = phase, !.again = again].phase = phase
        /\ \A q \in Callers : /\ [run[q] EXCEPT !.phase = "queued"] \in RunRec
                              /\ [run[q] EXCEPT !.phase = "queued"].phase = "queued"
    BY <1>1 DEF RunRec, Phases
  <2> QED
    BY <1>1, <1>2, <2>1, <2>2
<1>4. /\ batch'[r] = [items |-> items, admitted |-> 0, swarm |-> swarm, results |-> NoResults(items)]
      /\ \A q \in Callers \ {r} : batch'[q] = batch[q]
  BY <1>1 DEF Delegate, NoResults
<1>5. NoResults(items) \in [ToSet(items) -> Marks]
  BY DEF NoResults, Marks
<1>6. batch' \in [Callers -> BatchRec]
  <2>1. batch'[r] \in BatchRec
    BY <1>2, <1>4, <1>5 DEF BatchRec
  <2> QED
    BY <1>1, <1>4, <2>1 DEF Delegate
<1>7. /\ Items(r)' = ToSet(items)
      /\ \A q \in Callers \ {r} : Items(q)' = Items(q)
  BY <1>4, <1>5 DEF Items
<1>8. \A q \in Callers : Items(q) \cap ToSet(items) = {}
  BY DEF AgentInv, Reported
<1>9. AgentShaped'
  BY <1>3, <1>6 DEF AgentInv, AgentShaped
<1>10. \A q \in Callers : TurnCancelled(q)' <=> TurnCancelled(q)
  BY DEF TurnCancelled
<1>11. ASSUME NEW q \in Callers
       PROVE  BatchShaped(q)'
  <2>1. CASE q = r
    <3>1. 0 <= Len(items)
      OBVIOUS
    <3> QED
      BY <1>4, <1>7, <2>1, <3>1 DEF BatchShaped
  <2>2. CASE q # r
    BY <1>4, <1>7, <2>2 DEF AgentInv, BatchShaped
  <2> QED
    BY <2>1, <2>2
<1>12. Disjoint'
  BY <1>7, <1>8 DEF AgentInv, Disjoint
<1>13. Awaited'
  BY <1>2, <1>3 DEF AgentInv, Awaited, Delegated
<1>14. \A q \in Callers : Running(q)' <=> Running(q)
  BY <1>2, <1>3 DEF Running, Outcomes
<1>15. PermitsCounted'
  BY <1>14 DEF AgentInv, PermitsCounted, Delegated
<1>16. ASSUME NEW q \in Callers, q # r
       PROVE  Reported(q)' /\ Bounded(q)'
  <2>1. Reported(q) /\ BatchShaped(q) /\ AgentShaped /\ Bounded(q)
    BY DEF AgentInv
  <2>2. batch'[q] = batch[q] /\ Items(q)' = Items(q) /\ (TurnCancelled(q)' <=> TurnCancelled(q))
    BY <1>4, <1>7, <1>10, <1>16
  <2>3. ASSUME NEW c \in Items(q)
        PROVE  /\ run'[c].phase = run[c].phase \/ c = r
               /\ Active(c)' <=> Active(c)
    <3>1. c \in Callers /\ c \notin ToSet(items)
      BY <1>8, <2>1, BatchParts
    <3>2. c # r => run'[c] = run[c]
      BY <1>3, <3>1
    <3>3. c = r => Active(c) /\ Active(c)'
      BY <1>3 DEF Active, Running, Outcomes
    <3> QED
      BY <3>2, <3>3 DEF Active, Running
  <2>4. ASSUME NEW c \in Items(q)
        PROVE  /\ run'[c].phase # "idle"
               /\ batch[q].results[c] = "completed" <=> run'[c].phase = "ok"
               /\ batch[q].results[c] = "none" => run'[c].phase \notin Outcomes
               /\ batch[q].results[c] = "not_started" => run'[c].phase = "queued"
               /\ batch[q].results[c] \in {"completed", "failed", "aborted"} => run'[c].phase \in Outcomes
    <3>1. CASE c = r
      <4>1. run[r].phase \notin {"idle", "queued"} \cup Outcomes /\ run'[r].phase \notin {"idle", "queued"} \cup Outcomes
        BY <1>3 DEF Running, Outcomes
      <4> QED
        BY <2>1, <3>1, <4>1 DEF Reported, Outcomes
    <3>2. CASE c # r
      BY <2>1, <2>3, <3>2 DEF Reported
    <3> QED
      BY <3>1, <3>2
  <2>5. ASSUME NEW i \in (batch[q].admitted + 1)..Len(batch[q].items)
        PROVE  run'[batch[q].items[i]].phase = "queued"
    <3>1. run[batch[q].items[i]].phase = "queued"
      BY <2>1 DEF Reported
    <3>2. i \in DOMAIN batch[q].items
      BY <2>1, BatchParts
    <3>3. batch[q].items[i] \in Items(q)
      BY <2>1, <3>2 DEF BatchShaped, ToSet
    <3>4. batch[q].items[i] # r
      BY <3>1 DEF Running
    <3> QED
      BY <2>3, <3>1, <3>3, <3>4
  <2>6. Reported(q)'
    BY <2>1, <2>2, <2>4, <2>5 DEF Reported
  <2>7. Busy(q)' = Busy(q)
    BY <2>2, <2>3 DEF Busy
  <2> QED
    BY <2>1, <2>2, <2>6, <2>7 DEF Bounded
<1>17. Reported(r)'
  <2>1. ASSUME NEW i \in (0 + 1)..Len(items)
        PROVE  run'[items[i]].phase = "queued" /\ NoResults(items)[items[i]] = "none"
    <3>1. items[i] \in ToSet(items)
      BY DEF ToSet
    <3> QED
      BY <1>3, <3>1 DEF NoResults
  <2>2. \A c \in ToSet(items) : run'[c].phase = "queued" /\ NoResults(items)[c] = "none"
    BY <1>3 DEF NoResults
  <2>3. \A c \in ToSet(items) : run'[c].phase \notin Outcomes
    BY <2>2 DEF Outcomes
  <2> QED
    BY <1>4, <1>7, <2>1, <2>2, <2>3 DEF Reported
<1>18. Bounded(r)'
  <2>1. Busy(r)' = {}
    BY <1>3, <1>7 DEF Busy, Active, Running
  <2> QED
    BY <2>1, FS_EmptySet, AgentAssumption DEF Bounded
<1>19. KeepAsking(r)
  BY <1>3 DEF KeepAsking
<1> QED
  BY <1>3, <1>9, <1>11, <1>12, <1>13, <1>15, <1>16, <1>17, <1>18, <1>19 DEF AgentInv

------------------------------------------------------------------------------
(* The next items of a batch are admitted.                                  *)

\* As many items as there are places, at most.
LEMMA SegmentSize ==
    ASSUME NEW s \in Seq(Callers), NEW m \in Nat, NEW n \in Nat, m <= n, n <= Len(s)
    PROVE  Cardinality({s[i] : i \in (m + 1)..n}) <= n - m
<1> DEFINE T == {s[i] : i \in (m + 1)..n}
           f == [i \in (m + 1)..n |-> s[i]]
<1>1. f \in Surjection((m + 1)..n, T)
  BY DEF Surjection
<1>2. IsFiniteSet((m + 1)..n) /\ Cardinality((m + 1)..n) = n - m
  <2>1. /\ IsFiniteSet((m + 1)..n)
        /\ Cardinality((m + 1)..n) = IF m + 1 > n THEN 0 ELSE n - (m + 1) + 1
    BY FS_Interval
  <2> QED
    BY <2>1
<1> HIDE DEF T, f
<1>3. Cardinality(T) <= Cardinality((m + 1)..n)
  BY <1>1, <1>2, FS_Surjection
<1> QED
  BY <1>2, <1>3 DEF T

Upto(r) == IF batch[r].swarm THEN IF batch[r].admitted + PerDelegation < Len(batch[r].items)
                                  THEN batch[r].admitted + PerDelegation ELSE Len(batch[r].items)
                             ELSE batch[r].admitted + 1
Chunk(r) == {batch[r].items[i] : i \in (batch[r].admitted + 1)..Upto(r)}

\* What the next chunk is.
LEMMA ChunkParts ==
    ASSUME AgentInv, NEW r \in Callers, batch[r].admitted < Len(batch[r].items)
    PROVE  /\ Upto(r) \in Nat /\ batch[r].admitted < Upto(r) /\ Upto(r) <= Len(batch[r].items)
           /\ Chunk(r) \subseteq Items(r) /\ Chunk(r) \in SUBSET Callers
           /\ \A c \in Chunk(r) : run[c].phase = "queued" /\ batch[r].results[c] = "none"
           /\ batch[r].swarm => Cardinality(Chunk(r)) <= PerDelegation
           /\ \A i \in (Upto(r) + 1)..Len(batch[r].items) :
                 /\ batch[r].items[i] \notin Chunk(r) /\ batch[r].items[i] \in Items(r)
                 /\ i \in (batch[r].admitted + 1)..Len(batch[r].items)
<1>1. /\ batch[r].items \in Seq(Callers) /\ batch[r].admitted \in Nat /\ batch[r].swarm \in BOOLEAN
      /\ Len(batch[r].items) \in Nat /\ DOMAIN batch[r].items = 1..Len(batch[r].items)
      /\ Items(r) \in SUBSET Callers
  BY BatchParts DEF AgentInv
<1>2. PerDelegation \in Nat /\ PerDelegation > 0
  BY AgentAssumption
<1>3. /\ Upto(r) \in Nat /\ batch[r].admitted < Upto(r) /\ Upto(r) <= Len(batch[r].items)
      /\ batch[r].swarm => Upto(r) - batch[r].admitted <= PerDelegation
  BY <1>1, <1>2 DEF Upto
<1>4. \A i \in (batch[r].admitted + 1)..Len(batch[r].items) :
         /\ run[batch[r].items[i]].phase = "queued" /\ batch[r].results[batch[r].items[i]] = "none"
         /\ i \in DOMAIN batch[r].items /\ batch[r].items[i] \in Items(r)
  BY <1>1 DEF AgentInv, Reported, BatchShaped, ToSet
<1>5. /\ Chunk(r) \subseteq Items(r)
      /\ \A c \in Chunk(r) : run[c].phase = "queued" /\ batch[r].results[c] = "none"
  BY <1>1, <1>3, <1>4 DEF Chunk
<1>6. Cardinality(Chunk(r)) <= Upto(r) - batch[r].admitted
  <2>1. batch[r].admitted <= Upto(r)
    BY <1>1, <1>3
  <2>2. Cardinality({batch[r].items[i] : i \in (batch[r].admitted + 1)..Upto(r)})
          <= Upto(r) - batch[r].admitted
    BY <1>1, <1>3, <2>1, SegmentSize
  <2> QED
    BY <2>2 DEF Chunk
<1>7. Cardinality(Chunk(r)) \in Nat
  BY <1>1, <1>5, CallersFinite
<1>8. batch[r].swarm => Cardinality(Chunk(r)) <= PerDelegation
  BY <1>1, <1>2, <1>3, <1>6, <1>7
<1>9. ASSUME NEW i \in (Upto(r) + 1)..Len(batch[r].items)
      PROVE  /\ batch[r].items[i] \notin Chunk(r) /\ batch[r].items[i] \in Items(r)
             /\ i \in (batch[r].admitted + 1)..Len(batch[r].items)
  <2>1. i \in (batch[r].admitted + 1)..Len(batch[r].items)
    BY <1>1, <1>3
  <2>2. ASSUME NEW j \in (batch[r].admitted + 1)..Upto(r), batch[r].items[i] = batch[r].items[j]
        PROVE  FALSE
    <3>1. j \in DOMAIN batch[r].items /\ i \in DOMAIN batch[r].items /\ i # j
      BY <1>1, <1>3
    <3> QED
      BY <2>2, <3>1 DEF AgentInv, BatchShaped, IsInjective
  <2> QED
    BY <1>4, <2>1, <2>2 DEF Chunk
<1> QED
  BY <1>1, <1>3, <1>5, <1>8, <1>9

\* Nothing of a batch runs any more when its results are there.
LEMMA SettledIdle ==
    ASSUME AgentInv, NEW r \in Callers, Settled(r)
    PROVE  \A c \in Items(r) : ~Active(c)
<1> SUFFICES ASSUME NEW c \in Items(r)
             PROVE  ~Active(c)
  OBVIOUS
<1>1. /\ BatchShaped(r) /\ Reported(r)
      /\ DOMAIN batch[r].items = 1..Len(batch[r].items) /\ batch[r].admitted \in Nat
      /\ batch[r].results[c] \in Marks
  BY BatchParts DEF AgentInv
<1>2. PICK i \in 1..Len(batch[r].items) : c = batch[r].items[i]
  BY <1>1 DEF BatchShaped, ToSet
<1>3. CASE i \in 1..batch[r].admitted
  <2>1. batch[r].results[c] # "none"
    BY <1>2, <1>3 DEF Settled
  <2>2. run[c].phase = "queued" \/ run[c].phase \in Outcomes
    BY <1>1, <2>1 DEF Reported, Marks, Results
  <2> QED
    BY <2>2 DEF Active, Running, Outcomes
<1>4. CASE i \notin 1..batch[r].admitted
  <2>1. i \in (batch[r].admitted + 1)..Len(batch[r].items)
    BY <1>1, <1>4
  <2>2. run[c].phase = "queued"
    BY <1>1, <1>2, <2>1 DEF Reported
  <2> QED
    BY <2>2 DEF Active, Running
<1> QED
  BY <1>3, <1>4

\* A cancelled run reports its next items without starting them.
LEMMA SkipKeeps ==
    ASSUME AgentInv, NEW r \in Callers, batch[r].admitted < Len(batch[r].items), TurnCancelled(r),
           batch' = [batch EXCEPT ![r].admitted = Upto(r),
                       ![r].results = [c \in DOMAIN @ |-> IF c \in Chunk(r) THEN "not_started" ELSE @[c]]],
           UNCHANGED <<run, permits, tracked, cancelled>>
    PROVE  AgentInv'
<1> DEFINE marks == [c \in Items(r) |-> IF c \in Chunk(r) THEN "not_started" ELSE batch[r].results[c]]
<1>1. batch \in [Callers -> BatchRec] /\ batch[r] \in BatchRec
  BY DEF AgentInv, AgentShaped
<1>2. /\ Items(r) \in SUBSET Callers /\ batch[r].results \in [Items(r) -> Marks]
  BY BatchParts DEF AgentInv
<1>3. marks \in [Items(r) -> Marks]
  BY <1>2 DEF Marks, Results
<1>4. batch' = [batch EXCEPT ![r] = [batch[r] EXCEPT !.admitted = Upto(r), !.results = marks]]
  BY <1>1 DEF Items, BatchRec
<1> HIDE DEF marks
<1>5. [batch[r] EXCEPT !.admitted = Upto(r), !.results = marks] \in BatchRec
  <2>1. Upto(r) \in Nat
    BY ChunkParts
  <2>2. [batch[r] EXCEPT !.admitted = Upto(r)] \in BatchRec
    BY <1>1, <2>1 DEF BatchRec
  <2>3. marks \in UNION {[S -> Marks] : S \in SUBSET Callers}
    BY <1>2, <1>3
  <2>4. [[batch[r] EXCEPT !.admitted = Upto(r)] EXCEPT !.results = marks] \in BatchRec
    BY <2>2, <2>3 DEF BatchRec
  <2>5. [batch[r] EXCEPT !.admitted = Upto(r), !.results = marks]
          = [[batch[r] EXCEPT !.admitted = Upto(r)] EXCEPT !.results = marks]
    BY <1>1 DEF BatchRec
  <2> QED
    BY <2>4, <2>5
<1>6. /\ batch' \in [Callers -> BatchRec] /\ \A q \in Callers \ {r} : batch'[q] = batch[q]
      /\ batch'[r].items = batch[r].items /\ batch'[r].swarm = batch[r].swarm
      /\ batch'[r].admitted = Upto(r) /\ batch'[r].results = marks
  <2>1. /\ batch' \in [Callers -> BatchRec] /\ \A q \in Callers \ {r} : batch'[q] = batch[q]
        /\ batch'[r] = [batch[r] EXCEPT !.admitted = Upto(r), !.results = marks]
    BY <1>1, <1>4, <1>5
  <2> QED
    BY <1>1, <2>1 DEF BatchRec
<1>7. \A q \in Callers : Items(q)' = Items(q)
  BY <1>3, <1>6 DEF Items
<1>8. AgentShaped'
  BY <1>6 DEF AgentInv, AgentShaped
<1>9. ASSUME NEW q \in Callers
      PROVE  BatchShaped(q)'
  <2>1. CASE q = r
    BY <1>6, <1>7, <2>1, ChunkParts DEF AgentInv, BatchShaped
  <2>2. CASE q # r
    BY <1>6, <1>7, <2>2 DEF AgentInv, BatchShaped
  <2> QED
    BY <2>1, <2>2
<1>10. Disjoint' /\ Awaited' /\ PermitsCounted'
  BY <1>7 DEF AgentInv, Disjoint, Awaited, PermitsCounted, Delegated, Running
<1>11. ASSUME NEW q \in Callers
       PROVE  Bounded(q)'
  <2>1. batch'[q].swarm = batch[q].swarm /\ Busy(q)' = Busy(q)
    BY <1>6, <1>7 DEF Busy, Active, Running
  <2> QED
    BY <2>1 DEF AgentInv, Bounded
<1>12. \A q \in Callers : TurnCancelled(q)' <=> TurnCancelled(q)
  BY DEF TurnCancelled
<1>13. ASSUME NEW q \in Callers, q # r
       PROVE  Reported(q)'
  BY <1>6, <1>7, <1>12, <1>13 DEF AgentInv, Reported
<1>14. Reported(r)'
  <2>1. ASSUME NEW c \in Items(r)
        PROVE  /\ run'[c].phase # "idle"
               /\ marks[c] = "completed" <=> run'[c].phase = "ok"
               /\ marks[c] = "none" => run'[c].phase \notin Outcomes
               /\ marks[c] = "not_started" => run'[c].phase = "queued" /\ TurnCancelled(r)
               /\ marks[c] = "aborted" => TurnCancelled(r)
               /\ marks[c] \in {"completed", "failed", "aborted"} => run'[c].phase \in Outcomes
    <3>1. CASE c \in Chunk(r)
      BY <3>1, ChunkParts DEF marks, Outcomes
    <3>2. CASE c \notin Chunk(r)
      <4>1. marks[c] = batch[r].results[c]
        BY <3>2 DEF marks
      <4> QED
        BY <4>1 DEF AgentInv, Reported
    <3> QED
      BY <3>1, <3>2
  <2>2. ASSUME NEW i \in (Upto(r) + 1)..Len(batch[r].items)
        PROVE  run'[batch[r].items[i]].phase = "queued" /\ marks[batch[r].items[i]] = "none"
    <3>1. /\ batch[r].items[i] \notin Chunk(r) /\ batch[r].items[i] \in Items(r)
          /\ i \in (batch[r].admitted + 1)..Len(batch[r].items)
      BY ChunkParts
    <3>2. run[batch[r].items[i]].phase = "queued" /\ batch[r].results[batch[r].items[i]] = "none"
      BY <3>1 DEF AgentInv, Reported
    <3> QED
      BY <3>1, <3>2 DEF marks
  <2> QED
    BY <1>6, <1>7, <1>12, <2>1, <2>2 DEF Reported
<1> QED
  BY <1>8, <1>9, <1>10, <1>11, <1>13, <1>14 DEF AgentInv

\* The next chunk waits for permits.
LEMMA StartChunkKeeps ==
    ASSUME AgentInv, NEW r \in Callers, batch[r].admitted < Len(batch[r].items), Settled(r),
           batch' = [batch EXCEPT ![r].admitted = Upto(r)],
           run' = [q \in Callers |-> IF q \in Chunk(r) THEN [run[q] EXCEPT !.phase = "waiting"] ELSE run[q]],
           UNCHANGED <<permits, tracked, cancelled>>
    PROVE  AgentInv'
<1>1. /\ batch \in [Callers -> BatchRec] /\ batch[r] \in BatchRec /\ run \in [Callers -> RunRec]
  BY DEF AgentInv, AgentShaped
<1>2. /\ batch' \in [Callers -> BatchRec] /\ \A q \in Callers \ {r} : batch'[q] = batch[q]
      /\ batch'[r].items = batch[r].items /\ batch'[r].swarm = batch[r].swarm
      /\ batch'[r].admitted = Upto(r) /\ batch'[r].results = batch[r].results
  <2>1. [batch[r] EXCEPT !.admitted = Upto(r)] \in BatchRec
    BY <1>1, ChunkParts DEF BatchRec
  <2> QED
    BY <1>1, <2>1 DEF BatchRec
<1>3. /\ run' \in [Callers -> RunRec]
      /\ \A q \in Chunk(r) : run'[q].phase = "waiting"
      /\ \A q \in Callers \ Chunk(r) : run'[q] = run[q]
  <2>1. \A q \in Callers : [run[q] EXCEPT !.phase = "waiting"] \in RunRec
    BY <1>1 DEF RunRec, Phases
  <2>2. \A q \in Callers : [run[q] EXCEPT !.phase = "waiting"].phase = "waiting"
    BY <1>1 DEF RunRec
  <2> QED
    BY <1>1, <2>1, <2>2, ChunkParts
<1>4. \A q \in Callers : batch'[q].results = batch[q].results /\ Items(q)' = Items(q)
  BY <1>2 DEF Items
<1>5. AgentShaped'
  BY <1>2, <1>3 DEF AgentInv, AgentShaped
<1>6. ASSUME NEW q \in Callers
      PROVE  BatchShaped(q)'
  <2>1. CASE q = r
    BY <1>2, <1>4, <2>1, ChunkParts DEF AgentInv, BatchShaped
  <2>2. CASE q # r
    BY <1>2, <1>4, <2>2 DEF AgentInv, BatchShaped
  <2> QED
    BY <2>1, <2>2
<1>7. Disjoint'
  BY <1>4 DEF AgentInv, Disjoint
<1>8. Awaited'
  <2>1. \A q \in Chunk(r) : run[q].phase = "queued" /\ q \in Callers
    BY ChunkParts
  <2> QED
    BY <1>3, <2>1 DEF AgentInv, Awaited, Delegated
<1>9. \A q \in Callers : Running(q)' <=> Running(q)
  BY <1>3, ChunkParts DEF Running
<1>10. PermitsCounted'
  BY <1>9 DEF AgentInv, PermitsCounted, Delegated
<1>11. \A q \in Callers : TurnCancelled(q)' <=> TurnCancelled(q)
  BY DEF TurnCancelled
<1>12. ASSUME NEW q \in Callers, q # r
       PROVE  Reported(q)' /\ Bounded(q)'
  <2>1. Items(q) \subseteq Callers \ Chunk(r)
    BY <1>12, BatchParts, ChunkParts DEF AgentInv, Disjoint
  <2>2. \A c \in Items(q) : run'[c] = run[c]
    BY <1>3, <2>1
  <2>3. batch'[q] = batch[q] /\ Items(q)' = Items(q)
    BY <1>2, <1>4, <1>12
  <2>4. \A i \in (batch[q].admitted + 1)..Len(batch[q].items) : batch[q].items[i] \in Items(q)
    BY BatchParts DEF AgentInv, BatchShaped, ToSet
  <2>5. Reported(q)'
    <3>1. Reported(q) /\ (TurnCancelled(q)' <=> TurnCancelled(q))
      BY <1>11 DEF AgentInv
    <3>2. ASSUME NEW i \in (batch[q].admitted + 1)..Len(batch[q].items)
          PROVE  run'[batch[q].items[i]].phase = "queued" /\ batch[q].results[batch[q].items[i]] = "none"
      BY <2>2, <2>4, <3>1 DEF Reported
    <3>3. ASSUME NEW c \in Items(q)
          PROVE  /\ run'[c].phase # "idle"
                 /\ batch[q].results[c] = "completed" <=> run'[c].phase = "ok"
                 /\ batch[q].results[c] = "none" => run'[c].phase \notin Outcomes
                 /\ batch[q].results[c] = "not_started" => run'[c].phase = "queued" /\ TurnCancelled(q)'
                 /\ batch[q].results[c] = "aborted" => TurnCancelled(q)'
                 /\ batch[q].results[c] \in {"completed", "failed", "aborted"} => run'[c].phase \in Outcomes
      BY <2>2, <3>1 DEF Reported
    <3>4. \A c \in Items(q)' :
             /\ run'[c].phase # "idle"
             /\ batch'[q].results[c] = "completed" <=> run'[c].phase = "ok"
             /\ batch'[q].results[c] = "none" => run'[c].phase \notin Outcomes
             /\ batch'[q].results[c] = "not_started" => run'[c].phase = "queued" /\ TurnCancelled(q)'
             /\ batch'[q].results[c] = "aborted" => TurnCancelled(q)'
             /\ batch'[q].results[c] \in {"completed", "failed", "aborted"} => run'[c].phase \in Outcomes
      BY <2>3, <3>3
    <3>5. \A i \in (batch'[q].admitted + 1)..Len(batch'[q].items) :
             run'[batch'[q].items[i]].phase = "queued" /\ batch'[q].results[batch'[q].items[i]] = "none"
      BY <2>3, <3>2
    <3> QED
      BY <3>4, <3>5 DEF Reported
  <2>6. Busy(q)' = Busy(q)
    BY <2>2, <2>3 DEF Busy, Active, Running
  <2> QED
    BY <2>3, <2>5, <2>6 DEF AgentInv, Bounded
<1>13. Reported(r)'
  <2>1. ASSUME NEW c \in Items(r)
        PROVE  /\ run'[c].phase # "idle"
               /\ batch[r].results[c] = "completed" <=> run'[c].phase = "ok"
               /\ batch[r].results[c] = "none" => run'[c].phase \notin Outcomes
               /\ batch[r].results[c] = "not_started" => run'[c].phase = "queued" /\ TurnCancelled(r)
               /\ batch[r].results[c] = "aborted" => TurnCancelled(r)
               /\ batch[r].results[c] \in {"completed", "failed", "aborted"} => run'[c].phase \in Outcomes
    <3>1. CASE c \in Chunk(r)
      BY <1>3, <3>1, ChunkParts DEF Outcomes
    <3>2. CASE c \notin Chunk(r)
      <4>1. run'[c] = run[c]
        BY <1>3, <3>2, BatchParts DEF AgentInv
      <4>2. Reported(r)
        BY DEF AgentInv
      <4> QED
        BY <4>1, <4>2 DEF Reported
    <3> QED
      BY <3>1, <3>2
  <2>2. ASSUME NEW i \in (Upto(r) + 1)..Len(batch[r].items)
        PROVE  run'[batch[r].items[i]].phase = "queued" /\ batch[r].results[batch[r].items[i]] = "none"
    <3>1. /\ batch[r].items[i] \notin Chunk(r) /\ batch[r].items[i] \in Items(r)
          /\ i \in (batch[r].admitted + 1)..Len(batch[r].items)
      BY ChunkParts
    <3>2. run[batch[r].items[i]].phase = "queued" /\ batch[r].results[batch[r].items[i]] = "none"
      BY <3>1 DEF AgentInv, Reported
    <3>3. batch[r].items[i] \in Callers
      BY <3>1, BatchParts DEF AgentInv
    <3> QED
      BY <1>3, <3>1, <3>2, <3>3
  <2> QED
    BY <1>2, <1>4, <1>11, <2>1, <2>2 DEF Reported
<1>14. Bounded(r)'
  <2>1. Busy(r)' \subseteq Chunk(r)
    <3>1. \A c \in Items(r) \ Chunk(r) : ~Active(c)'
      BY <1>3, SettledIdle, BatchParts DEF AgentInv, Active, Running
    <3> QED
      BY <1>4, <3>1 DEF Busy
  <2>2. Chunk(r) \in SUBSET Callers /\ IsFiniteSet(Chunk(r)) /\ Cardinality(Chunk(r)) \in Nat
    BY ChunkParts, CallersFinite
  <2>3. Cardinality(Busy(r)') <= Cardinality(Chunk(r)) /\ Cardinality(Busy(r)') \in Nat
    BY <2>1, <2>2, FS_Subset, FS_CardinalityType
  <2>4. batch[r].swarm => Cardinality(Chunk(r)) <= PerDelegation
    BY ChunkParts
  <2>5. batch'[r].swarm => Cardinality(Busy(r)') <= PerDelegation
    BY <1>2, <2>2, <2>3, <2>4, AgentAssumption
  <2> QED
    BY <2>5 DEF Bounded
<1> QED
  BY <1>5, <1>6, <1>7, <1>8, <1>10, <1>12, <1>13, <1>14 DEF AgentInv

\* The next chunk is started, or skipped by a cancelled run.
LEMMA AdmitKeeps ==
    ASSUME AgentInv, NEW r \in Callers, Admit(r)
    PROVE  AgentInv' /\ KeepAsking(r) /\ run[r].phase # "asking"
<1>1. /\ run[r].phase \in {"tool", "compact"} /\ Settled(r) /\ batch[r].admitted < Len(batch[r].items)
      /\ UNCHANGED <<permits, tracked, cancelled>>
  BY DEF Admit
<1>2. CASE run[r].phase = "tool" /\ Cancelled(r)
  <2>0. TurnCancelled(r)
    BY <1>2 DEF Cancelled, TurnCancelled
  <2>1. /\ batch' = [batch EXCEPT ![r].admitted = Upto(r),
                       ![r].results = [c \in DOMAIN @ |-> IF c \in Chunk(r) THEN "not_started" ELSE @[c]]]
        /\ UNCHANGED run
    BY <1>2 DEF Admit, Upto, Chunk
  <2>2. AgentInv'
    BY <1>1, <2>0, <2>1, SkipKeeps
  <2> QED
    BY <1>1, <2>1, <2>2 DEF KeepAsking
<1>3. CASE ~(run[r].phase = "tool" /\ Cancelled(r))
  <2>1. /\ batch' = [batch EXCEPT ![r].admitted = Upto(r)]
        /\ run' = [q \in Callers |-> IF q \in Chunk(r) THEN [run[q] EXCEPT !.phase = "waiting"] ELSE run[q]]
    BY <1>3 DEF Admit, Upto, Chunk
  <2>2. AgentInv'
    BY <1>1, <2>1, StartChunkKeeps
  <2>3. \A q \in Chunk(r) : run[q].phase = "queued"
    BY <1>1, ChunkParts
  <2>4. KeepAsking(r)
    BY <2>1, <2>3 DEF KeepAsking
  <2> QED
    BY <1>1, <2>2, <2>4
<1> QED
  BY <1>2, <1>3

------------------------------------------------------------------------------
(* Every step keeps the invariant.                                          *)

\* The invariant holds at first.
LEMMA InitHolds ==
    ASSUME Init
    PROVE  IInv
<1>1. /\ PoolInit /\ run = [r \in Callers |-> NewRun] /\ batch = [r \in Callers |-> NoBatch]
      /\ permits = MaxAgents /\ tracked = {} /\ cancelled = {}
  BY DEF Init
<1>2. PoolInv
  BY <1>1, PoolStarts
<1>3. Calling
  BY <1>1 DEF Calling, PoolInit, NoCall
<1>4. NoBatch \in BatchRec
  <2>1. <<>> \in Seq(Callers) /\ 0 \in Nat /\ FALSE \in BOOLEAN
    OBVIOUS
  <2>2. <<>> \in [{} -> Marks]
    OBVIOUS
  <2>3. <<>> \in UNION {[S -> Marks] : S \in SUBSET Callers}
    BY <2>2
  <2> QED
    BY <2>1, <2>3 DEF NoBatch, BatchRec
<1>5. NewRun \in RunRec
  BY DEF NewRun, RunRec, Phases
<1>6. MaxAgents \in Nat
  BY AgentAssumption
<1>7. AgentShaped
  BY <1>1, <1>4, <1>5, <1>6 DEF AgentShaped
<1>8. ASSUME NEW r \in Callers
      PROVE  /\ batch[r].items = <<>> /\ batch[r].admitted = 0 /\ Items(r) = {}
             /\ ~batch[r].swarm /\ run[r].phase = "idle"
  BY <1>1 DEF NoBatch, NewRun, Items
<1>9. ASSUME NEW r \in Callers
      PROVE  BatchShaped(r) /\ Reported(r) /\ Bounded(r)
  <2>1. ToSet(<<>>) = {} /\ IsInjective(<<>>) /\ Len(<<>>) = 0
    BY DEF ToSet, IsInjective
  <2>2. BatchShaped(r)
    <3>1. /\ ToSet(batch[r].items) = {} /\ IsInjective(batch[r].items)
          /\ batch[r].admitted <= Len(batch[r].items)
      BY <1>8, <2>1
    <3> QED
      BY <1>8, <3>1 DEF BatchShaped
  <2>3. Reported(r)
    BY <1>8, <2>1 DEF Reported
  <2> QED
    BY <1>8, <2>2, <2>3 DEF Bounded
<1>10. Disjoint /\ Awaited
  BY <1>8 DEF Disjoint, Awaited
<1>11. PermitsCounted
  <2>1. \A r \in Callers : ~Running(r)
    BY <1>8 DEF Running
  <2>2. Cardinality(tracked) = 0
    BY <1>1, FS_EmptySet
  <2> QED
    BY <1>1, <1>6, <2>1, <2>2 DEF PermitsCounted
<1> QED
  BY <1>2, <1>3, <1>7, <1>9, <1>10, <1>11 DEF IInv, AgentInv

\* The pool when its variables stand.
LEMMA PoolStands ==
    ASSUME PoolInv, UNCHANGED poolVars
    PROVE  PoolInv'
<1>1. UNCHANGED <<freeze, global, free, active, call, errors, dropped>>
  BY DEF poolVars
<1> QED
  BY <1>1 DEF PoolInv, PoolShaped, PoolCounts, GlobalHolders, HoldersOf, FlyingAt, HoldsGlobal,
              HoldsProvider, InFlight, Routed

\* The runs when their variables stand.
LEMMA AgentsStand ==
    ASSUME AgentInv, UNCHANGED <<run, batch, permits, tracked>>,
           cancelled \subseteq cancelled', cancelled' \subseteq Turns
    PROVE  AgentInv'
<1>1. \A r \in Callers : \A c \in Items(r) : Alike(c)
  BY DEF Alike
<1>2. Disjoint' /\ \A r \in Callers : BatchShaped(r)' /\ Reported(r)' /\ Bounded(r)'
  BY <1>1, BatchesKept
<1>3. AgentShaped' /\ Awaited' /\ PermitsCounted'
  BY DEF AgentInv, AgentShaped, Awaited, PermitsCounted, Delegated, Running
<1> QED
  BY <1>2, <1>3 DEF AgentInv

\* The parts together: r may stop asking when it has no call left.
LEMMA Together ==
    ASSUME IInv, NEW r \in Callers, PoolInv', AgentInv', KeepAsking(r),
           \A q \in Callers \ {r} : call'[q] = call[q],
           run'[r].phase = "asking" \/ call'[r].phase = "none"
    PROVE  IInv'
<1>1. Calling'
  BY DEF IInv, Calling, KeepAsking
<1> QED
  BY <1>1 DEF IInv

\* Only the run of r moves, so nobody else stops asking.
LEMMA MovesAsking ==
    ASSUME NEW r \in Callers, Moves(r)
    PROVE  KeepAsking(r)
BY DEF Moves, KeepAsking

\* A run that has no call ends.
LEMMA EndStep ==
    ASSUME IInv, NEW r \in Callers, NEW outcome \in Outcomes, Running(r), run[r].phase # "asking",
           End(r, outcome), UNCHANGED poolVars, UNCHANGED cancelled
    PROVE  IInv'
<1>1. AgentInv' /\ Moves(r)
  BY EndKeeps DEF IInv
<1>2. PoolInv' /\ UNCHANGED call
  BY PoolStands DEF IInv, poolVars
<1>3. call[r].phase = "none"
  BY DEF IInv, Calling
<1> QED
  BY <1>1, <1>2, <1>3, MovesAsking, Together

\* A run that has no call goes on without one.
LEMMA GoStep ==
    ASSUME IInv, NEW r \in Callers, GoesOn(r), run[r].phase # "asking", UNCHANGED poolVars
    PROVE  IInv'
<1>1. AgentInv' /\ Moves(r)
  BY GoesOnKeeps DEF IInv, GoesOn
<1>2. PoolInv' /\ UNCHANGED call
  BY PoolStands DEF IInv, poolVars
<1>3. call[r].phase = "none"
  BY DEF IInv, Calling
<1> QED
  BY <1>1, <1>2, <1>3, MovesAsking, Together

\* A running run is moved to a phase that is running.
LEMMA GoesTo ==
    ASSUME AgentInv, NEW r \in Callers, Running(r),
           NEW x \in RunRec, run' = [run EXCEPT ![r] = x],
           x.phase \in {"looping", "preflight", "asking"},
           UNCHANGED <<batch, permits, tracked, cancelled>>
    PROVE  GoesOn(r) /\ run'[r] = x
BY DEF AgentInv, AgentShaped, GoesOn, Moves, Running, Outcomes

\* A run asks a model.
LEMMA AskStep ==
    ASSUME IInv, NEW r \in Callers, run[r].phase \in {"preflight", "compact"}, AskModel(r),
           Move(r, "asking"), UNCHANGED <<batch, permits, tracked, cancelled>>
    PROVE  IInv'
<1>1. run \in [Callers -> RunRec] /\ run[r].fresh \in BOOLEAN /\ Running(r)
  BY DEF IInv, AgentInv, AgentShaped, RunRec, Running, Outcomes
<1>2. /\ [run[r] EXCEPT !.phase = "asking"] \in RunRec
      /\ [run[r] EXCEPT !.phase = "asking"].phase = "asking"
  BY <1>1 DEF RunRec, Phases
<1>3. run' = [run EXCEPT ![r] = [run[r] EXCEPT !.phase = "asking"]]
  BY <1>1 DEF Move
<1>4. GoesOn(r) /\ run'[r].phase = "asking"
  BY <1>1, <1>2, <1>3, GoesTo DEF IInv
<1>5. AgentInv' /\ Moves(r)
  BY <1>4, GoesOnKeeps DEF IInv, GoesOn
<1>6. call[r].phase \in {"none"} \cup Ended
  BY DEF IInv, Calling
<1>7. Ask(r, run[r].fresh) /\ UNCHANGED <<freeze, global, free, active, errors, dropped>>
  BY DEF AskModel
<1>8. Balanced(r)
  BY <1>1, <1>6, <1>7, AskBalanced DEF IInv
<1>9. PoolInv' /\ \A q \in Callers \ {r} : call'[q] = call[q]
  BY <1>8, PoolStep DEF IInv, Balanced
<1> QED
  BY <1>4, <1>5, <1>9, MovesAsking, Together

\* The end of its call reaches a run.
LEMMA HearPool ==
    ASSUME IInv, NEW r \in Callers, NEW phase \in Ended, Hear(r, phase)
    PROVE  /\ PoolInv' /\ call'[r].phase = "none" /\ \A q \in Callers \ {r} : call'[q] = call[q]
           /\ Running(r) /\ UNCHANGED cancelled
<1>1. /\ run[r].phase = "asking" /\ call[r].phase \in Ended /\ call' = [call EXCEPT ![r] = NoCall]
      /\ UNCHANGED <<freeze, global, free, active, errors, dropped>> /\ UNCHANGED cancelled
  BY DEF Hear
<1>2. Balanced(r)
  BY <1>1, AskBalanced DEF IInv
<1>3. PoolInv' /\ \A q \in Callers \ {r} : call'[q] = call[q]
  BY <1>2, PoolStep DEF IInv, Balanced
<1>4. call'[r].phase = "none"
  BY <1>1 DEF IInv, PoolInv, PoolShaped, NoCall
<1>5. Running(r)
  BY <1>1 DEF Running, Outcomes
<1> QED
  BY <1>1, <1>3, <1>4, <1>5

\* It ends with its call.
LEMMA HearEnd ==
    ASSUME IInv, NEW r \in Callers, NEW phase \in Ended, Hear(r, phase),
           NEW outcome \in Outcomes, End(r, outcome)
    PROVE  IInv'
<1>1. /\ PoolInv' /\ call'[r].phase = "none" /\ \A q \in Callers \ {r} : call'[q] = call[q]
      /\ Running(r) /\ UNCHANGED cancelled
  BY HearPool
<1>2. AgentInv' /\ Moves(r)
  BY <1>1, EndKeeps DEF IInv
<1> QED
  BY <1>1, <1>2, MovesAsking, Together

\* The child that summarizes.
LEMMA SummarizeKeeps ==
    ASSUME AgentInv, NEW r \in Callers, Running(r), NEW again \in BOOLEAN, Summarize(r, again),
           UNCHANGED <<permits, tracked, cancelled>>
    PROVE  AgentInv' /\ KeepAsking(r) /\ run'[r].phase = "compact"
<1>1. PICK i \in DOMAIN ChildrenOf[r] :
         NextUnused(r, i, i) /\ Delegate(r, <<ChildrenOf[r][i]>>, FALSE, "compact", again)
  BY DEF Summarize
<1>2. ChildrenOf[r] \in Seq(Callers)
  BY AgentAssumption
<1>3. i \in 1..i /\ ChildrenOf[r][i] \in Callers
  BY <1>2
<1>4. PICK c \in Callers : c = ChildrenOf[r][i]
  BY <1>3
<1>5. run[c].phase = "idle" /\ c \in Children(r)
  BY <1>1, <1>3, <1>4 DEF NextUnused, Children, ToSet
<1>6. <<c>> \in Seq(Callers) /\ IsInjective(<<c>>) /\ ToSet(<<c>>) = {c}
  BY DEF IsInjective, ToSet
<1> QED
  BY <1>1, <1>4, <1>5, <1>6, DelegateKeeps

\* The children that tools delegate to.
LEMMA ToolsKeep ==
    ASSUME AgentInv, NEW r \in Callers, Running(r), NEW i \in DOMAIN ChildrenOf[r],
           NEW n \in DOMAIN ChildrenOf[r], NEW swarm \in BOOLEAN, NextUnused(r, i, n),
           Delegate(r, SubSeq(ChildrenOf[r], i, n), swarm, "tool", FALSE),
           UNCHANGED <<permits, tracked, cancelled>>
    PROVE  AgentInv' /\ KeepAsking(r) /\ run'[r].phase = "tool"
<1>1. ChildrenOf[r] \in Seq(Callers) /\ IsInjective(ChildrenOf[r]) /\ i <= n
  BY AgentAssumption DEF NextUnused
<1>2. PICK items : items = SubSeq(ChildrenOf[r], i, n)
  OBVIOUS
<1>3. /\ items \in Seq(Callers) /\ Len(items) = n - i + 1
      /\ \A k \in 1..(n - i + 1) : items[k] = ChildrenOf[r][i + k - 1]
  BY <1>1, <1>2
<1>4. \A k \in 1..(n - i + 1) : i + k - 1 \in DOMAIN ChildrenOf[r] /\ i + k - 1 \in i..n
  BY <1>1
<1>5. IsInjective(items)
  <2>1. \A a, b \in DOMAIN ChildrenOf[r] : ChildrenOf[r][a] = ChildrenOf[r][b] => a = b
    BY <1>1 DEF IsInjective
  <2>2. ASSUME NEW a \in 1..(n - i + 1), NEW b \in 1..(n - i + 1), items[a] = items[b]
        PROVE  a = b
    <3>1. i + a - 1 = i + b - 1
      BY <1>3, <1>4, <2>1, <2>2
    <3> QED
      BY <1>1, <3>1
  <2>3. DOMAIN items = 1..(n - i + 1)
    BY <1>3
  <2> QED
    BY <2>2, <2>3 DEF IsInjective
<1>6. ASSUME NEW c \in ToSet(items)
      PROVE  c \in Children(r) /\ run[c].phase = "idle"
  <2>1. PICK k \in 1..(n - i + 1) : c = items[k]
    BY <1>3 DEF ToSet
  <2>2. PICK j \in i..n : c = ChildrenOf[r][j] /\ j \in DOMAIN ChildrenOf[r]
    BY <1>3, <1>4, <2>1
  <2>3. j \in 1..n /\ j >= i
    BY <1>1, <2>2
  <2> QED
    BY <2>2, <2>3 DEF NextUnused, Children, ToSet
<1> QED
  BY <1>2, <1>3, <1>5, <1>6, DelegateKeeps

\* The top of the loop: cancelled, out of iterations, or once more.
LEMMA IterateStep ==
    ASSUME IInv, NEW r \in Callers, Iterate(r)
    PROVE  IInv'
<1>1. /\ run[r].phase = "looping" /\ UNCHANGED poolVars /\ UNCHANGED cancelled
      /\ run \in [Callers -> RunRec] /\ run[r] \in RunRec
  BY DEF Iterate, IInv, AgentInv, AgentShaped
<1>2. Running(r) /\ run[r].phase # "asking"
  BY <1>1 DEF Running, Outcomes
<1>3. CASE Cancelled(r)
  <2>1. End(r, "cancelled") /\ "cancelled" \in Outcomes
    BY <1>3 DEF Iterate, Outcomes
  <2> QED
    BY <1>1, <1>2, <2>1, EndStep
<1>4. CASE ~Cancelled(r) /\ run[r].iteration = MaxIterations[r]
  <2>1. End(r, "failed") /\ "failed" \in Outcomes
    BY <1>4 DEF Iterate, Outcomes
  <2> QED
    BY <1>1, <1>2, <2>1, EndStep
<1>5. CASE ~Cancelled(r) /\ run[r].iteration # MaxIterations[r]
  <2>1. /\ run' = [run EXCEPT ![r].phase = "preflight", ![r].iteration = @ + 1, ![r].again = FALSE]
        /\ UNCHANGED <<batch, permits, tracked>>
    BY <1>5 DEF Iterate
  <2>2. PICK x : x = [run[r] EXCEPT !.phase = "preflight", !.iteration = run[r].iteration + 1,
                                    !.again = FALSE]
    OBVIOUS
  <2>3. x \in RunRec /\ x.phase = "preflight"
    <3>1. PICK y \in RunRec : y = [run[r] EXCEPT !.phase = "preflight", !.again = FALSE]
      BY <1>1 DEF RunRec, Phases
    <3>2. run[r].iteration + 1 \in Nat
      BY <1>1 DEF RunRec
    <3>3. x = [y EXCEPT !.iteration = run[r].iteration + 1]
      BY <1>1, <2>2, <3>1 DEF RunRec
    <3>4. y.phase = "preflight"
      BY <1>1, <3>1 DEF RunRec
    <3> QED
      BY <3>1, <3>2, <3>3, <3>4 DEF RunRec
  <2>4. run' = [run EXCEPT ![r] = x]
    BY <1>1, <2>1, <2>2 DEF RunRec
  <2>5. GoesOn(r)
    BY <1>1, <1>2, <2>1, <2>3, <2>4, GoesTo DEF IInv
  <2> QED
    BY <1>1, <1>2, <2>5, GoStep
<1> QED
  BY <1>3, <1>4, <1>5

\* The tools of a response: none that delegates, or one batch.
LEMMA UseToolsStep ==
    ASSUME IInv, NEW r \in Callers, UseTools(r)
    PROVE  IInv'
<1>1. Hear(r, "answered") /\ "answered" \in Ended /\ UNCHANGED <<permits, tracked>>
  BY DEF UseTools, Ended
<1>2. /\ PoolInv' /\ call'[r].phase = "none" /\ \A q \in Callers \ {r} : call'[q] = call[q]
      /\ Running(r) /\ UNCHANGED cancelled
  BY <1>1, HearPool
<1>3. CASE run' = [run EXCEPT ![r].phase = "looping", ![r].fresh = FALSE] /\ UNCHANGED batch
  <2>1. run \in [Callers -> RunRec] /\ run[r] \in RunRec
    BY DEF IInv, AgentInv, AgentShaped
  <2>2. PICK x : x = [run[r] EXCEPT !.phase = "looping", !.fresh = FALSE]
    OBVIOUS
  <2>3. x \in RunRec /\ x.phase = "looping"
    BY <2>1, <2>2 DEF RunRec, Phases
  <2>4. run' = [run EXCEPT ![r] = x]
    BY <1>3, <2>1, <2>2 DEF RunRec
  <2>5. GoesOn(r)
    BY <1>1, <1>2, <1>3, <2>3, <2>4, GoesTo DEF IInv
  <2>6. AgentInv' /\ Moves(r)
    BY <2>5, GoesOnKeeps DEF IInv, GoesOn
  <2> QED
    BY <1>2, <2>6, MovesAsking, Together
<1>4. CASE \E i, n \in DOMAIN ChildrenOf[r], swarm \in BOOLEAN :
              NextUnused(r, i, n) /\ Delegate(r, SubSeq(ChildrenOf[r], i, n), swarm, "tool", FALSE)
  <2>1. AgentInv' /\ KeepAsking(r)
    BY <1>1, <1>2, <1>4, ToolsKeep DEF IInv
  <2> QED
    BY <1>2, <2>1, Together
<1> QED
  BY <1>3, <1>4 DEF UseTools

\* A history is compacted before the model is asked, or it is asked.
LEMMA PreflightStep ==
    ASSUME IInv, NEW r \in Callers, Preflight(r)
    PROVE  IInv'
<1>1. /\ run[r].phase = "preflight" /\ UNCHANGED <<permits, tracked, cancelled>>
      /\ Running(r) /\ call[r].phase = "none"
  BY DEF Preflight, Running, Outcomes, IInv, Calling
<1>2. CASE AskModel(r) /\ Move(r, "asking") /\ UNCHANGED batch
  BY <1>1, <1>2, AskStep
<1>3. CASE Summarize(r, FALSE) /\ UNCHANGED poolVars
  <2>1. AgentInv' /\ KeepAsking(r)
    BY <1>1, <1>3, SummarizeKeeps DEF IInv
  <2>2. PoolInv' /\ UNCHANGED call
    BY <1>3, PoolStands DEF IInv, poolVars
  <2> QED
    BY <1>1, <2>1, <2>2, Together
<1> QED
  BY <1>2, <1>3 DEF Preflight

\* A failed call ends the run, or is answered with a compaction.
LEMMA ModelFailsStep ==
    ASSUME IInv, NEW r \in Callers, ModelFails(r)
    PROVE  IInv'
<1>1. Hear(r, "failed") /\ "failed" \in Ended /\ "failed" \in Outcomes
  BY DEF ModelFails, Ended, Outcomes
<1>2. CASE End(r, "failed")
  BY <1>1, <1>2, HearEnd
<1>3. CASE Summarize(r, TRUE) /\ UNCHANGED <<permits, tracked>>
  <2>1. /\ PoolInv' /\ call'[r].phase = "none" /\ \A q \in Callers \ {r} : call'[q] = call[q]
        /\ Running(r) /\ UNCHANGED cancelled
    BY <1>1, HearPool
  <2>2. AgentInv' /\ KeepAsking(r)
    BY <1>3, <2>1, SummarizeKeeps DEF IInv
  <2> QED
    BY <2>1, <2>2, Together
<1> QED
  BY <1>2, <1>3 DEF ModelFails

\* A run hears of its results, or of its summary.
LEMMA GatherStep ==
    ASSUME IInv, NEW r \in Callers, GatherTools(r) \/ Compacted(r)
    PROVE  IInv'
<1>1. /\ run \in [Callers -> RunRec] /\ run[r] \in RunRec
  BY DEF IInv, AgentInv, AgentShaped
<1>2. CASE GatherTools(r)
  <2>1. /\ run[r].phase = "tool" /\ run' = [run EXCEPT ![r].phase = "looping", ![r].fresh = FALSE]
        /\ UNCHANGED <<poolVars, batch, permits, tracked, cancelled>>
    BY <1>2 DEF GatherTools
  <2>2. PICK x : x = [run[r] EXCEPT !.phase = "looping", !.fresh = FALSE]
    OBVIOUS
  <2>3. x \in RunRec /\ x.phase = "looping"
    BY <1>1, <2>2 DEF RunRec, Phases
  <2>4. run' = [run EXCEPT ![r] = x]
    BY <1>1, <2>1, <2>2 DEF RunRec
  <2>5. Running(r) /\ run[r].phase # "asking"
    BY <2>1 DEF Running, Outcomes
  <2>6. GoesOn(r)
    BY <2>1, <2>3, <2>4, <2>5, GoesTo DEF IInv
  <2> QED
    BY <2>1, <2>5, <2>6, GoStep
<1>3. CASE Compacted(r)
  <2>1. run[r].phase = "compact" /\ UNCHANGED cancelled /\ Running(r) /\ "failed" \in Outcomes
    BY <1>3 DEF Compacted, Running, Outcomes
  <2>2. CASE End(r, "failed") /\ UNCHANGED poolVars
    BY <2>1, <2>2, EndStep
  <2>3. CASE AskModel(r) /\ Move(r, "asking") /\ UNCHANGED <<batch, permits, tracked>>
    BY <2>1, <2>3, AskStep
  <2> QED
    BY <1>3, <2>2, <2>3 DEF Compacted
<1> QED
  BY <1>2, <1>3

\* A step of a call.
LEMMA CallStep ==
    ASSUME IInv, NEW r \in Callers, Converse(r) \/ Fail(r) \/ CancelCall(r), UNCHANGED agentVars
    PROVE  IInv'
<1>1. Balanced(r)
  BY ConverseBalanced DEF IInv
<1>2. PoolInv' /\ \A q \in Callers \ {r} : call'[q] = call[q]
  BY <1>1, PoolStep DEF IInv, Balanced
<1>3. UNCHANGED <<run, batch, permits, tracked, cancelled>>
  BY DEF agentVars
<1>4. AgentInv'
  BY <1>3, AgentsStand DEF IInv, AgentInv, AgentShaped
<1>5. call[r].phase # "none"
  BY DEF Converse, Select, AcquireGlobal, AcquireProvider, Respond, StreamStarts, Delta, StreamEnds,
         Fail, CancelCall, Waiting
<1>6. run'[r].phase = "asking" /\ KeepAsking(r)
  BY <1>3, <1>5 DEF IInv, Calling, KeepAsking
<1> QED
  BY <1>2, <1>4, <1>6, Together

\* Steps of a run that begins, and its admissions.
LEMMA StartStep ==
    ASSUME IInv, NEW r \in Callers, Begin(r) \/ Acquire(r) \/ Admit(r)
    PROVE  IInv'
<1>1. /\ UNCHANGED poolVars
      /\ Begin(r) \/ Acquire(r) => run[r].phase # "asking" /\ Moves(r)
  <2>1. run \in [Callers -> RunRec]
    BY DEF IInv, AgentInv, AgentShaped
  <2>2. ASSUME NEW phase \in Phases, Move(r, phase)
        PROVE  Moves(r)
    <3>1. [run[r] EXCEPT !.phase = phase] \in RunRec
      BY <2>1 DEF RunRec
    <3> QED
      BY <2>1, <2>2, <3>1 DEF Move, Moves
  <2>3. {"waiting", "looping"} \subseteq Phases
    BY DEF Phases
  <2>4. Begin(r) => run[r].phase # "asking" /\ Moves(r)
    BY <2>2, <2>3 DEF Begin
  <2>5. Acquire(r) => run[r].phase # "asking" /\ Moves(r)
    BY <2>2, <2>3 DEF Acquire
  <2> QED
    BY <2>4, <2>5 DEF Begin, Acquire, Admit
<1>2. AgentInv' /\ KeepAsking(r) /\ run[r].phase # "asking"
  <2>1. CASE Begin(r)
    BY <1>1, <2>1, BeginKeeps, MovesAsking DEF IInv
  <2>2. CASE Acquire(r)
    BY <1>1, <2>2, AcquireKeeps, MovesAsking DEF IInv
  <2>3. CASE Admit(r)
    BY <2>3, AdmitKeeps DEF IInv
  <2> QED
    BY <2>1, <2>2, <2>3
<1>3. PoolInv' /\ UNCHANGED call
  BY <1>1, PoolStands DEF IInv, poolVars
<1>4. call[r].phase = "none"
  BY <1>2 DEF IInv, Calling
<1> QED
  BY <1>2, <1>3, <1>4, Together

\* Steps in which a run ends.
LEMMA EndsStep ==
    ASSUME IInv, NEW r \in Callers, FailToStart(r) \/ Finish(r) \/ ModelCancelled(r)
    PROVE  IInv'
<1>1. {"ok", "failed", "cancelled"} \subseteq Outcomes /\ {"answered", "cancelled"} \subseteq Ended
  BY DEF Outcomes, Ended
<1>2. CASE FailToStart(r)
  <2>1. /\ run[r].phase = "looping" /\ Running(r) /\ End(r, "failed")
        /\ UNCHANGED poolVars /\ UNCHANGED cancelled
    BY <1>2 DEF FailToStart, Running, Outcomes
  <2> QED
    BY <1>1, <2>1, EndStep
<1>3. CASE Finish(r)
  <2>1. Hear(r, "answered") /\ (End(r, "ok") \/ End(r, "failed"))
    BY <1>3 DEF Finish
  <2> QED
    BY <1>1, <2>1, HearEnd
<1>4. CASE ModelCancelled(r)
  <2>1. Hear(r, "cancelled") /\ End(r, "cancelled")
    BY <1>4 DEF ModelCancelled
  <2> QED
    BY <1>1, <2>1, HearEnd
<1> QED
  BY <1>2, <1>3, <1>4

\* A turn is cancelled; a freeze ends.
LEMMA OutsideStep ==
    ASSUME IInv,
           (\E t \in Turns : CancelTurn(t))
           \/ \E p \in Providers : (Expire(p) \/ CheckAndThaw(p)) /\ UNCHANGED agentVars
    PROVE  IInv'
<1>1. CASE \E t \in Turns : CancelTurn(t)
  <2>1. /\ UNCHANGED <<run, batch, permits, tracked>> /\ UNCHANGED poolVars
        /\ cancelled \subseteq cancelled' /\ cancelled' \subseteq Turns
    BY <1>1 DEF CancelTurn, IInv, AgentInv, AgentShaped
  <2>2. AgentInv' /\ PoolInv'
    BY <2>1, AgentsStand, PoolStands DEF IInv
  <2> QED
    BY <2>1, <2>2 DEF IInv, Calling, poolVars
<1>2. CASE \E p \in Providers : (Expire(p) \/ CheckAndThaw(p)) /\ UNCHANGED agentVars
  <2>1. PoolInv' /\ UNCHANGED call /\ UNCHANGED agentVars
    BY <1>2, ThawKeeps DEF IInv, Expire, CheckAndThaw
  <2>2. AgentInv'
    BY <2>1, AgentsStand DEF IInv, AgentInv, AgentShaped, agentVars
  <2> QED
    BY <2>1, <2>2 DEF IInv, Calling, agentVars
<1> QED
  BY <1>1, <1>2

\* The invariant is inductive.
LEMMA NextKeeps ==
    ASSUME IInv, [Next]_vars
    PROVE  IInv'
<1>1. CASE Proceed
  BY <1>1, StartStep, IterateStep, PreflightStep, UseToolsStep, EndsStep, ModelFailsStep, GatherStep,
     CallStep DEF Proceed, Calls, CancelsCall
<1>2. CASE \E r \in Callers : Begin(r) \/ FailToStart(r) \/ Fails(r)
  BY <1>2, StartStep, EndsStep, CallStep DEF Fails
<1>3. CASE (\E t \in Turns : CancelTurn(t))
           \/ \E p \in Providers : (Expire(p) \/ CheckAndThaw(p)) /\ UNCHANGED agentVars
  BY <1>3, OutsideStep
<1>4. CASE UNCHANGED vars
  <2>1. UNCHANGED poolVars /\ UNCHANGED agentVars
    BY <1>4 DEF vars
  <2>2. AgentInv' /\ PoolInv'
    BY <2>1, AgentsStand, PoolStands DEF IInv, AgentInv, AgentShaped, agentVars
  <2> QED
    BY <2>1, <2>2 DEF IInv, Calling, agentVars, poolVars
<1> QED
  BY <1>1, <1>2, <1>3, <1>4 DEF Next

------------------------------------------------------------------------------
(* The theorems.                                                            *)

\* The inductive invariant holds in every state of every behaviour.
THEOREM InvariantCorrect == Spec => []IInv
<1>1. Init => IInv
  BY InitHolds
<1>2. IInv /\ [Next]_vars => IInv'
  BY NextKeeps
<1> QED
  BY <1>1, <1>2, PTL DEF Spec

(* Every variable keeps its type: the permits of the pools stay within      *)
(* their sizes, the counters of the providers never go below zero, a batch  *)
(* has one result per item and admits no more than it has.                  *)
THEOREM TypeCorrect == Spec => []TypeOK
<1>1. IInv => TypeOK
  BY AgentTyped
<1> QED
  BY <1>1, InvariantCorrect, PTL

(* Permits, tracker and counters agree with the runs and calls that hold    *)
(* them, on every path out of a run and out of a request (delegate in       *)
(* y-agent's pool; ProviderPool's permits and ActiveGuard).                 *)
THEOREM AccountedCorrect == Spec => []Accounted
<1>1. IInv => Accounted
  <2> SUFFICES ASSUME IInv
               PROVE  Accounted
    OBVIOUS
  <2>1. PoolAccounted
    BY PoolCounted DEF IInv, PoolInv
  <2>2. tracked \subseteq Callers /\ PermitsCounted
    BY DEF IInv, AgentInv, AgentShaped
  <2>3. tracked = {r \in Callers : Delegated(r) /\ Running(r)}
    BY <2>2 DEF PermitsCounted
  <2> QED
    BY <2>1, <2>2, <2>3 DEF Accounted, PermitsCounted
<1> QED
  BY <1>1, InvariantCorrect, PTL

(* docs/standards/AGENT_AUTONOMY.md 4.7: what a batch reports of an item is *)
(* what became of its run, and no more of a swarm's items run at once than  *)
(* max_agents_per_delegation, whatever fails and whenever it is cancelled.  *)
THEOREM BatchFaithfulCorrect == Spec => []BatchFaithful
<1>1. IInv => BatchFaithful
  <2> SUFFICES ASSUME IInv, NEW r \in Callers
               PROVE  /\ \A c \in Items(r) :
                            /\ batch[r].results[c] = "completed" <=> run[c].phase = "ok"
                            /\ batch[r].results[c] = "none" => run[c].phase \notin Outcomes
                            /\ batch[r].results[c] = "not_started" => run[c].phase = "queued" /\ TurnCancelled(r)
                            /\ batch[r].results[c] = "aborted" => TurnCancelled(r)
                      /\ batch[r].swarm => Cardinality(Busy(r)) <= PerDelegation
    BY DEF BatchFaithful, Items, Busy, Active
  <2>1. Reported(r) /\ Bounded(r)
    BY DEF IInv, AgentInv
  <2> QED
    BY <2>1 DEF Reported, Bounded
<1> QED
  BY <1>1, InvariantCorrect, PTL
=============================================================================
