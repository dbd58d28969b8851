---------------------------- MODULE ProviderPool ----------------------------
(***************************************************************************)
(* The provider pool (y-provider: pool, router, freeze, health) and the    *)
(* loop over routes that asks it for one model response (call_llm in       *)
(* y-service). A caller selects a provider that is not frozen and has room, *)
(* waits for a global permit and then for one of the provider, and sends   *)
(* its request; the permits come back when the request returns, although a *)
(* stream is still to be read. An error freezes the provider, and call_llm *)
(* decides whether the same turn is sent again.                            *)
(*                                                                         *)
(* The actions take the caller; AgentDelegation composes them with the     *)
(* agent runs that call. Same-provider retries happen inside "requesting", *)
(* which keeps its permits through them. Prices, metrics, request defaults *)
(* and the choice among candidates (any of them) are left out.             *)
(***************************************************************************)
EXTENDS Integers, Sequences, FiniteSets

CONSTANTS
    Callers,          \* who asks for responses, each one at a time
    Providers,
    MaxConcurrency,   \* [Providers -> Nat \ {0}]
    MaxGlobal,        \* permits over all providers
    Routes,           \* [Callers -> Seq([serves, pinned])], the primary route first
    Streaming,        \* callers that read a stream (progress is Some)
    NoProvider,
    MaxErrors         \* bound: errors the providers answer with, to a health check too

(***************************************************************************)
(* What an error says of the provider: nothing ("request": context window, *)
(* content filter), that it is ill for a while ("transient": rate limit,   *)
(* 5xx, network, unknown; "lasting": authentication, model not found), or  *)
(* for good ("permanent": key, quota, balance).                            *)
(***************************************************************************)
ErrorKinds == {"request", "transient", "lasting", "permanent"}

FreezeStates == {"no", "timed", "due", "permanent"}

ASSUME ProviderAssumption ==
    /\ IsFiniteSet(Callers)
    /\ MaxConcurrency \in [Providers -> Nat \ {0}]
    /\ MaxGlobal \in Nat \ {0}
    /\ Routes \in [Callers -> Seq([serves : SUBSET Providers, pinned : BOOLEAN])]
    /\ \A c \in Callers : Routes[c] # <<>>
    /\ Streaming \subseteq Callers
    /\ NoProvider \notin Providers
    /\ MaxErrors \in Nat

VARIABLES
    freeze,    \* [Providers -> FreezeStates]; "due": thaw_at has passed
    global,    \* free permits of global_semaphore
    free,      \* free permits of each provider's semaphore
    active,    \* active_requests of each provider
    call,      \* the model call of each caller
    errors,    \* errors answered so far (bounded)
    dropped    \* requests whose future was dropped while the provider worked

poolVars == <<freeze, global, free, active, call, errors, dropped>>

NoCall == [phase |-> "none", route |-> 1, attempt |-> 0, provider |-> NoProvider,
           fresh |-> TRUE, shown |-> FALSE, error |-> "none"]

Waiting == {"routing", "global", "provider"}
Ended   == {"answered", "failed", "cancelled"}

PoolTypeOK ==
    /\ freeze \in [Providers -> FreezeStates]
    /\ global \in 0..MaxGlobal
    /\ free \in [Providers -> Nat] /\ \A p \in Providers : free[p] <= MaxConcurrency[p]
    /\ active \in [Providers -> Nat]
    /\ dropped \in [Providers -> Nat]
    /\ errors \in 0..MaxErrors
    /\ call \in [Callers ->
                   [phase : {"none", "requesting", "streaming"} \cup Waiting \cup Ended,
                    route : Nat, attempt : 0..1, provider : Providers \cup {NoProvider},
                    fresh : BOOLEAN, shown : BOOLEAN,
                    error : ErrorKinds \cup {"none", "unavailable"}]]

PoolInit ==
    /\ freeze = [p \in Providers |-> "no"]
    /\ global = MaxGlobal
    /\ free = MaxConcurrency
    /\ active = [p \in Providers |-> 0]
    /\ call = [c \in Callers |-> NoCall]
    /\ errors = 0
    /\ dropped = [p \in Providers |-> 0]

Goto(c, phase) == call' = [call EXCEPT ![c].phase = phase]

(* call_llm begins; "fresh" is can_replay_turn: no tool result since the    *)
(* last user message.                                                       *)
Ask(c, fresh) ==
    call' = [call EXCEPT ![c] = [NoCall EXCEPT !.phase = "routing", !.fresh = fresh]]

------------------------------------------------------------------------------
Route(c) == Routes[c][call[c].route]

(* RoutePriority::Normal leaves a fifth of a provider's permits alone.      *)
HasRoom(p) == free[p] > MaxConcurrency[p] \div 5

(* is_frozen thaws a provider whose time has come, on the way.              *)
Thawed == [p \in Providers |-> IF freeze[p] = "due" THEN "no" ELSE freeze[p]]

Candidates(c) == {p \in Route(c).serves : Thawed[p] = "no" /\ HasRoom(p)}

(* The next route, or the end: the first error of a route is reported.      *)
NextRoute(c, error) ==
    LET last == IF call[c].error = "none" \/ error # "unavailable" THEN error
                ELSE call[c].error
    IN  IF call[c].route < Len(Routes[c])
        THEN [call[c] EXCEPT !.phase = "routing", !.route = @ + 1, !.attempt = 0,
                             !.provider = NoProvider, !.error = last]
        ELSE [call[c] EXCEPT !.phase = "failed", !.provider = NoProvider, !.error = last]

(* A provider the user pinned is taken whatever its state.                  *)
Select(c) ==
    /\ call[c].phase = "routing"
    /\ IF Route(c).pinned
       THEN /\ \E p \in Route(c).serves :
                  call' = [call EXCEPT ![c].phase = "global", ![c].provider = p]
            /\ UNCHANGED freeze
       ELSE /\ freeze' = Thawed
            /\ \/ \E p \in Candidates(c) :
                     call' = [call EXCEPT ![c].phase = "global", ![c].provider = p]
               \/ /\ Candidates(c) = {}
                  /\ call' = [call EXCEPT ![c] = NextRoute(c, "unavailable")]
    /\ UNCHANGED <<global, free, active, errors, dropped>>

AcquireGlobal(c) ==
    /\ call[c].phase = "global" /\ global > 0
    /\ global' = global - 1
    /\ Goto(c, "provider")
    /\ UNCHANGED <<freeze, free, active, errors, dropped>>

AcquireProvider(c) ==
    LET p == call[c].provider
    IN  /\ call[c].phase = "provider" /\ free[p] > 0
        /\ free' = [free EXCEPT ![p] = @ - 1]
        /\ active' = [active EXCEPT ![p] = @ + 1]
        /\ Goto(c, "requesting")
        /\ UNCHANGED <<freeze, global, errors, dropped>>

(* Both permits are dropped when chat_completion(_stream) returns.          *)
ReturnPermits(c) ==
    /\ global' = global + 1
    /\ free' = [free EXCEPT ![call[c].provider] = @ + 1]

Leave(c) == active' = [active EXCEPT ![call[c].provider] = @ - 1]

Respond(c) ==
    /\ call[c].phase = "requesting" /\ c \notin Streaming
    /\ ReturnPermits(c)
    /\ Leave(c)
    /\ Goto(c, "answered")
    /\ UNCHANGED <<freeze, errors, dropped>>

(* The guard goes with the permits, when the stream begins.                 *)
StreamStartsUncounted(c) ==
    /\ call[c].phase = "requesting" /\ c \in Streaming
    /\ ReturnPermits(c)
    /\ Leave(c)
    /\ Goto(c, "streaming")
    /\ UNCHANGED <<freeze, errors, dropped>>

(* A stream goes on without the permits; its guard keeps it counted.        *)
StreamStarts(c) ==
    /\ call[c].phase = "requesting" /\ c \in Streaming
    /\ ReturnPermits(c)
    /\ Goto(c, "streaming")
    /\ UNCHANGED <<freeze, active, errors, dropped>>

Delta(c) ==
    /\ call[c].phase = "streaming" /\ ~call[c].shown
    /\ call' = [call EXCEPT ![c].shown = TRUE]
    /\ UNCHANGED <<freeze, global, free, active, errors, dropped>>

StreamEnds(c) ==
    /\ call[c].phase = "streaming"
    /\ Leave(c)
    /\ Goto(c, "answered")
    /\ UNCHANGED <<freeze, global, free, errors, dropped>>

------------------------------------------------------------------------------
(* report_freeze: a timed freeze replaces a permanent one.                  *)
Frozen(p, error) ==
    [freeze EXCEPT ![p] = CASE error = "request"   -> @
                            [] error = "permanent" -> "permanent"
                            [] OTHER               -> "timed"]

(* What call_llm does with a provider's error. What was streamed is kept in *)
(* a local of call_llm_streaming and is lost on this path: partial_out is   *)
(* empty whatever the client has been shown.                                *)
AfterError(c, error) ==
    IF ~(call[c].fresh /\ error = "transient")
    THEN [call[c] EXCEPT !.phase = "failed", !.provider = NoProvider, !.error = error]
    ELSE IF call[c].attempt = 0
         THEN [call[c] EXCEPT !.phase = "routing", !.attempt = 1,
                              !.provider = NoProvider, !.error = error]
         ELSE NextRoute(c, error)

(* The request fails, its same-provider retries included, or the stream     *)
(* does: an error event, an empty stream, the first event or the next late. *)
Fail(c) ==
    /\ call[c].phase \in {"requesting", "streaming"} /\ errors < MaxErrors
    /\ IF call[c].phase = "requesting" THEN ReturnPermits(c) ELSE UNCHANGED <<global, free>>
    /\ Leave(c)
    /\ \E error \in ErrorKinds :
          /\ freeze' = Frozen(call[c].provider, error)
          /\ call' = [call EXCEPT ![c] = AfterError(c, error)]
    /\ errors' = errors + 1
    /\ UNCHANGED dropped

(* A request dropped between its two permits keeps the global one.          *)
CancelCallKeepingGlobal(c) ==
    LET phase == call[c].phase
    IN  /\ IF c \in Streaming THEN phase = "streaming"
                              ELSE phase \in Waiting \cup {"requesting"}
        /\ global' = IF phase = "requesting" THEN global + 1 ELSE global
        /\ free' = IF phase = "requesting" THEN [free EXCEPT ![call[c].provider] = @ + 1]
                                            ELSE free
        /\ IF phase = "streaming" THEN Leave(c) ELSE UNCHANGED active
        /\ dropped' = IF phase = "requesting"
                      THEN [dropped EXCEPT ![call[c].provider] = @ + 1] ELSE dropped
        /\ Goto(c, "cancelled")
        /\ UNCHANGED <<freeze, errors>>

(* A cancelled caller drops a plain request wherever it is; a stream is     *)
(* given up only once it is being read. The guard of a stream counts down   *)
(* on drop, the counter of a plain request does not.                        *)
CancelCall(c) ==
    LET phase == call[c].phase
        held  == phase \in {"provider", "requesting"}
    IN  /\ IF c \in Streaming THEN phase = "streaming"
                              ELSE phase \in Waiting \cup {"requesting"}
        /\ global' = IF held THEN global + 1 ELSE global
        /\ free' = IF phase = "requesting" THEN [free EXCEPT ![call[c].provider] = @ + 1]
                                            ELSE free
        /\ IF phase = "streaming" THEN Leave(c) ELSE UNCHANGED active
        /\ dropped' = IF phase = "requesting"
                      THEN [dropped EXCEPT ![call[c].provider] = @ + 1] ELSE dropped
        /\ Goto(c, "cancelled")
        /\ UNCHANGED <<freeze, errors>>

(* The freeze of p has lasted its time.                                     *)
Expire(p) ==
    /\ freeze[p] = "timed"
    /\ freeze' = [freeze EXCEPT ![p] = "due"]
    /\ UNCHANGED <<global, free, active, call, errors, dropped>>

(* An operator asks for a thaw: a health check decides, whatever has become *)
(* of the provider since it was found frozen.                               *)
CheckAndThaw(p) ==
    /\ \/ freeze' = [freeze EXCEPT ![p] = "no"] /\ UNCHANGED errors
       \/ /\ errors < MaxErrors /\ errors' = errors + 1
          /\ freeze' = [freeze EXCEPT ![p] = "timed"]
    /\ UNCHANGED <<global, free, active, call, dropped>>

Converse(c) ==
    \/ Select(c) \/ AcquireGlobal(c) \/ AcquireProvider(c)
    \/ Respond(c) \/ StreamStarts(c) \/ Delta(c) \/ StreamEnds(c)

------------------------------------------------------------------------------
HoldsGlobal(c)      == call[c].phase \in {"provider", "requesting"}
HoldsProvider(c, p) == call[c].phase = "requesting" /\ call[c].provider = p
InFlight(c, p)      == call[c].phase \in {"requesting", "streaming"} /\ call[c].provider = p

(* Permits and counters agree with the calls that hold them, on every path  *)
(* out of a request: answered, failed, retried elsewhere, streaming, or     *)
(* dropped by a cancelled turn (whose plain requests stay counted).         *)
PoolAccounted ==
    /\ global + Cardinality({c \in Callers : HoldsGlobal(c)}) = MaxGlobal
    /\ \A p \in Providers :
          /\ free[p] + Cardinality({c \in Callers : HoldsProvider(c, p)}) = MaxConcurrency[p]
          /\ active[p] = dropped[p] + Cardinality({c \in Callers : InFlight(c, p)})

(* docs/guides/ARCHITECTURE.md:918: another attempt only before any output. *)
(* A call that has shown something of its response is not sent again.       *)
NoReplayOfOutput ==
    [][\A c \in Callers : call[c].phase = "provider" /\ call[c].shown =>
          call'[c].phase # "requesting"]_poolVars
=============================================================================
