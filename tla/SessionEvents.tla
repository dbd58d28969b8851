--------------------------- MODULE SessionEvents ---------------------------
(***************************************************************************)
(* The durable events of one session (session_event_store.rs) and the      *)
(* server-sent event streams that follow them (events.rs).  A publisher    *)
(* inserts a row and then broadcasts it; a live message is only a hint     *)
(* that the rows after the stream's cursor should be read.  ChatTurns has  *)
(* the publishers.                                                         *)
(***************************************************************************)
EXTENDS Naturals, Sequences, FiniteSets

CONSTANTS
  Runs,       \* chat runs of the session
  Clients,    \* subscribers that filter on the session
  Capacity,   \* what the broadcast channel retains
  MaxFaults,  \* how often a storage call fails
  MaxBreaks   \* how often a connection or a request breaks

ASSUME EventsAssumption == Capacity \in Nat \ {0} /\ {MaxFaults, MaxBreaks} \subseteq Nat

VARIABLES
  log,      \* rows of session_events, by event_id: [kind, run]
  unsent,   \* rows inserted and not yet broadcast
  open,     \* pending_interactions: the runs whose question awaits an answer
  feed,     \* each client's stream
  faults, breaks

eventVars == <<log, unsent, open, feed, faults, breaks>>

Kinds == {"started", "ask", "note", "complete", "error"}
Terminal == {"complete", "error"}

Stages == {"off", "floor", "listening", "listed", "matched", "live"}

NoFeed == [stage |-> "off", cursor |-> 0, upTo |-> 0, begun |-> FALSE,
           asks |-> {}, shown |-> {}, channel |-> <<>>, lagged |-> FALSE]

EventsTypeOK ==
  /\ log \in Seq([kind : Kinds, run : Runs])
  /\ unsent \subseteq 1..Len(log)
  /\ open \subseteq Runs
  /\ \A s \in Clients :
       /\ feed[s].stage \in Stages
       /\ feed[s].cursor \in 0..Len(log) /\ feed[s].upTo \in 0..Len(log)
       /\ feed[s].begun \in BOOLEAN /\ feed[s].lagged \in BOOLEAN
       /\ feed[s].asks \subseteq Runs /\ feed[s].shown \subseteq Runs
       /\ feed[s].channel \in Seq(DOMAIN log) /\ Len(feed[s].channel) <= Capacity
  /\ faults \in 0..MaxFaults /\ breaks \in 0..MaxBreaks

EventsInit ==
  /\ log = <<>> /\ unsent = {} /\ open = {}
  /\ feed = [s \in Clients |-> NoFeed]
  /\ faults = 0 /\ breaks = 0

---------------------------------------------------------------------------
(* The store and the broadcast, for publishers. *)

\* append: one INSERT, with the next event_id.
Insert(kind, r) ==
  /\ log' = Append(log, [kind |-> kind, run |-> r])
  /\ unsent' = unsent \cup {Len(log) + 1}

\* A storage call fails.
Fail ==
  /\ faults < MaxFaults
  /\ faults' = faults + 1

\* A receiver exists once subscribed; a full channel loses its oldest message
\* and tells the receiver that it lagged.
Pushed(f, i) ==
  IF f.stage \in {"off", "floor"} THEN f
  ELSE IF Len(f.channel) < Capacity
       THEN [f EXCEPT !.channel = Append(@, i)]
       ELSE [f EXCEPT !.channel = Append(Tail(@), i), !.lagged = TRUE]

Broadcast(i) ==
  /\ feed' = [s \in Clients |-> Pushed(feed[s], i)]
  /\ unsent' = unsent \ {i}

---------------------------------------------------------------------------
(* event_stream, between its awaits. *)

\* A client that received an identifier presents it again (Last-Event-ID).
Hangup(f) ==
  IF f.begun THEN [NoFeed EXCEPT !.cursor = f.cursor, !.upTo = f.cursor,
                                 !.begun = TRUE, !.shown = f.shown]
  ELSE [NoFeed EXCEPT !.shown = f.shown]

\* resolve_cursor and the replay floor.
Connect(s) ==
  /\ feed[s].stage = "off"
  /\ feed' = [feed EXCEPT ![s].stage = "floor",
                          ![s].cursor = IF feed[s].begun THEN @ ELSE Len(log),
                          ![s].upTo = IF feed[s].begun THEN @ ELSE Len(log)]
  /\ UNCHANGED <<log, unsent, open, faults, breaks>>

Subscribe(s) ==
  /\ feed[s].stage = "floor"
  /\ feed' = [feed EXCEPT ![s].stage = "listening"]
  /\ UNCHANGED <<log, unsent, open, faults, breaks>>

\* pending_events is asked for only without a cursor: first the open questions,
\* then their rows.
ListOpen(s) ==
  /\ feed[s].stage = "listening"
  /\ feed' = [feed EXCEPT ![s].stage = "listed",
                          ![s].asks = IF feed[s].begun THEN {} ELSE open]
  /\ UNCHANGED <<log, unsent, open, faults, breaks>>

Asked(r) == \E i \in DOMAIN log : log[i] = [kind |-> "ask", run |-> r]

MatchOpen(s) ==
  /\ feed[s].stage = "listed"
  /\ feed' = [feed EXCEPT ![s].stage = "matched",
                          ![s].asks = {r \in @ : Asked(r)}]
  /\ UNCHANGED <<log, unsent, open, faults, breaks>>

\* Mutant: a client without a cursor gets no initial replay.
StartWithoutReplay(s) ==
  /\ feed[s].stage = "matched"
  /\ feed' = [feed EXCEPT ![s].stage = "live",
                          ![s].upTo = IF feed[s].begun THEN Len(log) ELSE @,
                          ![s].shown = @ \cup feed[s].asks, ![s].asks = {}]
  /\ UNCHANGED <<log, unsent, open, faults, breaks>>

\* Mutant: the floor is taken when the stream starts.
StartAtEnd(s) ==
  /\ feed[s].stage = "matched"
  /\ feed' = [feed EXCEPT ![s].stage = "live", ![s].upTo = Len(log),
                          ![s].cursor = IF feed[s].begun THEN @ ELSE Len(log),
                          ![s].shown = @ \cup feed[s].asks, ![s].asks = {}]
  /\ UNCHANGED <<log, unsent, open, faults, breaks>>

\* The initial replay is read; pending rows are delivered before it.
StartStream(s) ==
  /\ feed[s].stage = "matched"
  /\ feed' = [feed EXCEPT ![s].stage = "live", ![s].upTo = Len(log),
                          ![s].shown = @ \cup feed[s].asks, ![s].asks = {}]
  /\ UNCHANGED <<log, unsent, open, faults, breaks>>

RefuseStream(s) ==
  /\ feed[s].stage \in {"listed", "matched"}
  /\ Fail
  /\ feed' = [feed EXCEPT ![s] = Hangup(@)]
  /\ UNCHANGED <<log, unsent, open, breaks>>

\* Mutant: the live message itself is delivered.
DeliverLive(s) ==
  LET next == IF feed[s].channel # <<>> THEN Head(feed[s].channel)
                                        ELSE feed[s].cursor + 1 IN
  /\ feed[s].stage = "live"
  /\ feed[s].cursor < next /\ next <= feed[s].upTo
  /\ feed' = [feed EXCEPT
        ![s].cursor = next, ![s].begun = TRUE,
        ![s].shown = @ \cup IF log[next].kind = "ask" THEN {log[next].run} ELSE {}]
  /\ UNCHANGED <<log, unsent, open, faults, breaks>>

\* One event of a batch that was read: advance_replay_cursor, then yield.
Deliver(s) ==
  LET next == feed[s].cursor + 1 IN
  /\ feed[s].stage = "live"
  /\ next <= feed[s].upTo
  /\ feed' = [feed EXCEPT
        ![s].cursor = next, ![s].begun = TRUE,
        ![s].shown = @ \cup IF log[next].kind = "ask" THEN {log[next].run} ELSE {}]
  /\ UNCHANGED <<log, unsent, open, faults, breaks>>

\* replay_live_gap: everything behind the cursor, or nothing if the read fails.
Replay(s, f) ==
  \/ /\ feed' = [feed EXCEPT ![s] = [f EXCEPT !.upTo = Len(log)]]
     /\ UNCHANGED faults
  \/ /\ Fail
     /\ feed' = [feed EXCEPT ![s] = f]

Waiting(s) == feed[s].stage = "live" /\ feed[s].cursor = feed[s].upTo

Receive(s) ==
  LET head == Head(feed[s].channel)
      rest == [feed[s] EXCEPT !.channel = Tail(@)]
  IN
  /\ Waiting(s) /\ ~feed[s].lagged
  /\ feed[s].channel # <<>>
  /\ IF head > feed[s].cursor
     THEN Replay(s, rest)
     ELSE feed' = [feed EXCEPT ![s] = rest] /\ UNCHANGED faults
  /\ UNCHANGED <<log, unsent, open, breaks>>

Lagged(s) ==
  /\ Waiting(s) /\ feed[s].lagged
  /\ Replay(s, [feed[s] EXCEPT !.lagged = FALSE])
  /\ UNCHANGED <<log, unsent, open, breaks>>

Break(s) ==
  /\ feed[s].stage # "off"
  /\ breaks < MaxBreaks
  /\ breaks' = breaks + 1
  /\ feed' = [feed EXCEPT ![s] = Hangup(@)]
  /\ UNCHANGED <<log, unsent, open, faults>>

StreamStep(s) ==
  \/ Subscribe(s) \/ ListOpen(s) \/ MatchOpen(s) \/ StartStream(s)
  \/ Deliver(s) \/ Receive(s) \/ Lagged(s)

ClientStep(s) == StreamStep(s) \/ Connect(s) \/ RefuseStream(s) \/ Break(s)
=============================================================================
