-------------------------- MODULE ChatTurnsProofs --------------------------
(***************************************************************************)
(* Proofs about the runs of a session, its events and its queue of TODOs,  *)
(* for every number of runs, clients and TODOs, every capacity of the      *)
(* channel and every bound.  The stream of each client implements the log  *)
(* of EventLog, and a question that is open is shown: neither depends on   *)
(* when the worker does what, so Steps says all that a step may do to the  *)
(* log, the open questions and the streams.  The types and the fate of a   *)
(* queued TODO do depend on it: TurnInv ties the queue to the run that     *)
(* holds it.                                                               *)
(***************************************************************************)
EXTENDS ChatTurns, FiniteSetTheorems, SequenceTheorems, TLAPS

FeedRec == [stage : Stages, cursor : Nat, upTo : Nat, begun : BOOLEAN,
            asks : SUBSET Runs, shown : SUBSET Runs,
            channel : Seq(Nat), lagged : BOOLEAN]

\* A stream is never past what it has read, nor has it read past the log.
FeedTypes ==
  /\ \E K : log \in Seq([kind : K, run : Runs])
  /\ unsent \subseteq Nat /\ open \subseteq Runs
  /\ feed \in [Clients -> FeedRec]
  /\ \A s \in Clients : feed[s].cursor <= feed[s].upTo /\ feed[s].upTo <= Len(log)

\* The row of r's question.
Question(i, r) == log[i] = [kind |-> "ask", run |-> r]

\* An open question whose row is behind the cursor of a stream is shown, or, on
\* a stream that began without a cursor and has delivered nothing yet, is about
\* to be: such a stream has all of the open questions before it goes live.
Reached(f, r) ==
  IF f.begun \/ f.stage = "live" THEN r \in f.shown
  ELSE f.stage \in {"listed", "matched"} => r \in f.asks

Shows(f) == \A r \in open : \A i \in 1..f.cursor : Question(i, r) => Reached(f, r)

ShownInv == \A s \in Clients : Shows(feed[s])

---------------------------------------------------------------------------
(* What a step may do to the log, the open questions and the streams.       *)

Publishes == \E r \in Runs : \E k : Insert(k, r) /\ UNCHANGED <<open, feed>>
Broadcasts == \E i \in unsent : Broadcast(i) /\ UNCHANGED <<log, open>>
Asks == \E r \in Runs : /\ ~Asked(r)
                        /\ open' = open \cup {r}
                        /\ UNCHANGED <<log, unsent, feed>>
Resumes == \E r \in Runs : open' = open \ {r} /\ UNCHANGED <<log, unsent, feed>>
Streams == \E s \in Clients : ClientStep(s)
Rests == UNCHANGED <<log, unsent, open, feed>>

\* The publishers, the questions and the streams are all that moves the events.
LEMMA Steps == [Next]_vars => Publishes \/ Broadcasts \/ Asks \/ Resumes \/ Streams \/ Rests
<1> SUFFICES ASSUME [Next]_vars
             PROVE Publishes \/ Broadcasts \/ Asks \/ Resumes \/ Streams \/ Rests
  OBVIOUS
<1>1. ASSUME NEW r \in Runs, Prepare(r) \/ DropRequest(r) \/ Cancel(r)
      PROVE Rests
  BY <1>1 DEF Prepare, DropRequest, Cancel, Quiet, eventVars, Rests
<1>2. ASSUME NEW r \in Runs, RequestStep(r)
      PROVE Publishes \/ Broadcasts \/ Rests
  <2>1. CASE PublishStarted(r)
    BY <2>1 DEF PublishStarted, Publishes, Rests
  <2>2. CASE Launch(r)
    BY <2>2 DEF Launch, Broadcasts
  <2>3. CASE PrepareQueue(r) \/ Register(r) \/ OpenTurn(r)
    BY <2>3 DEF PrepareQueue, Register, OpenTurn, eventVars, Rests
  <2> QED
    BY <1>2, <2>1, <2>2, <2>3 DEF RequestStep
<1>3. ASSUME NEW r \in Runs, TurnStep(r)
      PROVE Publishes \/ Asks \/ Resumes \/ Rests
  <2>1. CASE Ask(r)
    BY <2>1 DEF Ask, Asks
  <2>2. CASE Resume(r)
    BY <2>2 DEF Resume, Resumes
  <2>3. CASE Report(r)
    BY <2>3 DEF Report, Publishes, Rests
  <2>4. CASE Cancelled(r) \/ CallTools(r) \/ Stop(r) \/ CallFails(r) \/ Clean(r)
    BY <2>4 DEF Cancelled, CallTools, Stop, CallFails, Clean, Quiet, eventVars, Rests
  <2>5. CASE LoopTop(r) \/ NextOrFinal(r) \/ Finish(r) \/ FinishSteer(r)
    BY <2>5 DEF LoopTop, NextOrFinal, Finish, FinishSteer, eventVars, Rests
  <2> QED
    BY <1>3, <2>1, <2>2, <2>3, <2>4, <2>5 DEF TurnStep
<1>4. ASSUME NEW r \in Runs, Forward(r)
      PROVE Publishes \/ Rests
  BY <1>4 DEF Forward, Publishes, Rests
<1>5. ASSUME NEW r \in Runs, Emit(r)
      PROVE Broadcasts
  BY <1>5 DEF Emit, Broadcasts
<1>6. ASSUME NEW t \in Todos, UserStep(t)
      PROVE Rests
  BY <1>6 DEF UserStep, AddTodo, SteerTodo, UnsteerTodo, DeleteTodo, Move, eventVars, Rests
<1>7. ASSUME NEW s \in Clients, ClientStep(s)
      PROVE Streams
  BY <1>7 DEF Streams
<1>8. CASE UNCHANGED vars
  BY <1>8 DEF vars, eventVars, Rests
<1> QED
  BY <1>1, <1>2, <1>3, <1>4, <1>5, <1>6, <1>7, <1>8 DEF Next

---------------------------------------------------------------------------
(* The types of the streams.                                                *)

\* The streams begin with their types.
LEMMA FeedTypesInit == Init => FeedTypes
<1> SUFFICES ASSUME Init PROVE FeedTypes
  OBVIOUS
<1>1. log \in Seq([kind : Kinds, run : Runs]) /\ unsent = {} /\ open \subseteq Runs
      /\ Len(log) = 0
  BY DEF Init, EventsInit
<1>2. NoFeed \in FeedRec
  BY DEF NoFeed, FeedRec, Stages
<1>3. feed = [s \in Clients |-> NoFeed]
  BY DEF Init, EventsInit
<1>4. feed \in [Clients -> FeedRec]
  BY <1>2, <1>3
<1>5. \A s \in Clients : feed[s].cursor = 0 /\ feed[s].upTo = 0
  BY <1>3 DEF NoFeed
<1> QED
  BY <1>1, <1>4, <1>5 DEF FeedTypes

\* What a step may make of one stream.
Fits(f) == f \in FeedRec /\ f.cursor <= f.upTo /\ f.upTo <= Len(log)

\* Every stream fits.
LEMMA RecordFits ==
  ASSUME FeedTypes, NEW s \in Clients
  PROVE Fits(feed[s])
BY DEF FeedTypes, Fits

\* A step that moves one stream to something that fits keeps the types.
LEMMA OneStream ==
  ASSUME FeedTypes, NEW s \in Clients, NEW f, Fits(f),
         feed' = [feed EXCEPT ![s] = f], UNCHANGED <<log, open>>, unsent' \subseteq Nat
  PROVE FeedTypes'
BY DEF FeedTypes, Fits

\* Broadcast: what a receiver is sent keeps its types, for any capacity.
LEMMA PushedFits ==
  ASSUME NEW f, Fits(f), NEW i \in Nat
  PROVE Fits(Pushed(f, i))
<1>1. f.channel \in Seq(Nat) /\ Len(f.channel) \in Nat
  BY DEF Fits, FeedRec
<1>2. Append(f.channel, i) \in Seq(Nat)
  BY <1>1
<1>3. ASSUME Len(f.channel) >= Capacity
      PROVE Append(Tail(f.channel), i) \in Seq(Nat)
  <2>1. f.channel # <<>>
    BY <1>1, <1>3, EventsAssumption
  <2> QED
    BY <1>1, <2>1
<1>4. CASE f.stage \in {"off", "floor"}
  BY <1>4 DEF Pushed
<1>5. CASE f.stage \notin {"off", "floor"} /\ Len(f.channel) < Capacity
  BY <1>2, <1>5 DEF Pushed, Fits, FeedRec
<1>6. CASE f.stage \notin {"off", "floor"} /\ ~(Len(f.channel) < Capacity)
  <2>1. \A c \in Seq(Nat) : Fits([f EXCEPT !.channel = c, !.lagged = TRUE])
    BY DEF Fits, FeedRec
  <2>2. Append(Tail(f.channel), i) \in Seq(Nat)
    BY <1>1, <1>3, <1>6, EventsAssumption
  <2> QED
    BY <1>6, <2>1, <2>2 DEF Pushed
<1> QED
  BY <1>4, <1>5, <1>6

\* A stream that is not connected fits.
LEMMA NoFeedFits == Len(log) \in Nat => Fits(NoFeed)
BY DEF Fits, NoFeed, FeedRec, Stages

\* Hangup: what is left of a stream fits.
LEMMA HangupFits ==
  ASSUME NEW f, Fits(f), Len(log) \in Nat
  PROVE Fits(Hangup(f))
<1>1. /\ f.cursor \in Nat /\ f.upTo \in Nat
      /\ f.cursor <= f.upTo /\ f.upTo <= Len(log)
      /\ f.shown \in SUBSET Runs
  BY DEF Fits, FeedRec
<1>2. f.cursor <= Len(log)
  BY <1>1
<1>3. NoFeed \in FeedRec /\ NoFeed.cursor = 0 /\ NoFeed.upTo = 0
  BY NoFeedFits DEF Fits, NoFeed
<1>4. CASE f.begun
  <2>1. Hangup(f) = [NoFeed EXCEPT !.cursor = f.cursor, !.upTo = f.cursor,
                                   !.begun = TRUE, !.shown = f.shown]
    BY <1>4 DEF Hangup
  <2>2. Hangup(f) \in FeedRec
    BY <1>1, <1>3, <2>1 DEF FeedRec
  <2>3. Hangup(f).cursor = f.cursor /\ Hangup(f).upTo = f.cursor
    BY <2>1 DEF NoFeed
  <2> QED
    BY <1>1, <1>2, <2>2, <2>3 DEF Fits
<1>5. CASE ~f.begun
  <2>1. Hangup(f) = [NoFeed EXCEPT !.shown = f.shown]
    BY <1>5 DEF Hangup
  <2>2. Hangup(f) \in FeedRec
    BY <1>1, <1>3, <2>1 DEF FeedRec
  <2>3. Hangup(f).cursor = 0 /\ Hangup(f).upTo = 0
    BY <2>1 DEF NoFeed
  <2> QED
    BY <2>2, <2>3 DEF Fits
<1> QED
  BY <1>4, <1>5

\* A step of a stream moves that stream and neither the log nor the questions.
Moved(s, f) == feed' = [feed EXCEPT ![s] = f] /\ UNCHANGED <<log, unsent, open>>

\* Every step of event_stream moves its stream to something that fits.
LEMMA StreamFits ==
  ASSUME FeedTypes, NEW s \in Clients, ClientStep(s)
  PROVE \E f : Fits(f) /\ Moved(s, f)
<1> DEFINE g == feed[s]
<1>1. Len(log) \in Nat /\ \A i \in 1..Len(log) : log[i].run \in Runs
  <2> PICK K : log \in Seq([kind : K, run : Runs])
    BY DEF FeedTypes
  <2>1. \A i \in 1..Len(log) : log[i] \in [kind : K, run : Runs]
    BY ElementOfSeq
  <2> QED
    BY <2>1, LenProperties
<1>2. Fits(g) /\ g \in FeedRec /\ feed \in [Clients -> FeedRec]
  BY <1>1, RecordFits DEF FeedTypes, Fits
<1>3. /\ g.cursor \in Nat /\ g.upTo \in Nat /\ g.cursor <= g.upTo /\ g.upTo <= Len(log)
      /\ g.asks \in SUBSET Runs /\ g.shown \in SUBSET Runs /\ g.channel \in Seq(Nat)
  BY <1>2 DEF Fits, FeedRec
<1>4. CASE Connect(s)
  <2> DEFINE n == IF g.begun THEN g.cursor ELSE Len(log)
             m == IF g.begun THEN g.upTo ELSE Len(log)
             f == [g EXCEPT !.stage = "floor", !.cursor = n, !.upTo = m]
  <2>1. n \in Nat /\ m \in Nat /\ n <= m /\ m <= Len(log)
    BY <1>1, <1>3
  <2>2. Fits(f)
    BY <1>2, <2>1 DEF Fits, FeedRec, Stages
  <2>3. Moved(s, f)
    BY <1>2, <1>4 DEF Connect, Moved
  <2> QED
    BY <2>2, <2>3
<1>5. CASE Subscribe(s)
  <2> DEFINE f == [g EXCEPT !.stage = "listening"]
  <2>1. Fits(f)
    BY <1>2 DEF Fits, FeedRec, Stages
  <2>2. Moved(s, f)
    BY <1>2, <1>5 DEF Subscribe, Moved
  <2> QED
    BY <2>1, <2>2
<1>6. CASE ListOpen(s) \/ MatchOpen(s)
  <2>1. \A stage \in Stages, R \in SUBSET Runs :
          Fits([g EXCEPT !.stage = stage, !.asks = R])
    BY <1>2 DEF Fits, FeedRec
  <2>2. CASE ListOpen(s)
    <3> DEFINE R == IF g.begun THEN {} ELSE open
    <3>1. R \in SUBSET Runs /\ "listed" \in Stages
      BY DEF FeedTypes, Stages
    <3>2. Moved(s, [g EXCEPT !.stage = "listed", !.asks = R])
      BY <1>2, <2>2 DEF ListOpen, Moved
    <3> QED
      BY <2>1, <3>1, <3>2
  <2>3. CASE MatchOpen(s)
    <3> DEFINE R == {r \in g.asks : Asked(r)}
    <3>1. R \in SUBSET Runs /\ "matched" \in Stages
      BY <1>3 DEF Stages
    <3>2. Moved(s, [g EXCEPT !.stage = "matched", !.asks = R])
      BY <1>2, <2>3 DEF MatchOpen, Moved
    <3> QED
      BY <2>1, <3>1, <3>2
  <2> QED
    BY <1>6, <2>2, <2>3
<1>7. CASE StartStream(s)
  <2> DEFINE f == [g EXCEPT !.stage = "live", !.upTo = Len(log),
                            !.shown = g.shown \cup g.asks, !.asks = {}]
  <2>1. g.shown \cup g.asks \in SUBSET Runs /\ g.cursor <= Len(log)
    BY <1>1, <1>3
  <2>2. f \in FeedRec
    BY <1>1, <1>2, <2>1 DEF FeedRec, Stages
  <2>3. f.cursor = g.cursor /\ f.upTo = Len(log)
    BY <1>2 DEF FeedRec
  <2>4. Fits(f)
    BY <1>1, <1>3, <2>1, <2>2, <2>3 DEF Fits
  <2>5. Moved(s, f)
    BY <1>2, <1>7 DEF StartStream, Moved
  <2> QED
    BY <2>4, <2>5
<1>8. CASE Deliver(s)
  <2> DEFINE next == g.cursor + 1
             R == g.shown \cup (IF log[next].kind = "ask" THEN {log[next].run} ELSE {})
             f == [g EXCEPT !.cursor = next, !.begun = TRUE, !.shown = R]
  <2>1. next \in 1..Len(log) /\ next <= g.upTo
    BY <1>1, <1>3, <1>8 DEF Deliver
  <2>2. log[next].run \in Runs
    BY <1>1, <2>1
  <2>3. R \in SUBSET Runs
    BY <1>3, <2>2
  <2>4. f \in FeedRec
    <3>1. \A n \in Nat, S \in SUBSET Runs :
            [g EXCEPT !.cursor = n, !.begun = TRUE, !.shown = S] \in FeedRec
      BY <1>2 DEF FeedRec
    <3>2. next \in Nat
      BY <2>1
    <3> QED
      BY <2>3, <3>1, <3>2
  <2>5. f.cursor = next /\ f.upTo = g.upTo
    BY <1>2 DEF FeedRec
  <2>6. Fits(f)
    BY <1>1, <1>3, <2>1, <2>4, <2>5 DEF Fits
  <2>7. Moved(s, f)
    BY <1>2, <1>8 DEF Deliver, Moved
  <2> QED
    BY <2>6, <2>7
<1>9. CASE Receive(s) \/ Lagged(s)
  <2>1. ASSUME NEW h, Fits(h), Replay(s, h), UNCHANGED <<log, unsent, open>>
        PROVE \E f : Fits(f) /\ Moved(s, f)
    <3>1. h.cursor \in Nat /\ h.upTo \in Nat /\ h.cursor <= Len(log)
      BY <1>1, <2>1 DEF Fits, FeedRec
    <3>2. [h EXCEPT !.upTo = Len(log)] \in FeedRec
      BY <1>1, <2>1 DEF Fits, FeedRec
    <3>3. [h EXCEPT !.upTo = Len(log)].upTo = Len(log)
          /\ [h EXCEPT !.upTo = Len(log)].cursor = h.cursor
      BY <2>1 DEF Fits, FeedRec
    <3>4. Fits([h EXCEPT !.upTo = Len(log)])
      BY <1>1, <3>1, <3>2, <3>3 DEF Fits
    <3> QED
      BY <2>1, <3>4 DEF Replay, Moved
  <2>2. CASE Receive(s)
    <3>1. Tail(g.channel) \in Seq(Nat)
      BY <1>3, <2>2 DEF Receive
    <3>2. \A c \in Seq(Nat) : Fits([g EXCEPT !.channel = c])
      BY <1>2 DEF Fits, FeedRec
    <3>3. Fits([g EXCEPT !.channel = Tail(g.channel)])
      BY <3>1, <3>2
    <3> QED
      BY <2>1, <2>2, <3>3 DEF Receive, Moved
  <2>3. CASE Lagged(s)
    <3>1. Fits([g EXCEPT !.lagged = FALSE])
      BY <1>2 DEF Fits, FeedRec
    <3> QED
      BY <2>1, <2>3, <3>1 DEF Lagged
  <2> QED
    BY <1>9, <2>2, <2>3
<1>10. CASE RefuseStream(s) \/ Break(s)
  <2>1. Fits(Hangup(g))
    BY <1>1, <1>2, HangupFits
  <2>2. Moved(s, Hangup(g))
    BY <1>10 DEF RefuseStream, Break, Moved
  <2> QED
    BY <2>1, <2>2
<1> QED
  BY <1>4, <1>5, <1>6, <1>7, <1>8, <1>9, <1>10 DEF ClientStep, StreamStep

\* Every step keeps the types of the streams.
LEMMA FeedTypesStep == FeedTypes /\ [Next]_vars => FeedTypes'
<1> SUFFICES ASSUME FeedTypes, [Next]_vars PROVE FeedTypes'
  OBVIOUS
<1>1. CASE Publishes
  <2>0. PICK r \in Runs : \E k : Insert(k, r) /\ UNCHANGED <<open, feed>>
    BY <1>1 DEF Publishes
  <2> PICK k : Insert(k, r) /\ UNCHANGED <<open, feed>>
    BY <2>0
  <2> PICK K : log \in Seq([kind : K, run : Runs])
    BY DEF FeedTypes
  <2>1. log \in Seq([kind : K \cup {k}, run : Runs])
    <3>1. [kind : K, run : Runs] \subseteq [kind : K \cup {k}, run : Runs]
      OBVIOUS
    <3> QED
      BY <3>1, SeqMonotonic
  <2>2. log' \in Seq([kind : K \cup {k}, run : Runs]) /\ Len(log') = Len(log) + 1
    BY <2>1 DEF Insert
  <2>3. \A s \in Clients : feed[s].upTo \in Nat
    BY DEF FeedTypes, FeedRec
  <2>4. \A s \in Clients : feed[s].upTo <= Len(log')
    BY <2>1, <2>2, <2>3, LenProperties DEF FeedTypes
  <2>5. unsent' \subseteq Nat
    <3>1. Len(log) + 1 \in Nat
      BY <2>1, LenProperties
    <3> QED
      BY <3>1 DEF Insert, FeedTypes
  <2> QED
    BY <2>2, <2>4, <2>5 DEF FeedTypes
<1>2. CASE Broadcasts
  <2> PICK i \in unsent : Broadcast(i) /\ UNCHANGED <<log, open>>
    BY <1>2 DEF Broadcasts
  <2>1. i \in Nat
    BY DEF FeedTypes
  <2>2. \A s \in Clients : Fits(Pushed(feed[s], i))
    BY <2>1, RecordFits, PushedFits
  <2> QED
    BY <2>2 DEF Broadcast, FeedTypes, Fits
<1>3. CASE Asks \/ Resumes \/ Rests
  BY <1>3 DEF Asks, Resumes, Rests, FeedTypes
<1>4. CASE Streams
  <2> PICK s \in Clients : ClientStep(s)
    BY <1>4 DEF Streams
  <2> PICK f : Fits(f) /\ Moved(s, f)
    BY StreamFits
  <2>1. unsent' \subseteq Nat
    BY DEF Moved, FeedTypes
  <2> QED
    BY <2>1, OneStream DEF Moved
<1> QED
  BY <1>1, <1>2, <1>3, <1>4, Steps

---------------------------------------------------------------------------
(* The stream of a client implements the log of EventLog.                   *)

View(f) == [in |-> f.stage # "off" \/ f.begun, at |-> f.cursor, begun |-> f.begun]

\* A stream that moves is a reader that moves.
LEMMA MovedPlace ==
  ASSUME FeedTypes, NEW s \in Clients, NEW f, Moved(s, f)
  PROVE /\ [c \in Clients |-> Reader(c)]'
             = [[c \in Clients |-> Reader(c)] EXCEPT ![s] = View(f)]
        /\ Len(log)' = Len(log)
BY DEF FeedTypes, Moved, Reader, View

\* A stream that moves without its reader is a stutter of the log.
LEMMA MovedSame ==
  ASSUME FeedTypes, NEW s \in Clients, NEW f, Moved(s, f), View(f) = Reader(s)
  PROVE UNCHANGED Feeds!vars
BY MovedPlace DEF Feeds!vars

\* A connection that ends is a reader that leaves, or keeps its place.
LEMMA HangupView ==
  ASSUME FeedTypes, NEW s \in Clients, Moved(s, Hangup(feed[s]))
  PROVE Feeds!Leave(s) \/ UNCHANGED Feeds!vars
<1> DEFINE g == feed[s]
<1>1. g \in FeedRec
  BY DEF FeedTypes
<1>2. CASE g.begun
  <2>1. View(Hangup(g)) = Reader(s)
    BY <1>1, <1>2 DEF Hangup, NoFeed, View, Reader, FeedRec
  <2> QED
    BY <2>1, MovedSame
<1>3. CASE ~g.begun
  <2>1. View(Hangup(g)) = [in |-> FALSE, at |-> 0, begun |-> FALSE]
    BY <1>1, <1>3 DEF Hangup, NoFeed, View, FeedRec
  <2> QED
    BY <1>3, <2>1, MovedPlace DEF Feeds!Leave, Reader
<1> QED
  BY <1>2, <1>3

\* Every step of event_stream is a step of one reader, or a stutter.
LEMMA StreamView ==
  ASSUME FeedTypes, NEW s \in Clients, ClientStep(s)
  PROVE Feeds!Next \/ UNCHANGED Feeds!vars
<1> DEFINE g == feed[s]
<1>1. g \in FeedRec /\ feed \in [Clients -> FeedRec]
  BY DEF FeedTypes
<1>2. CASE Connect(s)
  <2> DEFINE f == [g EXCEPT !.stage = "floor",
                            !.cursor = IF g.begun THEN @ ELSE Len(log),
                            !.upTo = IF g.begun THEN @ ELSE Len(log)]
  <2>1. Moved(s, f) /\ g.stage = "off"
    BY <1>1, <1>2 DEF Connect, Moved
  <2>2. CASE g.begun
    <3>1. View(f) = Reader(s)
      BY <1>1, <2>2 DEF View, Reader, FeedRec
    <3> QED
      BY <2>1, <3>1, MovedSame
  <2>3. CASE ~g.begun
    <3>1. View(f) = [in |-> TRUE, at |-> Len(log), begun |-> FALSE]
      BY <1>1, <2>3 DEF View, FeedRec
    <3>2. /\ [c \in Clients |-> Reader(c)]'
               = [[c \in Clients |-> Reader(c)] EXCEPT ![s] = View(f)]
          /\ Len(log)' = Len(log)
      BY <2>1, MovedPlace
    <3>3. ~Reader(s).in
      BY <2>1, <2>3 DEF Reader
    <3>4. Feeds!Join(s)
      BY <3>1, <3>2, <3>3 DEF Feeds!Join
    <3> QED
      BY <3>4 DEF Feeds!Next
  <2> QED
    BY <2>2, <2>3
<1>3. CASE Subscribe(s)
  <2>1. Moved(s, [g EXCEPT !.stage = "listening"]) /\ g.stage # "off"
    BY <1>1, <1>3 DEF Subscribe, Moved
  <2>2. View([g EXCEPT !.stage = "listening"]) = Reader(s)
    BY <1>1, <2>1 DEF View, Reader, FeedRec
  <2> QED
    BY <2>1, <2>2, MovedSame
<1>4. CASE ListOpen(s) \/ MatchOpen(s)
  <2>1. \A stage \in {"listed", "matched"} : \A R :
          LET f == [g EXCEPT !.stage = stage, !.asks = R]
          IN g.stage # "off" => View(f) = Reader(s)
    BY <1>1 DEF View, Reader, FeedRec
  <2>2. CASE ListOpen(s)
    <3>1. /\ Moved(s, [g EXCEPT !.stage = "listed", !.asks = IF g.begun THEN {} ELSE open])
          /\ g.stage # "off"
      BY <1>1, <2>2 DEF ListOpen, Moved
    <3> QED
      BY <2>1, <3>1, MovedSame
  <2>3. CASE MatchOpen(s)
    <3>1. /\ Moved(s, [g EXCEPT !.stage = "matched", !.asks = {r \in @ : Asked(r)}])
          /\ g.stage # "off"
      BY <1>1, <2>3 DEF MatchOpen, Moved
    <3> QED
      BY <2>1, <3>1, MovedSame
  <2> QED
    BY <1>4, <2>2, <2>3
<1>5. CASE StartStream(s)
  <2> DEFINE f == [g EXCEPT !.stage = "live", !.upTo = Len(log),
                            !.shown = @ \cup g.asks, !.asks = {}]
  <2>1. Moved(s, f) /\ g.stage # "off"
    BY <1>1, <1>5 DEF StartStream, Moved
  <2>2. View(f) = Reader(s)
    BY <1>1, <2>1 DEF View, Reader, FeedRec
  <2> QED
    BY <2>1, <2>2, MovedSame
<1>6. CASE Deliver(s)
  <2> DEFINE next == g.cursor + 1
             R == g.shown \cup IF log[next].kind = "ask" THEN {log[next].run} ELSE {}
             f == [g EXCEPT !.cursor = next, !.begun = TRUE, !.shown = R]
  <2>1. Moved(s, f) /\ g.stage # "off" /\ next <= g.upTo
    BY <1>1, <1>6 DEF Deliver, Moved
  <2>2. View(f) = [in |-> TRUE, at |-> g.cursor + 1, begun |-> TRUE]
    BY <1>1 DEF View, FeedRec
  <2>3. g.cursor < Len(log)
    BY <1>1, <2>1, RecordFits DEF Fits, FeedRec, FeedTypes
  <2>4. /\ [c \in Clients |-> Reader(c)]'
             = [[c \in Clients |-> Reader(c)] EXCEPT ![s] = View(f)]
        /\ Len(log)' = Len(log)
    BY <2>1, MovedPlace
  <2>5. Reader(s).in /\ Reader(s).at = g.cursor
    BY <2>1 DEF Reader
  <2>6. Feeds!Read(s)
    BY <2>2, <2>3, <2>4, <2>5 DEF Feeds!Read
  <2> QED
    BY <2>6 DEF Feeds!Next
<1>7. CASE Receive(s) \/ Lagged(s)
  <2>1. ASSUME NEW h \in FeedRec, h.cursor = g.cursor, h.begun = g.begun, h.stage = "live",
               g.stage = "live", Replay(s, h), UNCHANGED <<log, unsent, open>>
        PROVE UNCHANGED Feeds!vars
    <3>1. View([h EXCEPT !.upTo = Len(log)]) = Reader(s) /\ View(h) = Reader(s)
      BY <2>1 DEF View, Reader, FeedRec
    <3> QED
      BY <2>1, <3>1, MovedSame DEF Replay, Moved
  <2>2. CASE Receive(s)
    <3> DEFINE h == [g EXCEPT !.channel = Tail(@)]
    <3>1. g.channel # <<>> /\ g.stage = "live"
      BY <2>2 DEF Receive, Waiting
    <3>2. Tail(g.channel) \in Seq(Nat)
      BY <1>1, <3>1 DEF FeedRec
    <3>3. h \in FeedRec /\ h.cursor = g.cursor /\ h.begun = g.begun /\ h.stage = "live"
      BY <1>1, <3>1, <3>2 DEF FeedRec
    <3>4. View(h) = Reader(s)
      BY <3>1, <3>3 DEF View, Reader
    <3> QED
      BY <2>1, <2>2, <3>1, <3>3, <3>4, MovedSame DEF Receive, Moved
  <2>3. CASE Lagged(s)
    <3> DEFINE h == [g EXCEPT !.lagged = FALSE]
    <3>1. g.stage = "live"
      BY <2>3 DEF Lagged, Waiting
    <3>2. h \in FeedRec /\ h.cursor = g.cursor /\ h.begun = g.begun /\ h.stage = "live"
      BY <1>1, <3>1 DEF FeedRec
    <3> QED
      BY <2>1, <2>3, <3>1, <3>2 DEF Lagged
  <2> QED
    BY <1>7, <2>2, <2>3
<1>8. CASE RefuseStream(s) \/ Break(s)
  <2>1. Moved(s, Hangup(g))
    BY <1>8 DEF RefuseStream, Break, Moved
  <2> QED
    BY <2>1, HangupView DEF Feeds!Next
<1> QED
  BY <1>2, <1>3, <1>4, <1>5, <1>6, <1>7, <1>8 DEF ClientStep, StreamStep

\* Every step is a step of the log, or a stutter.
LEMMA FeedStep == FeedTypes /\ [Next]_vars => [Feeds!Next]_(Feeds!vars)
<1> SUFFICES ASSUME FeedTypes, [Next]_vars
             PROVE Feeds!Next \/ UNCHANGED Feeds!vars
  OBVIOUS
<1>1. CASE Publishes
  <2>0. PICK r \in Runs : \E k : Insert(k, r) /\ UNCHANGED <<open, feed>>
    BY <1>1 DEF Publishes
  <2> PICK k : Insert(k, r) /\ UNCHANGED <<open, feed>>
    BY <2>0
  <2> PICK K : log \in Seq([kind : K, run : Runs])
    BY DEF FeedTypes
  <2>1. Len(log') = Len(log) + 1
    BY DEF Insert
  <2>2. [c \in Clients |-> Reader(c)]' = [c \in Clients |-> Reader(c)]
    BY DEF Reader
  <2> QED
    BY <2>1, <2>2 DEF Feeds!Publish, Feeds!Next
<1>2. CASE Broadcasts
  <2> PICK i \in unsent : Broadcast(i) /\ UNCHANGED <<log, open>>
    BY <1>2 DEF Broadcasts
  <2>1. \A c \in Clients : View(Pushed(feed[c], i)) = View(feed[c])
    BY DEF FeedTypes, FeedRec, Pushed, View
  <2>2. [c \in Clients |-> Reader(c)]' = [c \in Clients |-> Reader(c)]
    BY <2>1 DEF Broadcast, View, Reader
  <2> QED
    BY <2>2 DEF Feeds!vars
<1>3. CASE Asks \/ Resumes \/ Rests
  BY <1>3 DEF Asks, Resumes, Rests, Feeds!vars, Reader
<1>4. CASE Streams
  BY <1>4, StreamView DEF Streams
<1> QED
  BY <1>1, <1>2, <1>3, <1>4, Steps

\* The types hold always.
LEMMA FeedTypesCorrect == Spec => []FeedTypes
BY FeedTypesInit, FeedTypesStep, PTL DEF Spec

(* FeedSpec: every client reads each event after the place where it joined *)
(* once and in order, whatever races events.rs and the publishers lose, for *)
(* every number of clients, runs and faults and every channel capacity.    *)
THEOREM FeedRefined == Spec => FeedSpec
<1>1. Init => Feeds!Init
  <2> SUFFICES ASSUME Init PROVE Feeds!Init
    OBVIOUS
  <2>1. log = <<>> /\ \A s \in Clients : feed[s] = NoFeed
    BY DEF Init, EventsInit
  <2>2. \A s \in Clients : Reader(s) = [in |-> FALSE, at |-> 0, begun |-> FALSE]
    <3> TAKE s \in Clients
    <3>1. feed[s].stage = "off" /\ feed[s].cursor = 0 /\ feed[s].begun = FALSE
      BY <2>1 DEF NoFeed
    <3>2. (feed[s].stage # "off" \/ feed[s].begun) = FALSE
      BY <3>1
    <3> QED
      BY <3>1, <3>2, Zenon DEF Reader
  <2> QED
    BY <2>1, <2>2 DEF Feeds!Init
<1> QED
  BY <1>1, FeedTypesCorrect, FeedStep, PTL DEF Spec, FeedSpec, Feeds!Spec

---------------------------------------------------------------------------
(* An open question is shown.                                               *)

\* At first no question is open.
LEMMA ShownInit == Init => ShownInv
<1> SUFFICES ASSUME Init PROVE ShownInv
  OBVIOUS
<1>1. open = {}
  BY DEF Init, EventsInit
<1> QED
  BY <1>1 DEF ShownInv, Shows

\* A stream that moves to one that shows the open questions keeps the invariant.
LEMMA MovedShows ==
  ASSUME FeedTypes, ShownInv, NEW s \in Clients, NEW f, Moved(s, f), Shows(f)
  PROVE ShownInv'
BY DEF FeedTypes, ShownInv, Moved, Shows, Question, Reached

\* Every step of event_stream keeps the invariant.
LEMMA StreamShows ==
  ASSUME FeedTypes, ShownInv, NEW s \in Clients, ClientStep(s)
  PROVE ShownInv'
<1> DEFINE g == feed[s]
<1>1. g \in FeedRec /\ feed \in [Clients -> FeedRec] /\ Shows(g)
  BY DEF FeedTypes, ShownInv
<1>2. CASE Connect(s)
  <2> DEFINE f == [g EXCEPT !.stage = "floor",
                            !.cursor = IF g.begun THEN @ ELSE Len(log),
                            !.upTo = IF g.begun THEN @ ELSE Len(log)]
  <2>1. Moved(s, f)
    BY <1>1, <1>2 DEF Connect, Moved
  <2>2. f.stage = "floor" /\ f.begun = g.begun /\ f.shown = g.shown
        /\ (g.begun => f.cursor = g.cursor)
    BY <1>1 DEF FeedRec
  <2>3. Shows(f)
    BY <1>1, <2>2 DEF Shows, Reached
  <2> QED
    BY <2>1, <2>3, MovedShows
<1>3. CASE Subscribe(s)
  <2> DEFINE f == [g EXCEPT !.stage = "listening"]
  <2>1. Moved(s, f)
    BY <1>1, <1>3 DEF Subscribe, Moved
  <2>2. f.stage = "listening" /\ f.begun = g.begun /\ f.shown = g.shown
        /\ f.cursor = g.cursor
    BY <1>1 DEF FeedRec
  <2>3. Shows(f)
    BY <1>1, <1>3, <2>2 DEF Shows, Reached, Subscribe
  <2> QED
    BY <2>1, <2>3, MovedShows
<1>4. CASE ListOpen(s)
  <2> DEFINE f == [g EXCEPT !.stage = "listed", !.asks = IF g.begun THEN {} ELSE open]
  <2>1. Moved(s, f)
    BY <1>1, <1>4 DEF ListOpen, Moved
  <2>2. /\ f.stage = "listed" /\ f.begun = g.begun /\ f.shown = g.shown
        /\ f.cursor = g.cursor /\ (~g.begun => f.asks = open)
    BY <1>1 DEF FeedRec
  <2>3. Shows(f)
    BY <1>1, <1>4, <2>2 DEF Shows, Reached, ListOpen
  <2> QED
    BY <2>1, <2>3, MovedShows
<1>5. CASE MatchOpen(s)
  <2> DEFINE f == [g EXCEPT !.stage = "matched", !.asks = {r \in @ : Asked(r)}]
  <2>1. Moved(s, f) /\ g.stage = "listed"
    BY <1>1, <1>5 DEF MatchOpen, Moved
  <2>2. /\ f.stage = "matched" /\ f.begun = g.begun /\ f.shown = g.shown
        /\ f.cursor = g.cursor /\ f.asks = {r \in g.asks : Asked(r)}
    BY <1>1 DEF FeedRec
  <2>3. ASSUME NEW r \in open, NEW i \in 1..g.cursor, Question(i, r)
        PROVE Asked(r)
    <3>1. i \in DOMAIN log
      BY RecordFits, LenProperties DEF FeedTypes, Fits, FeedRec
    <3> QED
      BY <2>3, <3>1 DEF Asked, Question
  <2>4. Shows(f)
    BY <1>1, <2>1, <2>2, <2>3 DEF Shows, Reached
  <2> QED
    BY <2>1, <2>4, MovedShows
<1>6. CASE StartStream(s)
  <2> DEFINE f == [g EXCEPT !.stage = "live", !.upTo = Len(log),
                            !.shown = @ \cup g.asks, !.asks = {}]
  <2>1. Moved(s, f) /\ g.stage = "matched"
    BY <1>1, <1>6 DEF StartStream, Moved
  <2>2. /\ f.stage = "live" /\ f.begun = g.begun /\ f.shown = g.shown \cup g.asks
        /\ f.cursor = g.cursor
    BY <1>1 DEF FeedRec
  <2>3. Shows(f)
    BY <1>1, <2>1, <2>2 DEF Shows, Reached
  <2> QED
    BY <2>1, <2>3, MovedShows
<1>7. CASE Deliver(s)
  <2> DEFINE next == g.cursor + 1
             R == g.shown \cup IF log[next].kind = "ask" THEN {log[next].run} ELSE {}
             f == [g EXCEPT !.cursor = next, !.begun = TRUE, !.shown = R]
  <2>1. Moved(s, f) /\ g.stage = "live"
    BY <1>1, <1>7 DEF Deliver, Moved
  <2>2. f.stage = "live" /\ f.shown = R /\ f.cursor = next
    BY <1>1, <2>1 DEF FeedRec
  <2>3. \A r : Question(next, r) => r \in R
    BY DEF Question
  <2>4. \A i \in 1..next : i = next \/ i \in 1..g.cursor
    BY <1>1 DEF FeedRec
  <2>5. \A r \in open : \A i \in 1..g.cursor : Question(i, r) => r \in g.shown
    BY <1>1, <2>1 DEF Shows, Reached
  <2>6. Shows(f)
    BY <2>2, <2>3, <2>4, <2>5 DEF Shows, Reached
  <2> QED
    BY <2>1, <2>6, MovedShows
<1>8. CASE Receive(s) \/ Lagged(s)
  <2>1. \A h : h.cursor = g.cursor /\ h.shown = g.shown /\ h.stage = g.stage /\ g.stage = "live"
               => Shows(h)
    BY <1>1 DEF Shows, Reached
  <2>2. ASSUME NEW h \in FeedRec, h.cursor = g.cursor, h.shown = g.shown, h.stage = g.stage,
               g.stage = "live", Replay(s, h), UNCHANGED <<log, unsent, open>>
        PROVE ShownInv'
    <3> DEFINE f == [h EXCEPT !.upTo = Len(log)]
    <3>1. f.cursor = g.cursor /\ f.shown = g.shown /\ f.stage = g.stage
      BY <2>2 DEF FeedRec
    <3>2. Shows(f) /\ Shows(h)
      BY <2>1, <2>2, <3>1
    <3>3. Moved(s, f) \/ Moved(s, h)
      BY <2>2 DEF Replay, Moved
    <3> QED
      BY <3>2, <3>3, MovedShows
  <2>3. CASE Receive(s)
    <3> DEFINE h == [g EXCEPT !.channel = Tail(@)]
    <3>1. g.channel # <<>> /\ g.stage = "live"
      BY <2>3 DEF Receive, Waiting
    <3>2. Tail(g.channel) \in Seq(Nat)
      BY <1>1, <3>1 DEF FeedRec
    <3>3. h \in FeedRec /\ h.cursor = g.cursor /\ h.shown = g.shown /\ h.stage = g.stage
      BY <1>1, <3>1, <3>2 DEF FeedRec
    <3>4. Shows(h)
      BY <2>1, <3>1, <3>3
    <3>5. Replay(s, h) \/ Moved(s, h)
      BY <2>3 DEF Receive, Moved
    <3> QED
      BY <2>2, <2>3, <3>1, <3>3, <3>4, <3>5, MovedShows DEF Receive
  <2>4. CASE Lagged(s)
    <3> DEFINE h == [g EXCEPT !.lagged = FALSE]
    <3>1. g.stage = "live"
      BY <2>4 DEF Lagged, Waiting
    <3>2. h \in FeedRec /\ h.cursor = g.cursor /\ h.shown = g.shown /\ h.stage = g.stage
      BY <1>1, <3>1 DEF FeedRec
    <3> QED
      BY <2>2, <2>4, <3>1, <3>2 DEF Lagged
  <2> QED
    BY <1>8, <2>3, <2>4
<1>9. CASE RefuseStream(s) \/ Break(s)
  <2>1. Moved(s, Hangup(g))
    BY <1>9 DEF RefuseStream, Break, Moved
  <2>2. /\ g.begun => Hangup(g).cursor = g.cursor
        /\ ~g.begun => Hangup(g).cursor = 0
        /\ Hangup(g).begun = g.begun /\ Hangup(g).shown = g.shown
        /\ Hangup(g).stage = "off"
    BY <1>1 DEF Hangup, NoFeed, FeedRec
  <2>3. Shows(Hangup(g))
    BY <1>1, <2>2 DEF Shows, Reached
  <2> QED
    BY <2>1, <2>3, MovedShows
<1> QED
  BY <1>2, <1>3, <1>4, <1>5, <1>6, <1>7, <1>8, <1>9 DEF ClientStep, StreamStep

\* A question is opened before its row is written, so what is new among the
\* open questions is behind no cursor.
LEMMA ShownStep == FeedTypes /\ ShownInv /\ [Next]_vars => ShownInv'
<1> SUFFICES ASSUME FeedTypes, ShownInv, [Next]_vars PROVE ShownInv'
  OBVIOUS
<1>1. \A s \in Clients : \A i \in 1..feed[s].cursor : i \in 1..Len(log)
  BY RecordFits, LenProperties DEF FeedTypes, Fits, FeedRec
<1>2. CASE Publishes
  <2>0. PICK r \in Runs : \E k : Insert(k, r) /\ UNCHANGED <<open, feed>>
    BY <1>2 DEF Publishes
  <2> PICK k : Insert(k, r) /\ UNCHANGED <<open, feed>>
    BY <2>0
  <2> PICK K : log \in Seq([kind : K, run : Runs])
    BY DEF FeedTypes
  <2>1. \A i \in 1..Len(log) : log'[i] = log[i]
    BY DEF Insert
  <2> QED
    BY <1>1, <2>1 DEF ShownInv, Shows, Question, Reached
<1>3. CASE Broadcasts
  <2> PICK i \in unsent : Broadcast(i) /\ UNCHANGED <<log, open>>
    BY <1>3 DEF Broadcasts
  <2>1. \A s \in Clients :
          /\ feed'[s].stage = feed[s].stage /\ feed'[s].cursor = feed[s].cursor
          /\ feed'[s].begun = feed[s].begun /\ feed'[s].asks = feed[s].asks
          /\ feed'[s].shown = feed[s].shown
    BY DEF Broadcast, FeedTypes, FeedRec, Pushed
  <2> QED
    BY <2>1 DEF ShownInv, Shows, Question, Reached
<1>4. CASE Asks
  <2> PICK r \in Runs : ~Asked(r) /\ open' = open \cup {r} /\ UNCHANGED <<log, unsent, feed>>
    BY <1>4 DEF Asks
  <2>1. \A s \in Clients : \A i \in 1..feed[s].cursor : ~Question(i, r)
    BY <1>1, LenProperties DEF Asked, Question, FeedTypes
  <2> QED
    BY <2>1 DEF ShownInv, Shows, Question, Reached
<1>5. CASE Resumes \/ Rests
  BY <1>5 DEF Resumes, Rests, ShownInv, Shows, Question, Reached
<1>6. CASE Streams
  BY <1>6, StreamShows DEF Streams
<1> QED
  BY <1>2, <1>3, <1>4, <1>5, <1>6, Steps

(* QuestionShown: the floor, the open questions and their rows are read one *)
(* after the other, and yet no client's live stream is past an open         *)
(* question that it does not show.                                          *)
THEOREM QuestionShownCorrect == Spec => []QuestionShown
<1>1. ShownInv => QuestionShown
  BY DEF ShownInv, Shows, QuestionShown, Question, Reached
<1> QED
  BY <1>1, FeedTypesCorrect, ShownInit, ShownStep, PTL DEF Spec

---------------------------------------------------------------------------
(* The TODO queue, the steering slot and what became of each TODO.          *)

QueueRec == [open : BOOLEAN, accepting : BOOLEAN, items : Seq(Todos), steering : SUBSET Todos]
Fates == {"new", "queued", "injected", "deleted", "discarded"}

ListOf(s) == {s[i] : i \in DOMAIN s}
Distinct(s) == \A i, j \in DOMAIN s : s[i] = s[j] => i = j
AtMostOne(T) == T = {} \/ \E t \in Todos : T = {t}

\* A queue: what is steered is an item of it, and a closed one is empty.
QueueFits(q) ==
  /\ q \in QueueRec
  /\ Distinct(q.items)
  /\ q.steering \subseteq ListOf(q.items)
  /\ ~q.open => ~q.accepting /\ q.items = <<>>

\* A TODO is queued exactly while it is an item; what the slot holds was queued
\* and is not injected yet.
FateInv(q, sl, ft) ==
  /\ ft \in [Todos -> Fates]
  /\ \A t \in Todos : t \in ListOf(q.items) <=> ft[t] = "queued"
  /\ \A t \in sl : ft[t] \notin {"new", "injected"}

QueueInv == QueueFits(queue) /\ AtMostOne(slot) /\ FateInv(queue, slot, fate)

\* The lemmas below speak of ListOf: it is what Items is.
LEMMA ItemsAreListed == Items = ListOf(queue.items)
BY DEF Items, ListOf

\* An empty list has no members.
LEMMA NothingListed == ListOf(<<>>) = {} /\ Distinct(<<>>) /\ <<>> \in Seq(Todos)
BY DEF ListOf, Distinct

\* retain: the TODO of T goes and the others stay.
LEMMA RetainedItems ==
  ASSUME QueueFits(queue), NEW T, AtMostOne(T)
  PROVE /\ Retained(T) \in Seq(Todos)
        /\ Distinct(Retained(T))
        /\ ListOf(Retained(T)) = ListOf(queue.items) \ T
        /\ queue.items = <<>> => Retained(T) = <<>>
<1>1. PICK s : s = queue.items
  OBVIOUS
<1>2. s \in Seq(Todos) /\ Distinct(s) /\ Len(s) \in Nat /\ DOMAIN s = 1..Len(s)
  BY <1>1, LenProperties DEF QueueFits, QueueRec
<1>3. PICK gone : gone = {i \in DOMAIN s : s[i] \in T}
  OBVIOUS
<1>4. CASE gone = {}
  <2>1. Retained(T) = s
    BY <1>1, <1>3, <1>4 DEF Retained
  <2>2. ListOf(s) = ListOf(s) \ T
    BY <1>3, <1>4 DEF ListOf
  <2> QED
    BY <1>1, <1>2, <2>1, <2>2
<1>5. CASE gone # {}
  <2>1. PICK k : k = CHOOSE i \in gone : TRUE
    OBVIOUS
  <2>2. k \in 1..Len(s) /\ T = {s[k]}
    <3>1. k \in gone
      BY <1>5, <2>1
    <3> QED
      BY <1>2, <1>3, <3>1 DEF AtMostOne
  <2>3. Retained(T) = SubSeq(s, 1, k - 1) \o SubSeq(s, k + 1, Len(s))
    BY <1>1, <1>3, <1>5, <2>1 DEF Retained, RemoveAt
  <2>4. PICK a : a = SubSeq(s, 1, k - 1)
    OBVIOUS
  <2>5. PICK b : b = SubSeq(s, k + 1, Len(s))
    OBVIOUS
  <2>6. \A i \in 1..Len(s) : s[i] \in Todos
    BY <1>2, ElementOfSeq
  <2>7. a \in Seq(Todos) /\ Len(a) = k - 1 /\ \A i \in 1..(k - 1) : a[i] = s[i]
    <3>1. /\ SubSeq(s, 1, k - 1) \in Seq(Todos)
          /\ Len(SubSeq(s, 1, k - 1)) = IF 1 <= k - 1 THEN (k - 1) - 1 + 1 ELSE 0
          /\ \A i \in 1..((k - 1) - 1 + 1) : SubSeq(s, 1, k - 1)[i] = s[1 + i - 1]
      BY <1>2, <2>2, <2>6, SubSeqProperties
    <3> QED
      BY <1>2, <2>2, <2>4, <3>1
  <2>8. b \in Seq(Todos) /\ Len(b) = Len(s) - k /\ \A i \in 1..(Len(s) - k) : b[i] = s[i + k]
    <3>1. /\ SubSeq(s, k + 1, Len(s)) \in Seq(Todos)
          /\ Len(SubSeq(s, k + 1, Len(s))) = IF k + 1 <= Len(s) THEN Len(s) - (k + 1) + 1 ELSE 0
          /\ \A i \in 1..(Len(s) - (k + 1) + 1) : SubSeq(s, k + 1, Len(s))[i] = s[(k + 1) + i - 1]
      BY <1>2, <2>2, <2>6, SubSeqProperties
    <3>2. Len(b) = Len(s) - k
      <4>1. CASE k = Len(s)
        BY <1>2, <2>2, <2>5, <3>1, <4>1
      <4>2. CASE k < Len(s)
        <5>1. k + 1 <= Len(s) /\ Len(s) - (k + 1) + 1 = Len(s) - k
          BY <1>2, <2>2, <4>2
        <5> QED
          BY <2>5, <3>1, <5>1
      <4>3. k \in 1..Len(s) /\ Len(s) \in Nat
        BY <1>2, <2>2
      <4>4. k = Len(s) \/ k < Len(s)
        BY <4>3
      <4> QED
        BY <4>1, <4>2, <4>4
    <3>3. ASSUME NEW i \in 1..(Len(s) - k) PROVE b[i] = s[i + k]
      <4>1. i \in 1..(Len(s) - (k + 1) + 1)
        BY <1>2, <2>2
      <4>2. b[i] = s[(k + 1) + i - 1]
        BY <2>5, <3>1, <4>1
      <4>3. (k + 1) + i - 1 = i + k
        BY <2>2
      <4> QED
        BY <4>2, <4>3
    <3> QED
      BY <2>5, <3>1, <3>2, <3>3
  <2>9. PICK r : r = a \o b
    OBVIOUS
  <2>10. PICK n \in Nat : n = Len(s)
    BY <1>2
  <2>11. /\ r \in Seq(Todos) /\ Len(r) = n - 1
         /\ \A i \in 1..(n - 1) : r[i] = IF i < k THEN s[i] ELSE s[i + 1]
    <3>1. /\ r \in Seq(Todos) /\ Len(r) = Len(a) + Len(b)
          /\ \A i \in 1..(Len(a) + Len(b)) : r[i] = IF i <= Len(a) THEN a[i] ELSE b[i - Len(a)]
      BY <2>7, <2>8, <2>9, ConcatProperties
    <3>2. Len(a) + Len(b) = n - 1
      BY <2>2, <2>7, <2>8, <2>10
    <3>3. ASSUME NEW i \in 1..(n - 1) PROVE r[i] = IF i < k THEN s[i] ELSE s[i + 1]
      <4>1. CASE i < k
        BY <2>2, <2>7, <2>10, <3>1, <3>2, <4>1
      <4>2. CASE ~(i < k)
        <5>1. i - Len(a) \in 1..(n - k) /\ ~(i <= Len(a))
          BY <2>2, <2>7, <2>10, <4>2
        <5>2. r[i] = b[i - Len(a)]
          BY <3>1, <3>2, <5>1
        <5>3. b[i - Len(a)] = s[(i - Len(a)) + k]
          BY <2>8, <2>10, <5>1
        <5>4. (i - Len(a)) + k = i + 1
          BY <2>2, <2>7
        <5> QED
          BY <4>2, <5>2, <5>3, <5>4
      <4> QED
        BY <4>1, <4>2
    <3> QED
      BY <3>1, <3>2, <3>3
  <2>12. DOMAIN r = 1..(n - 1)
    BY <2>11, LenProperties
  <2>13. \A i, j \in 1..n : s[i] = s[j] => i = j
    BY <1>2, <2>10 DEF Distinct
  <2>14. ASSUME NEW i \in 1..(n - 1), NEW j \in 1..(n - 1), r[i] = r[j] PROVE i = j
    <3>1. CASE i < k /\ j < k
      BY <2>10, <2>11, <2>13, <2>14, <3>1
    <3>2. CASE i < k /\ ~(j < k)
      <4>1. i \in 1..n /\ j + 1 \in 1..n /\ s[i] = s[j + 1]
        BY <2>10, <2>11, <2>14, <3>2
      <4>2. i = j + 1
        BY <2>13, <4>1
      <4> QED
        BY <2>2, <2>10, <3>2, <4>2
    <3>3. CASE ~(i < k) /\ j < k
      <4>1. i + 1 \in 1..n /\ j \in 1..n /\ s[i + 1] = s[j]
        BY <2>10, <2>11, <2>14, <3>3
      <4>2. i + 1 = j
        BY <2>13, <4>1
      <4> QED
        BY <2>2, <2>10, <3>3, <4>2
    <3>4. CASE ~(i < k) /\ ~(j < k)
      <4>1. i + 1 \in 1..n /\ j + 1 \in 1..n /\ s[i + 1] = s[j + 1]
        BY <2>10, <2>11, <2>14, <3>4
      <4>2. i + 1 = j + 1
        BY <2>13, <4>1
      <4> QED
        BY <4>2
    <3> QED
      BY <3>1, <3>2, <3>3, <3>4
  <2>15. Distinct(r)
    BY <2>12, <2>14 DEF Distinct
  <2>16. ASSUME NEW t \in ListOf(r) PROVE t \in ListOf(s) \ T
    <3>1. PICK i \in 1..(n - 1) : t = r[i]
      BY <2>12 DEF ListOf
    <3>2. PICK j \in 1..n : t = s[j] /\ j # k
      <4>1. CASE i < k
        BY <2>10, <2>11, <3>1, <4>1
      <4>2. CASE ~(i < k)
        <5>1. i + 1 \in 1..n /\ i + 1 # k
          BY <2>2, <2>10, <4>2
        <5> QED
          BY <2>11, <3>1, <4>2, <5>1
      <4> QED
        BY <4>1, <4>2
    <3>3. t # s[k]
      BY <2>2, <2>10, <2>13, <3>2
    <3> QED
      BY <1>2, <2>2, <2>10, <3>2, <3>3 DEF ListOf
  <2>17. ASSUME NEW t \in ListOf(s) \ T PROVE t \in ListOf(r)
    <3>1. PICK j \in 1..n : t = s[j]
      BY <1>2, <2>10 DEF ListOf
    <3>2. j # k
      BY <2>2, <3>1
    <3>3. PICK i \in 1..(n - 1) : t = r[i]
      <4>1. CASE j < k
        BY <2>2, <2>10, <2>11, <3>1, <4>1
      <4>2. CASE ~(j < k)
        <5>1. j - 1 \in 1..(n - 1) /\ ~(j - 1 < k) /\ (j - 1) + 1 = j
          BY <2>2, <2>10, <3>2, <4>2
        <5> QED
          BY <2>11, <3>1, <5>1
      <4> QED
        BY <4>1, <4>2
    <3> QED
      BY <2>12, <3>3 DEF ListOf
  <2>18. s # <<>>
    BY <1>2, <2>2
  <2> QED
    BY <1>1, <2>3, <2>4, <2>5, <2>9, <2>11, <2>15, <2>16, <2>17, <2>18
<1> QED
  BY <1>4, <1>5

\* What a queue becomes when the TODO of T is taken out of it.
LEMMA WithoutFits ==
  ASSUME QueueFits(queue), NEW T, AtMostOne(T)
  PROVE /\ QueueFits(Without(T))
        /\ ListOf(Without(T).items) = ListOf(queue.items) \ T
        /\ Without(T).accepting = queue.accepting
        /\ queue.items = <<>> => Without(T).items = <<>>
<1>1. PICK l : l = Retained(T)
  OBVIOUS
<1>2. l \in Seq(Todos) /\ Distinct(l) /\ ListOf(l) = ListOf(queue.items) \ T
      /\ (queue.items = <<>> => l = <<>>)
  BY <1>1, RetainedItems
<1>3. PICK q : q = [queue EXCEPT !.items = l, !.steering = queue.steering \ T]
  OBVIOUS
<1>4. queue \in QueueRec /\ queue.steering \in SUBSET Todos
  BY DEF QueueFits, QueueRec
<1>5. \A x \in Seq(Todos), y \in SUBSET Todos :
         [queue EXCEPT !.items = x, !.steering = y] \in QueueRec
  BY <1>4 DEF QueueRec
<1>6. q \in QueueRec
  BY <1>2, <1>3, <1>4, <1>5
<1>7. q.items = l /\ q.steering = queue.steering \ T /\ q.open = queue.open
      /\ q.accepting = queue.accepting
  BY <1>3, <1>4 DEF QueueRec
<1>8. QueueFits(q)
  BY <1>2, <1>6, <1>7 DEF QueueFits
<1>9. Without(T) = q
  BY <1>1, <1>3 DEF Without
<1> QED
  BY <1>2, <1>7, <1>8, <1>9

\* Queues that were not touched, marked or closed fit.
LEMMA QueueEdits ==
  ASSUME QueueFits(queue), NEW T \in SUBSET Todos
  PROVE /\ QueueFits(NoQueue) /\ QueueFits(NewQueue)
        /\ NoQueue.items = <<>> /\ NewQueue.items = <<>>
        /\ LET q == [queue EXCEPT !.steering = @ \ T]
           IN  QueueFits(q) /\ q.items = queue.items /\ q.accepting = queue.accepting
        /\ T \subseteq ListOf(queue.items)
             => LET q == [queue EXCEPT !.steering = @ \cup T]
                IN  QueueFits(q) /\ q.items = queue.items /\ q.accepting = queue.accepting
        /\ LET q == [queue EXCEPT !.accepting = FALSE]
           IN  QueueFits(q) /\ q.items = queue.items /\ ~q.accepting
<1>1. queue \in QueueRec /\ queue.steering \in SUBSET Todos
  BY DEF QueueFits, QueueRec
<1>2. QueueFits(NoQueue) /\ QueueFits(NewQueue) /\ NoQueue.items = <<>> /\ NewQueue.items = <<>>
  <2>1. NoQueue \in QueueRec
    BY NothingListed DEF NoQueue, QueueRec
  <2>3. NewQueue \in QueueRec
    BY <2>1 DEF NewQueue, QueueRec
  <2>4. /\ NoQueue.items = <<>> /\ NoQueue.steering = {} /\ NoQueue.accepting = FALSE
        /\ NewQueue.items = <<>> /\ NewQueue.steering = {} /\ NewQueue.open = TRUE
    BY DEF NoQueue, NewQueue
  <2> QED
    BY <2>1, <2>3, <2>4, NothingListed DEF QueueFits
<1>3. ASSUME NEW S \in SUBSET Todos, S \subseteq ListOf(queue.items)
      PROVE  LET q == [queue EXCEPT !.steering = S]
             IN  QueueFits(q) /\ q.items = queue.items /\ q.accepting = queue.accepting
  <2>1. PICK q : q = [queue EXCEPT !.steering = S]
    OBVIOUS
  <2>2. q \in QueueRec
    BY <1>1, <2>1 DEF QueueRec
  <2>3. q.items = queue.items /\ q.accepting = queue.accepting /\ q.open = queue.open /\ q.steering = S
    BY <1>1, <2>1 DEF QueueRec
  <2>4. QueueFits(q)
    BY <1>3, <2>2, <2>3 DEF QueueFits
  <2> QED
    BY <2>1, <2>3, <2>4
<1>4. queue.steering \subseteq ListOf(queue.items)
  BY DEF QueueFits
<1>5. LET q == [queue EXCEPT !.steering = @ \ T]
      IN  QueueFits(q) /\ q.items = queue.items /\ q.accepting = queue.accepting
  BY <1>1, <1>3, <1>4
<1>6. ASSUME T \subseteq ListOf(queue.items)
      PROVE  LET q == [queue EXCEPT !.steering = @ \cup T]
             IN  QueueFits(q) /\ q.items = queue.items /\ q.accepting = queue.accepting
  BY <1>1, <1>3, <1>4, <1>6
<1>7. LET q == [queue EXCEPT !.accepting = FALSE]
      IN  QueueFits(q) /\ q.items = queue.items /\ ~q.accepting
  <2>1. PICK q : q = [queue EXCEPT !.accepting = FALSE]
    OBVIOUS
  <2>2. q \in QueueRec
    BY <1>1, <2>1 DEF QueueRec
  <2>3. q.items = queue.items /\ q.accepting = FALSE /\ q.open = queue.open
        /\ q.steering = queue.steering
    BY <1>1, <2>1 DEF QueueRec
  <2>4. QueueFits(q)
    BY <2>2, <2>3 DEF QueueFits
  <2> QED
    BY <2>1, <2>3, <2>4
<1> QED
  BY <1>2, <1>5, <1>6, <1>7

\* clear_follow_ups, begin_follow_up_run and finish_follow_up_run: what was
\* queued is discarded.
LEMMA QueueReplaced ==
  ASSUME QueueInv, DropQueue \/ OpenQueue
  PROVE QueueInv' /\ ListOf(queue'.items) = {}
<1>1. queue' \in {NoQueue, NewQueue} /\ slot' = slot /\ Discard
  BY DEF DropQueue, OpenQueue
<1>2. QueueFits(queue') /\ ListOf(queue'.items) = {}
  BY <1>1, QueueEdits, NothingListed DEF QueueInv
<1>3. fate' \in [Todos -> Fates]
  BY <1>1 DEF Discard, QueueInv, FateInv, Fates
<1>4. ASSUME NEW t \in Todos
      PROVE  fate'[t] # "queued" /\ (fate[t] \notin {"new", "injected"} => fate'[t] \notin {"new", "injected"})
  BY <1>1, ItemsAreListed DEF Discard, QueueInv, FateInv
<1>5. slot \subseteq Todos
  BY DEF QueueInv, AtMostOne
<1>6. FateInv(queue', slot', fate')
  <2>1. \A t \in Todos : t \in ListOf(queue'.items) <=> fate'[t] = "queued"
    BY <1>2, <1>4
  <2>2. \A t \in slot' : fate'[t] \notin {"new", "injected"}
    BY <1>1, <1>4, <1>5 DEF QueueInv, FateInv
  <2> QED
    BY <1>3, <2>1, <2>2 DEF FateInv
<1> QED
  BY <1>1, <1>2, <1>6 DEF QueueInv

\* A TODO that is taken leaves the queue and the slot and is injected.
LEMMA TodoTaken ==
  ASSUME QueueInv, NEW T, AtMostOne(T), queue' = Without(T), Injects(T),
         slot' \in {{}, slot}, slot' \cap T = {}
  PROVE QueueInv'
<1>1. QueueFits(queue') /\ ListOf(queue'.items) = ListOf(queue.items) \ T
  BY WithoutFits DEF QueueInv
<1>2. AtMostOne(slot') /\ slot \subseteq Todos
  BY DEF QueueInv, AtMostOne
<1>3. fate' \in [Todos -> Fates]
  BY DEF Injects, QueueInv, FateInv, Fates
<1>4. \A t \in Todos : fate'[t] = IF t \in T THEN "injected" ELSE fate[t]
  BY DEF Injects
<1>5. \A t \in Todos : t \in ListOf(queue'.items) <=> fate'[t] = "queued"
  BY <1>1, <1>4 DEF QueueInv, FateInv
<1>6. \A t \in slot' : fate'[t] \notin {"new", "injected"}
  BY <1>2, <1>4 DEF QueueInv, FateInv
<1> QED
  BY <1>1, <1>2, <1>3, <1>5, <1>6 DEF QueueInv, FateInv

\* take_pending_steer and take_next_run_input_or_close take one TODO at most.
LEMMA NextInputOne ==
  ASSUME QueueInv
  PROVE AtMostOne(NextInput) /\ AtMostOne(slot)
<1>1. queue.items # <<>> => Head(queue.items) \in Todos
  BY HeadTailProperties DEF QueueInv, QueueFits, QueueRec
<1> QED
  BY <1>1 DEF NextInput, AtMostOne, QueueInv

\* When the run closes its queue, nothing is left in it.
LEMMA TakeNextKeeps ==
  ASSUME QueueInv, TakeNextOrClose
  PROVE /\ QueueInv'
        /\ NextInput = {} => ~queue'.accepting /\ queue'.items = <<>>
<1>1. AtMostOne(NextInput)
  BY NextInputOne
<1>2. CASE queue.open /\ NextInput = {}
  <2>1. queue.items = <<>> /\ slot = {}
    BY <1>2 DEF NextInput
  <2>2. queue' = [queue EXCEPT !.accepting = FALSE] /\ slot' = {} /\ Injects({})
    BY <1>2 DEF TakeNextOrClose
  <2>3. QueueFits(queue') /\ queue'.items = queue.items /\ ~queue'.accepting
    BY <2>2, QueueEdits DEF QueueInv
  <2>4. fate' = fate
    BY <2>2 DEF Injects, QueueInv, FateInv
  <2> QED
    BY <2>1, <2>2, <2>3, <2>4 DEF QueueInv, FateInv
<1>3. CASE ~(queue.open /\ NextInput = {})
  <2>1. queue' = Without(NextInput) /\ Injects(NextInput)
        /\ slot' = (IF queue.open THEN {} ELSE slot)
    BY <1>3 DEF TakeNextOrClose
  <2>2. slot' \in {{}, slot} /\ slot' \cap NextInput = {}
    BY <2>1 DEF NextInput
  <2>3. QueueInv'
    BY <1>1, <2>1, <2>2, TodoTaken
  <2>4. NextInput = {} => ~queue.accepting /\ queue.items = <<>>
    BY <1>3 DEF QueueInv, QueueFits
  <2>5. /\ queue'.accepting = queue.accepting
        /\ queue.items = <<>> => queue'.items = <<>>
    BY <1>1, <2>1, WithoutFits DEF QueueInv
  <2> QED
    BY <2>3, <2>4, <2>5
<1> QED
  BY <1>2, <1>3

\* clear_pending_steer puts the steered TODO back.
LEMMA ClearKeeps ==
  ASSUME QueueInv, ClearSteer
  PROVE QueueInv' /\ queue'.items = queue.items /\ queue'.accepting = queue.accepting
<1>1. slot \in SUBSET Todos
  BY DEF QueueInv, AtMostOne
<1>2. QueueFits(queue') /\ queue'.items = queue.items /\ queue'.accepting = queue.accepting
  BY <1>1, QueueEdits DEF ClearSteer, QueueInv
<1> QED
  BY <1>2 DEF ClearSteer, QueueInv, AtMostOne, FateInv

\* Clients add a TODO that is new, steer one that is queued, and delete one that
\* is not steered.
LEMMA UserKeeps ==
  ASSUME QueueInv, NEW t \in Todos, UserStep(t)
  PROVE QueueInv' /\ (queue'.accepting \/ queue'.items # <<>> => queue.accepting \/ queue.items # <<>>)
<1>1. CASE AddTodo(t)
  <2>1. /\ fate[t] = "new" /\ queue.accepting /\ slot' = slot
        /\ queue' = [queue EXCEPT !.items = Append(queue.items, t)]
        /\ fate' = [fate EXCEPT ![t] = "queued"]
    BY <1>1 DEF AddTodo
  <2>2. PICK s : s = queue.items
    OBVIOUS
  <2>3. queue \in QueueRec /\ s \in Seq(Todos) /\ Distinct(s) /\ Len(s) \in Nat
        /\ DOMAIN s = 1..Len(s)
    BY <2>2, LenProperties DEF QueueInv, QueueFits, QueueRec
  <2>4. PICK l : l = Append(s, t)
    OBVIOUS
  <2>5. /\ l \in Seq(Todos) /\ Len(l) = Len(s) + 1 /\ DOMAIN l = 1..(Len(s) + 1)
        /\ \A i \in 1..Len(s) : l[i] = s[i]
        /\ l[Len(s) + 1] = t
    BY <2>3, <2>4, AppendProperties, LenProperties
  <2>6. \A i \in 1..(Len(s) + 1) : i \in 1..Len(s) \/ i = Len(s) + 1
    BY <2>3
  <2>7. t \notin ListOf(s)
    BY <2>1, <2>2 DEF QueueInv, FateInv
  <2>8. \A i \in 1..Len(s) : s[i] # t
    BY <2>3, <2>7 DEF ListOf
  <2>9. Distinct(l)
    BY <2>3, <2>5, <2>6, <2>8 DEF Distinct
  <2>10. ListOf(l) = ListOf(s) \cup {t}
    <3>1. ListOf(l) \subseteq ListOf(s) \cup {t}
      BY <2>3, <2>5, <2>6 DEF ListOf
    <3>2. ListOf(s) \subseteq ListOf(l)
      BY <2>3, <2>5 DEF ListOf
    <3>3. Len(s) + 1 \in DOMAIN l
      BY <2>3, <2>5
    <3>4. t \in ListOf(l)
      BY <2>5, <3>3 DEF ListOf
    <3> QED
      BY <3>1, <3>2, <3>4
  <2>11. queue' \in QueueRec
    BY <2>1, <2>2, <2>3, <2>4, <2>5 DEF QueueRec
  <2>12. /\ queue'.items = l /\ queue'.open = queue.open /\ queue'.accepting = queue.accepting
         /\ queue'.steering = queue.steering
    BY <2>1, <2>2, <2>3, <2>4 DEF QueueRec
  <2>13. queue.open
    BY <2>1 DEF QueueInv, QueueFits
  <2>14. QueueFits(queue')
    <3>1. queue.steering \subseteq ListOf(s)
      BY <2>2 DEF QueueInv, QueueFits
    <3> QED
      BY <2>9, <2>10, <2>11, <2>12, <2>13, <3>1 DEF QueueFits
  <2>15. FateInv(queue', slot', fate')
    <3>1. fate' \in [Todos -> Fates]
      BY <2>1 DEF QueueInv, FateInv, Fates
    <3>2. \A u \in Todos : fate'[u] = IF u = t THEN "queued" ELSE fate[u]
      BY <2>1 DEF QueueInv, FateInv
    <3>3. \A u \in Todos : u \in ListOf(queue'.items) <=> fate'[u] = "queued"
      BY <2>2, <2>10, <2>12, <3>2 DEF QueueInv, FateInv
    <3>4. slot \subseteq Todos
      BY DEF QueueInv, AtMostOne
    <3>5. \A u \in slot' : fate'[u] \notin {"new", "injected"}
      BY <2>1, <3>2, <3>4 DEF QueueInv, FateInv
    <3> QED
      BY <3>1, <3>3, <3>5 DEF FateInv
  <2> QED
    BY <2>1, <2>14, <2>15 DEF QueueInv
<1>2. CASE SteerTodo(t)
  <2>1. /\ t \in ListOf(queue.items) /\ slot' = {t} /\ fate' = fate
        /\ queue' = [queue EXCEPT !.steering = @ \cup {t}]
    BY <1>2, ItemsAreListed DEF SteerTodo
  <2>2. QueueFits(queue') /\ queue'.items = queue.items /\ queue'.accepting = queue.accepting
    BY <2>1, QueueEdits DEF QueueInv
  <2>3. fate[t] = "queued"
    BY <2>1 DEF QueueInv, FateInv
  <2>4. FateInv(queue', slot', fate')
    BY <2>1, <2>2, <2>3 DEF QueueInv, FateInv
  <2> QED
    BY <2>1, <2>2, <2>4 DEF QueueInv, AtMostOne
<1>3. CASE UnsteerTodo(t)
  <2>1. slot' = {} /\ fate' = fate /\ queue' = [queue EXCEPT !.steering = @ \ {t}]
    BY <1>3 DEF UnsteerTodo
  <2>2. QueueFits(queue') /\ queue'.items = queue.items /\ queue'.accepting = queue.accepting
    BY <2>1, QueueEdits DEF QueueInv
  <2> QED
    BY <2>1, <2>2 DEF QueueInv, FateInv, AtMostOne
<1>4. CASE DeleteTodo(t)
  <2>1. t \in ListOf(queue.items) /\ queue' = Without({t}) /\ slot' = slot
        /\ fate' = [fate EXCEPT ![t] = "deleted"]
    BY <1>4, ItemsAreListed DEF DeleteTodo
  <2>2. AtMostOne({t})
    BY DEF AtMostOne
  <2>3. /\ QueueFits(queue') /\ ListOf(queue'.items) = ListOf(queue.items) \ {t}
        /\ queue'.accepting = queue.accepting
        /\ queue.items = <<>> => queue'.items = <<>>
    BY <2>1, <2>2, WithoutFits DEF QueueInv
  <2>4. FateInv(queue', slot', fate')
    <3>1. fate' \in [Todos -> Fates]
      BY <2>1 DEF QueueInv, FateInv, Fates
    <3>2. \A u \in Todos : fate'[u] = IF u = t THEN "deleted" ELSE fate[u]
      BY <2>1 DEF QueueInv, FateInv
    <3>3. \A u \in Todos : u \in ListOf(queue'.items) <=> fate'[u] = "queued"
      BY <2>3, <3>2 DEF QueueInv, FateInv
    <3>4. slot \subseteq Todos
      BY DEF QueueInv, AtMostOne
    <3>5. \A u \in slot' : fate'[u] \notin {"new", "injected"}
      BY <2>1, <3>2, <3>4 DEF QueueInv, FateInv
    <3> QED
      BY <3>1, <3>3, <3>5 DEF FateInv
  <2> QED
    BY <2>1, <2>3, <2>4 DEF QueueInv
<1> QED
  BY <1>1, <1>2, <1>3, <1>4 DEF UserStep

---------------------------------------------------------------------------
(* The runs.                                                                *)

RunStages == {"idle"} \cup Preparing \cup Executing \cup Ending \cup Over
RunRec == [at : RunStages, token : {"none", "held", "cancelled"},
           outcome : {"none", "complete", "error", "panic"},
           steps : 0..(MaxSteps + 1), notes : Seq({"ask", "note"})]

\* A run within its loop has an iteration left to exceed the limit with.
RunFits(x) ==
  x \in RunRec /\ (x.at \in {"idle"} \cup Preparing \cup Executing => x.steps <= MaxSteps)

RunInv == run \in [Runs -> RunRec] /\ \A r \in Runs : RunFits(run[r])

\* A run that moves to something that fits.
RunMoves(r) == \E x : RunFits(x) /\ run' = [run EXCEPT ![r] = x]

\* One run moves at a time.
LEMMA OneRunMoves ==
  ASSUME RunInv, NEW r \in Runs, RunMoves(r)
  PROVE RunInv'
<1>1. PICK x : RunFits(x) /\ run' = [run EXCEPT ![r] = x]
  BY DEF RunMoves
<1>2. run' \in [Runs -> RunRec]
  BY <1>1 DEF RunInv, RunFits
<1>3. \A q \in Runs : run'[q] = IF q = r THEN x ELSE run[q]
  BY <1>1 DEF RunInv
<1>4. \A q \in Runs : RunFits(run'[q])
  BY <1>1, <1>3 DEF RunInv
<1> QED
  BY <1>2, <1>4 DEF RunInv, RunFits

\* What a run writes down for the forwarder.
LEMMA NotesTyped ==
  ASSUME NEW n \in Seq({"ask", "note"}), NEW T
  PROVE /\ Append(n, "note") \in Seq({"ask", "note"})
        /\ n \o <<"ask", "note">> \in Seq({"ask", "note"})
        /\ n \o <<"note">> \in Seq({"ask", "note"})
        /\ Taken(T) \in Seq({"ask", "note"})
        /\ <<>> \in Seq({"ask", "note"}) /\ <<"note">> \in Seq({"ask", "note"})
        /\ \A m \in Seq({"ask", "note"}) : n \o m \in Seq({"ask", "note"})
        /\ n # <<>> => Tail(n) \in Seq({"ask", "note"}) /\ Head(n) \in {"ask", "note"}
<1>1. \A m \in Seq({"ask", "note"}) : n \o m \in Seq({"ask", "note"})
  BY ConcatProperties
<1>2. <<>> \in Seq({"ask", "note"}) /\ <<"note">> \in Seq({"ask", "note"})
      /\ <<"ask", "note">> \in Seq({"ask", "note"})
  OBVIOUS
<1>3. Append(n, "note") \in Seq({"ask", "note"})
  BY AppendProperties
<1>4. n # <<>> => Tail(n) \in Seq({"ask", "note"}) /\ Head(n) \in {"ask", "note"}
  BY HeadTailProperties
<1> QED
  BY <1>1, <1>2, <1>3, <1>4 DEF Taken

\* Every step of a run moves it to something that fits.
LEMMA EveryRunMoves ==
  ASSUME RunInv, NEW r \in Runs,
         \/ Prepare(r) \/ RequestStep(r) \/ DropRequest(r) \/ TurnStep(r) \/ Forward(r) \/ Cancel(r)
  PROVE RunMoves(r)
<1>1. PICK x : x = run[r]
  OBVIOUS
<1>2. x \in RunRec /\ RunFits(x) /\ run \in [Runs -> RunRec] /\ MaxSteps \in Nat \ {0}
  BY <1>1, TurnsAssumption DEF RunInv
<1>3. x.steps \in 0..(MaxSteps + 1) /\ x.notes \in Seq({"ask", "note"})
  BY <1>2 DEF RunRec
<1>4. x.at \in {"idle"} \cup Preparing \cup Executing => x.steps <= MaxSteps
  BY <1>2 DEF RunFits
<1>5. ASSUME NEW stage, Go(r, stage), stage \in RunStages,
             x.at \in {"idle"} \cup Preparing \cup Executing
               \/ stage \in Ending \cup Over
      PROVE RunMoves(r)
  <2>1. run' = [run EXCEPT ![r] = [x EXCEPT !.at = stage]]
    BY <1>1, <1>2, <1>5 DEF Go
  <2>2. RunFits([x EXCEPT !.at = stage])
    <3>1. [x EXCEPT !.at = stage] \in RunRec
      BY <1>2, <1>5 DEF RunRec
    <3>2. [x EXCEPT !.at = stage].at = stage /\ [x EXCEPT !.at = stage].steps = x.steps
      BY <1>2 DEF RunRec
    <3>3. stage \in {"idle"} \cup Preparing \cup Executing => stage \notin Ending \cup Over
      BY DEF Preparing, Executing, Ending, Over
    <3> QED
      BY <1>4, <1>5, <3>1, <3>2, <3>3 DEF RunFits
  <2> QED
    BY <2>1, <2>2 DEF RunMoves
<1> USE DEF RunStages, Preparing, Executing, Ending, Over
<1>6. CASE Prepare(r) \/ PrepareQueue(r) \/ OpenTurn(r) \/ Launch(r) \/ DropRequest(r)
  BY <1>1, <1>5, <1>6 DEF Prepare, PrepareQueue, OpenTurn, Launch, DropRequest
<1>7. CASE Resume(r) \/ Stop(r) \/ Finish(r) \/ FinishSteer(r) \/ Report(r)
  BY <1>1, <1>5, <1>7 DEF Resume, Stop, Finish, FinishSteer, Report
<1>8. ASSUME NEW stage \in RunStages, NEW token \in {"none", "held", "cancelled"},
             run' = [run EXCEPT ![r].at = stage, ![r].token = token],
             x.at \in {"idle"} \cup Preparing \cup Executing \/ stage \in Ending \cup Over
      PROVE RunMoves(r)
  <2>1. run' = [run EXCEPT ![r] = [x EXCEPT !.at = stage, !.token = token]]
    BY <1>1, <1>2, <1>8
  <2>2. PICK y : y = [x EXCEPT !.at = stage, !.token = token]
    OBVIOUS
  <2>3. y \in RunRec /\ y.at = stage /\ y.steps = x.steps
    BY <1>2, <2>2 DEF RunRec
  <2>4. RunFits(y)
    BY <1>4, <1>8, <2>3 DEF RunFits
  <2> QED
    BY <2>1, <2>2, <2>4 DEF RunMoves
<1>9. CASE Register(r) \/ PublishStarted(r) \/ Clean(r)
  <2>1. CASE Register(r)
    BY <1>1, <1>8, <2>1 DEF Register
  <2>2. CASE PublishStarted(r)
    BY <1>1, <1>5, <1>8, <2>2 DEF PublishStarted
  <2>3. CASE Clean(r)
    BY <1>1, <1>8, <2>3 DEF Clean
  <2> QED
    BY <1>9, <2>1, <2>2, <2>3
<1>10. ASSUME NEW outcome \in {"complete", "error", "panic"}, NEW n \in Seq({"ask", "note"}),
              \/ run' = [run EXCEPT ![r].at = "ending", ![r].outcome = outcome]
              \/ run' = [run EXCEPT ![r].at = "ending", ![r].outcome = outcome, ![r].notes = n]
       PROVE RunMoves(r)
  <2>1. \/ run' = [run EXCEPT ![r] = [x EXCEPT !.at = "ending", !.outcome = outcome]]
        \/ run' = [run EXCEPT ![r] = [x EXCEPT !.at = "ending", !.outcome = outcome, !.notes = n]]
    BY <1>1, <1>2, <1>10
  <2>2. RunFits([x EXCEPT !.at = "ending", !.outcome = outcome])
    BY <1>2 DEF RunRec, RunFits
  <2>3. RunFits([x EXCEPT !.at = "ending", !.outcome = outcome, !.notes = n])
    BY <1>2, <1>10 DEF RunRec, RunFits
  <2> QED
    BY <2>1, <2>2, <2>3 DEF RunMoves
<1>11. CASE Cancelled(r) \/ CallFails(r)
  <2>1. Append(x.notes, "note") \in Seq({"ask", "note"})
    BY <1>3, NotesTyped
  <2>2. CASE Cancelled(r)
    BY <1>3, <1>10, <2>2 DEF Cancelled, End
  <2>3. CASE CallFails(r)
    <3>1. \/ run' = [run EXCEPT ![r].at = "ending", ![r].outcome = "error",
                                ![r].notes = Append(x.notes, "note")]
          \/ run' = [run EXCEPT ![r].at = "ending", ![r].outcome = "panic"]
      BY <1>1, <2>3 DEF CallFails, End
    <3> QED
      BY <1>10, <2>1, <3>1
  <2> QED
    BY <1>11, <2>2, <2>3
<1>12. ASSUME NEW stage \in Executing, NEW n \in Seq({"ask", "note"}), x.at \in Executing,
              run' = [run EXCEPT ![r].at = stage, ![r].notes = n]
       PROVE RunMoves(r)
  <2>1. run' = [run EXCEPT ![r] = [x EXCEPT !.at = stage, !.notes = n]]
    BY <1>1, <1>2, <1>12
  <2>2. PICK y : y = [x EXCEPT !.at = stage, !.notes = n]
    OBVIOUS
  <2>3. y \in RunRec /\ y.steps = x.steps
    BY <1>2, <1>12, <2>2 DEF RunRec
  <2>4. RunFits(y)
    BY <1>4, <1>12, <2>3 DEF RunFits
  <2> QED
    BY <2>1, <2>2, <2>4 DEF RunMoves
<1>13. CASE CallTools(r) \/ Ask(r)
  <2>1. Append(x.notes, "note") \in Seq({"ask", "note"})
        /\ x.notes \o <<"ask", "note">> \in Seq({"ask", "note"})
    BY <1>3, NotesTyped
  <2>2. x.at = "calling"
    BY <1>1, <1>13 DEF CallTools, Ask
  <2>3. \/ run' = [run EXCEPT ![r].at = "top", ![r].notes = Append(x.notes, "note")]
        \/ run' = [run EXCEPT ![r].at = "asking", ![r].notes = x.notes \o <<"ask", "note">>]
    BY <1>1, <1>13 DEF CallTools, Ask
  <2> QED
    BY <1>12, <2>1, <2>2, <2>3
<1>14. CASE NextOrFinal(r)
  <2>1. Append(x.notes, "note") \in Seq({"ask", "note"})
    BY <1>3, NotesTyped
  <2>2. x.at = "stopping"
    BY <1>1, <1>14 DEF NextOrFinal
  <2>3. \/ run' = [run EXCEPT ![r].at = "top", ![r].notes = Append(x.notes, "note")]
        \/ run' = [run EXCEPT ![r].at = "ending", ![r].outcome = "complete"]
    BY <1>1, <1>14 DEF NextOrFinal
  <2> QED
    BY <1>3, <1>10, <1>12, <2>1, <2>2, <2>3
<1>15. CASE LoopTop(r)
  <2>1. PICK last : last = IF x.steps = MaxSteps THEN <<"note">> ELSE <<>>
    OBVIOUS
  <2>2. PICK n : n = x.notes \o Taken(slot) \o last
    OBVIOUS
  <2>3. n \in Seq({"ask", "note"})
    <3>1. Taken(slot) \in Seq({"ask", "note"}) /\ last \in Seq({"ask", "note"})
      BY <1>3, <2>1, NotesTyped
    <3>2. x.notes \o Taken(slot) \in Seq({"ask", "note"})
      BY <1>3, <3>1, NotesTyped
    <3> QED
      BY <2>2, <3>1, <3>2, NotesTyped
  <2>4. x.at = "top" /\ x.steps + 1 \in 0..(MaxSteps + 1)
    BY <1>1, <1>2, <1>3, <1>4, <1>15 DEF LoopTop
  <2>5. CASE x.steps = MaxSteps
    <3>1. run' = [run EXCEPT ![r].steps = x.steps + 1, ![r].notes = n, ![r].at = "ending",
                             ![r].outcome = "error"]
      BY <1>1, <1>15, <2>1, <2>2, <2>5 DEF LoopTop
    <3>2. run' = [run EXCEPT ![r] = [x EXCEPT !.steps = x.steps + 1, !.notes = n, !.at = "ending",
                                              !.outcome = "error"]]
      BY <1>1, <1>2, <3>1
    <3>3. PICK y : y = [x EXCEPT !.steps = x.steps + 1, !.notes = n, !.at = "ending",
                                 !.outcome = "error"]
      OBVIOUS
    <3>4. \A k \in 0..(MaxSteps + 1) :
            [x EXCEPT !.steps = k, !.notes = n, !.at = "ending", !.outcome = "error"] \in RunRec
      BY <1>2, <2>3 DEF RunRec
    <3>5. y \in RunRec /\ y.at = "ending"
      BY <1>2, <2>4, <3>3, <3>4 DEF RunRec
    <3>6. RunFits(y)
      BY <3>5 DEF RunFits
    <3> QED
      BY <3>2, <3>3, <3>6 DEF RunMoves
  <2>6. CASE x.steps # MaxSteps
    <3>1. run' = [run EXCEPT ![r].steps = x.steps + 1, ![r].notes = n, ![r].at = "calling",
                             ![r].outcome = x.outcome]
      BY <1>1, <1>15, <2>1, <2>2, <2>6 DEF LoopTop
    <3>2. run' = [run EXCEPT ![r] = [x EXCEPT !.steps = x.steps + 1, !.notes = n, !.at = "calling",
                                              !.outcome = x.outcome]]
      BY <1>1, <1>2, <3>1
    <3>3. PICK y : y = [x EXCEPT !.steps = x.steps + 1, !.notes = n, !.at = "calling",
                                 !.outcome = x.outcome]
      OBVIOUS
    <3>4. \A k \in 0..(MaxSteps + 1) :
            [x EXCEPT !.steps = k, !.notes = n, !.at = "calling", !.outcome = x.outcome] \in RunRec
      BY <1>2, <2>3 DEF RunRec
    <3>5. y \in RunRec /\ y.steps = x.steps + 1
      BY <1>2, <2>4, <3>3, <3>4 DEF RunRec
    <3>6. x.steps + 1 <= MaxSteps
      BY <1>2, <1>3, <1>4, <2>4, <2>6
    <3>7. RunFits(y)
      BY <3>5, <3>6 DEF RunFits
    <3> QED
      BY <3>2, <3>3, <3>7 DEF RunMoves
  <2> QED
    BY <2>5, <2>6
<1>16. CASE Forward(r)
  <2>1. Tail(x.notes) \in Seq({"ask", "note"})
    BY <1>1, <1>3, <1>16, NotesTyped DEF Forward
  <2>2. run' = [run EXCEPT ![r] = [x EXCEPT !.notes = Tail(x.notes)]]
    BY <1>1, <1>2, <1>16 DEF Forward
  <2>3. PICK y : y = [x EXCEPT !.notes = Tail(x.notes)]
    OBVIOUS
  <2>4. y \in RunRec /\ y.at = x.at /\ y.steps = x.steps
    BY <1>2, <2>1, <2>3 DEF RunRec
  <2>5. RunFits(y)
    BY <1>4, <2>4 DEF RunFits
  <2> QED
    BY <2>2, <2>3, <2>5 DEF RunMoves
<1>17. CASE Cancel(r)
  <2>1. run' = [run EXCEPT ![r] = [x EXCEPT !.token = "cancelled"]]
    BY <1>1, <1>2, <1>17 DEF Cancel
  <2>2. PICK y : y = [x EXCEPT !.token = "cancelled"]
    OBVIOUS
  <2>3. y \in RunRec /\ y.at = x.at /\ y.steps = x.steps
    BY <1>2, <2>2 DEF RunRec
  <2>4. RunFits(y)
    BY <1>4, <2>3 DEF RunFits
  <2> QED
    BY <2>1, <2>2, <2>4 DEF RunMoves
<1> QED
  BY <1>6, <1>7, <1>9, <1>11, <1>13, <1>14, <1>15, <1>16, <1>17 DEF RequestStep, TurnStep

\* The runs keep their types.
LEMMA RunInvStep == RunInv /\ [Next]_vars => RunInv'
<1> SUFFICES ASSUME RunInv, [Next]_vars PROVE RunInv'
  OBVIOUS
<1>1. ASSUME NEW r \in Runs,
             Prepare(r) \/ RequestStep(r) \/ DropRequest(r) \/ TurnStep(r) \/ Forward(r) \/ Cancel(r)
      PROVE RunInv'
  BY <1>1, EveryRunMoves, OneRunMoves
<1>2. ASSUME run' = run PROVE RunInv'
  BY <1>2 DEF RunInv, RunFits
<1>3. ASSUME NEW r \in Runs, Emit(r) PROVE run' = run
  BY <1>3 DEF Emit, turnVars
<1>4. ASSUME NEW t \in Todos, UserStep(t) PROVE run' = run
  BY <1>4 DEF UserStep, AddTodo, SteerTodo, UnsteerTodo, DeleteTodo, Move
<1>5. ASSUME UNCHANGED turnVars \/ UNCHANGED vars PROVE run' = run
  BY <1>5 DEF turnVars, vars
<1> QED
  BY <1>1, <1>2, <1>3, <1>4, <1>5 DEF Next

---------------------------------------------------------------------------
(* The types of the events that the streams do not depend on.               *)

\* What a client may still receive are rows, and no more than fit the channel.
ChannelFits(c) == c \in Seq(1..Len(log)) /\ Len(c) <= Capacity

EventInv ==
  /\ log \in Seq([kind : Kinds, run : Runs])
  /\ unsent \subseteq 1..Len(log)
  /\ \A s \in Clients : ChannelFits(feed[s].channel)

CountInv == faults \in 0..MaxFaults /\ breaks \in 0..MaxBreaks /\ moves \in 0..MaxMoves

\* What a step does to the rows and the channels.
EventMoves ==
  \/ \E r \in Runs, k \in Kinds : Insert(k, r) /\ UNCHANGED feed
  \/ \E i \in unsent : Broadcast(i) /\ UNCHANGED log
  \/ \E s \in Clients : ClientStep(s)
  \/ UNCHANGED <<log, unsent, feed>>

\* Workers and forwarders write rows of the kinds there are, and clients move
\* their streams.
LEMMA EventSteps ==
  ASSUME RunInv, [Next]_vars
  PROVE EventMoves
<1>1. ASSUME NEW r \in Runs, Prepare(r) \/ DropRequest(r) \/ Cancel(r)
      PROVE UNCHANGED <<log, unsent, feed>>
  BY <1>1 DEF Prepare, DropRequest, Cancel, Quiet, eventVars
<1>2. ASSUME NEW r \in Runs, RequestStep(r) PROVE EventMoves
  BY <1>2 DEF RequestStep, PrepareQueue, Register, PublishStarted, OpenTurn, Launch, eventVars,
              EventMoves, Kinds
<1>3. ASSUME NEW r \in Runs, Report(r) PROVE EventMoves
  BY <1>3 DEF Report, EventMoves, Kinds
<1>4. ASSUME NEW r \in Runs,
             \/ Cancelled(r) \/ LoopTop(r) \/ CallTools(r) \/ Ask(r) \/ Resume(r) \/ Stop(r)
             \/ NextOrFinal(r) \/ CallFails(r) \/ Finish(r) \/ FinishSteer(r) \/ Clean(r)
      PROVE UNCHANGED <<log, unsent, feed>>
  BY <1>4 DEF Cancelled, LoopTop, CallTools, Ask, Resume, Stop, NextOrFinal, CallFails, Finish,
              FinishSteer, Clean, Quiet, eventVars
<1>5. ASSUME NEW r \in Runs, Forward(r) PROVE EventMoves
  <2>1. run[r].notes \in Seq({"ask", "note"}) /\ run[r].notes # <<>>
    BY <1>5 DEF Forward, RunInv, RunRec
  <2>2. Head(run[r].notes) \in Kinds
    BY <2>1, HeadTailProperties DEF Kinds
  <2> QED
    BY <1>5, <2>2 DEF Forward, EventMoves
<1>6. ASSUME NEW r \in Runs, Emit(r) PROVE EventMoves
  BY <1>6 DEF Emit, EventMoves
<1>7. ASSUME NEW t \in Todos, UserStep(t) PROVE UNCHANGED <<log, unsent, feed>>
  BY <1>7 DEF UserStep, AddTodo, SteerTodo, UnsteerTodo, DeleteTodo, Move, eventVars
<1>8. ASSUME UNCHANGED vars PROVE UNCHANGED <<log, unsent, feed>>
  BY <1>8 DEF vars, eventVars
<1> QED
  BY <1>1, <1>2, <1>3, <1>4, <1>5, <1>6, <1>7, <1>8 DEF Next, TurnStep, EventMoves

\* What a broadcast puts into a channel.
LEMMA PushedChannel ==
  ASSUME NEW f \in FeedRec, ChannelFits(f.channel), NEW i \in 1..Len(log)
  PROVE ChannelFits(Pushed(f, i).channel)
<1>1. f.channel \in Seq(1..Len(log)) /\ Len(f.channel) <= Capacity /\ Len(f.channel) \in Nat
      /\ Capacity \in Nat \ {0}
  BY EventsAssumption, LenProperties DEF ChannelFits
<1>2. CASE f.stage \in {"off", "floor"}
  BY <1>2 DEF Pushed
<1>3. CASE f.stage \notin {"off", "floor"} /\ Len(f.channel) < Capacity
  <2>1. Append(f.channel, i) \in Seq(1..Len(log)) /\ Len(Append(f.channel, i)) = Len(f.channel) + 1
    BY <1>1, AppendProperties
  <2>2. Pushed(f, i).channel = Append(f.channel, i)
    BY <1>3 DEF Pushed, FeedRec
  <2> QED
    BY <1>1, <1>3, <2>1, <2>2 DEF ChannelFits
<1>4. CASE f.stage \notin {"off", "floor"} /\ ~(Len(f.channel) < Capacity)
  <2>1. f.channel # <<>>
    BY <1>1, <1>4
  <2>2. Tail(f.channel) \in Seq(1..Len(log)) /\ Len(Tail(f.channel)) = Len(f.channel) - 1
    BY <1>1, <2>1, HeadTailProperties
  <2>3. /\ Append(Tail(f.channel), i) \in Seq(1..Len(log))
        /\ Len(Append(Tail(f.channel), i)) = Len(f.channel) - 1 + 1
    BY <2>2, AppendProperties
  <2>4. Pushed(f, i).channel = Append(Tail(f.channel), i)
    BY <1>4 DEF Pushed, FeedRec
  <2> QED
    BY <1>1, <2>3, <2>4 DEF ChannelFits
<1> QED
  BY <1>2, <1>3, <1>4

\* A stream keeps its channel, takes the first message off it, or loses it.
LEMMA StreamChannel ==
  ASSUME FeedTypes, NEW s \in Clients, ClientStep(s)
  PROVE /\ UNCHANGED <<log, unsent>>
        /\ \A c \in Clients : c # s => feed'[c] = feed[c]
        /\ \/ feed'[s].channel = feed[s].channel
           \/ feed'[s].channel = <<>>
           \/ feed[s].channel # <<>> /\ feed'[s].channel = Tail(feed[s].channel)
<1>1. feed \in [Clients -> FeedRec] /\ feed[s] \in FeedRec
  BY DEF FeedTypes
<1>2. CASE Connect(s) \/ Subscribe(s) \/ ListOpen(s) \/ MatchOpen(s) \/ StartStream(s) \/ Deliver(s)
  BY <1>1, <1>2 DEF Connect, Subscribe, ListOpen, MatchOpen, StartStream, Deliver, FeedRec
<1>3. CASE RefuseStream(s) \/ Break(s)
  BY <1>1, <1>3 DEF RefuseStream, Break, Hangup, NoFeed, FeedRec
<1>4. CASE Lagged(s)
  BY <1>1, <1>4 DEF Lagged, Replay, FeedRec
<1>5. CASE Receive(s)
  <2>1. PICK h : h = [feed[s] EXCEPT !.channel = Tail(@)]
    OBVIOUS
  <2>2. h.channel = Tail(feed[s].channel) /\ [h EXCEPT !.upTo = Len(log)].channel = h.channel
    BY <1>1, <2>1 DEF FeedRec
  <2>3. feed' \in {[feed EXCEPT ![s] = h], [feed EXCEPT ![s] = [h EXCEPT !.upTo = Len(log)]]}
        /\ feed[s].channel # <<>> /\ UNCHANGED <<log, unsent>>
    BY <1>5, <2>1 DEF Receive, Replay
  <2> QED
    BY <1>1, <2>2, <2>3
<1> QED
  BY <1>2, <1>3, <1>4, <1>5 DEF ClientStep, StreamStep

\* Every step keeps the types of the events.
LEMMA EventInvStep ==
  ASSUME FeedTypes, RunInv, EventInv, [Next]_vars
  PROVE EventInv'
<1>0. Len(log) \in Nat /\ feed \in [Clients -> FeedRec]
  BY LenProperties DEF EventInv, FeedTypes
<1>1. EventMoves
  BY EventSteps
<1>2. ASSUME NEW r \in Runs, NEW k \in Kinds, Insert(k, r), UNCHANGED feed
      PROVE EventInv'
  <2>1. log' \in Seq([kind : Kinds, run : Runs]) /\ Len(log') = Len(log) + 1
    BY <1>2, AppendProperties DEF Insert, EventInv
  <2>2. 1..Len(log) \subseteq 1..Len(log') /\ Len(log) + 1 \in 1..Len(log')
    BY <1>0, <2>1
  <2>3. unsent' \subseteq 1..Len(log')
    BY <1>2, <2>2 DEF Insert, EventInv
  <2>4. \A s \in Clients : ChannelFits(feed[s].channel)'
    <3> SUFFICES ASSUME NEW s \in Clients PROVE ChannelFits(feed[s].channel)'
      OBVIOUS
    <3>1. feed'[s].channel = feed[s].channel
      BY <1>2
    <3>2. feed[s].channel \in Seq(1..Len(log)) /\ Len(feed[s].channel) <= Capacity
      BY DEF EventInv, ChannelFits
    <3>3. feed[s].channel \in Seq(1..Len(log'))
      BY <2>2, <3>2, SeqMonotonic
    <3> QED
      BY <3>1, <3>2, <3>3 DEF ChannelFits
  <2> QED
    BY <1>2, <2>1, <2>3, <2>4 DEF EventInv
<1>3. ASSUME NEW i \in unsent, Broadcast(i), UNCHANGED log
      PROVE EventInv'
  <2>1. i \in 1..Len(log) /\ unsent' \subseteq unsent
    BY <1>3 DEF EventInv, Broadcast
  <2>2. \A s \in Clients : feed'[s] = Pushed(feed[s], i)
    BY <1>3 DEF Broadcast
  <2>3. \A s \in Clients : ChannelFits(Pushed(feed[s], i).channel)
    BY <1>0, <2>1, PushedChannel DEF EventInv
  <2> QED
    BY <1>3, <2>1, <2>2, <2>3 DEF EventInv, ChannelFits
<1>4. ASSUME NEW s \in Clients, ClientStep(s) PROVE EventInv'
  <2>1. /\ UNCHANGED <<log, unsent>>
        /\ \A c \in Clients : c # s => feed'[c] = feed[c]
        /\ \/ feed'[s].channel = feed[s].channel
           \/ feed'[s].channel = <<>>
           \/ feed[s].channel # <<>> /\ feed'[s].channel = Tail(feed[s].channel)
    BY <1>4, StreamChannel
  <2>2. feed[s].channel \in Seq(1..Len(log)) /\ Len(feed[s].channel) <= Capacity
        /\ Len(feed[s].channel) \in Nat /\ Capacity \in Nat
    BY EventsAssumption, LenProperties DEF EventInv, ChannelFits
  <2>3. feed[s].channel # <<>> => ChannelFits(Tail(feed[s].channel))
    <3> SUFFICES ASSUME feed[s].channel # <<>> PROVE ChannelFits(Tail(feed[s].channel))
      OBVIOUS
    <3>1. /\ Tail(feed[s].channel) \in Seq(1..Len(log))
          /\ Len(Tail(feed[s].channel)) = Len(feed[s].channel) - 1
      BY <2>2, HeadTailProperties
    <3> QED
      BY <2>2, <3>1 DEF ChannelFits
  <2>4. ChannelFits(<<>>)
    BY <2>2, EmptySeq DEF ChannelFits
  <2>5. \A c \in Clients : ChannelFits(feed'[c].channel)
    BY <2>1, <2>3, <2>4 DEF EventInv
  <2> QED
    BY <2>1, <2>5 DEF EventInv, ChannelFits
<1>5. ASSUME UNCHANGED <<log, unsent, feed>> PROVE EventInv'
  BY <1>5 DEF EventInv, ChannelFits
<1> QED
  BY <1>1, <1>2, <1>3, <1>4, <1>5 DEF EventMoves

\* Every step counts what fails and breaks within its bounds.
LEMMA CountInvStep == CountInv /\ [Next]_vars => CountInv'
<1> SUFFICES ASSUME CountInv, [Next]_vars PROVE CountInv'
  OBVIOUS
<1> USE EventsAssumption, TurnsAssumption DEF CountInv
<1>1. ASSUME NEW r \in Runs, Prepare(r) \/ Cancel(r) \/ Emit(r) PROVE CountInv'
  BY <1>1 DEF Prepare, Cancel, Emit, Quiet, eventVars, turnVars
<1>2. ASSUME NEW r \in Runs, RequestStep(r) \/ DropRequest(r) PROVE CountInv'
  BY <1>2 DEF RequestStep, PrepareQueue, Register, PublishStarted, OpenTurn, Launch, DropRequest,
              Fail, eventVars
<1>3. ASSUME NEW r \in Runs, TurnStep(r) PROVE CountInv'
  <2>1. CASE Report(r)
    BY <2>1 DEF Report, Fail
  <2>2. CASE Cancelled(r) \/ LoopTop(r) \/ CallTools(r) \/ Ask(r) \/ Resume(r) \/ Stop(r)
             \/ NextOrFinal(r) \/ CallFails(r) \/ Finish(r) \/ FinishSteer(r) \/ Clean(r)
    <3>1. UNCHANGED <<faults, breaks, moves>>
      BY <2>2 DEF Cancelled, LoopTop, CallTools, Ask, Resume, Stop, NextOrFinal, CallFails,
                  Finish, FinishSteer, Clean, Quiet, eventVars
    <3> QED
      BY <3>1
  <2> QED
    BY <1>3, <2>1, <2>2 DEF TurnStep
<1>4. ASSUME NEW r \in Runs, Forward(r) PROVE CountInv'
  BY <1>4 DEF Forward, Fail
<1>5. ASSUME NEW t \in Todos, UserStep(t) PROVE CountInv'
  BY <1>5 DEF UserStep, AddTodo, SteerTodo, UnsteerTodo, DeleteTodo, Move, eventVars
<1>6. ASSUME NEW s \in Clients, ClientStep(s), UNCHANGED turnVars PROVE CountInv'
  BY <1>6 DEF ClientStep, StreamStep, Connect, Subscribe, ListOpen, MatchOpen, StartStream, Deliver,
              Receive, Lagged, Replay, RefuseStream, Break, Fail, turnVars
<1>7. CASE UNCHANGED vars
  BY <1>7 DEF vars, eventVars, turnVars
<1> QED
  BY <1>1, <1>2, <1>3, <1>4, <1>5, <1>6, <1>7 DEF Next

---------------------------------------------------------------------------
(* The queue and the runs together.                                         *)

\* Every step keeps the queue.
LEMMA QueueInvStep ==
  ASSUME QueueInv, [Next]_vars
  PROVE QueueInv'
<1>1. ASSUME UNCHANGED <<queue, slot, fate>> PROVE QueueInv'
  BY <1>1 DEF QueueInv, QueueFits, FateInv, AtMostOne
<1>2. ASSUME NEW r \in Runs, Prepare(r) \/ FinishSteer(r) PROVE QueueInv'
  BY <1>2, ClearKeeps DEF Prepare, FinishSteer
<1>3. ASSUME NEW r \in Runs, PrepareQueue(r) \/ OpenTurn(r) \/ Finish(r) PROVE QueueInv'
  BY <1>3, QueueReplaced DEF PrepareQueue, OpenTurn, Finish
<1>4. ASSUME NEW r \in Runs, LoopTop(r) PROVE QueueInv'
  <2>1. slot' = {} /\ queue' = Without(slot) /\ Injects(slot)
    BY <1>4 DEF LoopTop, TakeSteer
  <2> QED
    BY <2>1, NextInputOne, TodoTaken
<1>5. ASSUME NEW r \in Runs, NextOrFinal(r) PROVE QueueInv'
  BY <1>5, TakeNextKeeps DEF NextOrFinal
<1>6. ASSUME NEW t \in Todos, UserStep(t) PROVE QueueInv'
  BY <1>6, UserKeeps
<1>7. ASSUME NEW r \in Runs,
             \/ Register(r) \/ PublishStarted(r) \/ Launch(r) \/ DropRequest(r) \/ Forward(r)
             \/ Emit(r) \/ Cancel(r)
      PROVE UNCHANGED <<queue, slot, fate>>
  BY <1>7 DEF Register, PublishStarted, Launch, DropRequest, Forward, Emit, Cancel, Quiet, turnVars
<1>8. ASSUME NEW r \in Runs,
             \/ Cancelled(r) \/ CallTools(r) \/ Ask(r) \/ Resume(r) \/ Stop(r) \/ CallFails(r)
             \/ Report(r) \/ Clean(r)
      PROVE UNCHANGED <<queue, slot, fate>>
  BY <1>8 DEF Cancelled, CallTools, Ask, Resume, Stop, CallFails, Report, Clean, Quiet
<1>9. ASSUME UNCHANGED turnVars \/ UNCHANGED vars PROVE UNCHANGED <<queue, slot, fate>>
  BY <1>9 DEF turnVars, vars
<1> QED
  BY <1>1, <1>2, <1>3, <1>4, <1>5, <1>6, <1>7, <1>8, <1>9 DEF Next, RequestStep, TurnStep

\* A run that will close the queue: one that has opened it and did not find it
\* empty.
Holds(p) == \/ run[p].at \in {"counting"} \cup Executing
            \/ run[p].at = "ending" /\ run[p].outcome # "complete"

Holder(p) == Holds(p) \/ run[p].at = "dropped"

\* As long as the queue takes or holds TODOs there is such a run, or one whose
\* request died.
QueueInUse == queue.accepting \/ queue.items # <<>>
HeldInv == QueueInUse => \E p \in Runs : Holder(p)

\* The other runs stay what they are.
LEMMA OthersStay ==
  ASSUME RunInv, NEW r \in Runs, RunMoves(r)
  PROVE \A p \in Runs : p # r => run'[p] = run[p]
BY DEF RunMoves, RunInv

\* A step by which no run stops to hold the queue, or which empties and closes it.
LEMMA HeldKept ==
  ASSUME HeldInv,
         \/ ~QueueInUse'
         \/ \E p \in Runs : Holder(p)'
         \/ (QueueInUse' => QueueInUse) /\ \A p \in Runs : Holder(p) => Holder(p)'
  PROVE HeldInv'
BY DEF HeldInv

\* The run that holds the queue lets go of it only when it closes it.
LEMMA HeldStep ==
  ASSUME RunInv, QueueInv, HeldInv, [Next]_vars
  PROVE HeldInv'
<1>0. run \in [Runs -> RunRec]
  BY DEF RunInv
<1>1. ASSUME NEW r \in Runs, NEW T, queue' = Without(T), AtMostOne(T)
      PROVE QueueInUse' => QueueInUse
  BY <1>1, WithoutFits DEF QueueInUse, QueueInv
<1>2. ASSUME NEW r \in Runs, PrepareQueue(r) \/ Finish(r) PROVE HeldInv'
  <2>1. queue' = NoQueue
    BY <1>2 DEF PrepareQueue, Finish, DropQueue
  <2>2. ~QueueInUse'
    BY <2>1 DEF QueueInUse, NoQueue
  <2> QED
    BY <2>2, HeldKept
<1>3. ASSUME NEW r \in Runs, OpenTurn(r) \/ Launch(r) \/ DropRequest(r) PROVE HeldInv'
  <2>1. run'[r].at \in {"counting", "top", "dropped"}
    BY <1>0, <1>3 DEF OpenTurn, Launch, DropRequest, Go, RunRec
  <2>2. Holder(r)'
    BY <2>1 DEF Holder, Holds, Executing
  <2> QED
    BY <2>2, HeldKept
<1>4. ASSUME NEW r \in Runs, Prepare(r) \/ Register(r) \/ PublishStarted(r) PROVE HeldInv'
  <2>1. ~Holder(r)
    BY <1>4 DEF Holder, Holds, Executing, Prepare, Register, PublishStarted
  <2>2. \A p \in Runs : p # r => run'[p] = run[p]
    BY <1>4, EveryRunMoves, OthersStay DEF RequestStep
  <2>3. \A p \in Runs : Holder(p) => Holder(p)'
    BY <2>1, <2>2 DEF Holder, Holds
  <2>4. QueueInUse' => QueueInUse
    BY <1>4, ClearKeeps DEF QueueInUse, Prepare, Register, PublishStarted
  <2> QED
    BY <2>3, <2>4, HeldKept
<1>5. ASSUME NEW r \in Runs, FinishSteer(r) \/ Report(r) \/ Clean(r) PROVE HeldInv'
  <2>1. ~Holder(r)
    BY <1>5 DEF Holder, Holds, Executing, FinishSteer, Report, Clean
  <2>2. \A p \in Runs : p # r => run'[p] = run[p]
    BY <1>5, EveryRunMoves, OthersStay DEF TurnStep
  <2>3. \A p \in Runs : Holder(p) => Holder(p)'
    BY <2>1, <2>2 DEF Holder, Holds
  <2>4. QueueInUse' => QueueInUse
    BY <1>5, ClearKeeps DEF QueueInUse, FinishSteer, Report, Clean
  <2> QED
    BY <2>3, <2>4, HeldKept
<1>6. ASSUME NEW r \in Runs,
             Cancelled(r) \/ LoopTop(r) \/ CallTools(r) \/ Ask(r) \/ Resume(r) \/ Stop(r) \/ CallFails(r)
      PROVE HeldInv'
  <2>1. run'[r].at \in Executing \/ (run'[r].at = "ending" /\ run'[r].outcome # "complete")
    <3>1. CASE Cancelled(r) \/ CallFails(r)
      BY <1>0, <3>1 DEF Cancelled, CallFails, End, RunRec
    <3>2. CASE LoopTop(r)
      BY <1>0, <3>2 DEF LoopTop, RunRec, Executing
    <3>3. CASE CallTools(r) \/ Ask(r) \/ Resume(r) \/ Stop(r)
      BY <1>0, <3>3 DEF CallTools, Ask, Resume, Stop, Go, RunRec, Executing
    <3> QED
      BY <1>6, <3>1, <3>2, <3>3
  <2>2. Holder(r)'
    BY <2>1 DEF Holder, Holds
  <2> QED
    BY <2>2, HeldKept
<1>7. ASSUME NEW r \in Runs, NextOrFinal(r) PROVE HeldInv'
  <2>1. CASE NextInput = {}
    <3>1. ~queue'.accepting /\ queue'.items = <<>>
      BY <1>7, <2>1, TakeNextKeeps DEF NextOrFinal
    <3>2. ~QueueInUse'
      BY <3>1 DEF QueueInUse
    <3> QED
      BY <3>2, HeldKept
  <2>2. CASE NextInput # {}
    <3>1. run'[r].at = "top"
      BY <1>0, <1>7, <2>2 DEF NextOrFinal, RunRec
    <3>2. Holder(r)'
      BY <3>1 DEF Holder, Holds, Executing
    <3> QED
      BY <3>2, HeldKept
  <2> QED
    BY <2>1, <2>2
<1>8. ASSUME NEW r \in Runs, Forward(r) \/ Cancel(r) PROVE HeldInv'
  <2>1. run'[r].at = run[r].at /\ run'[r].outcome = run[r].outcome /\ queue' = queue
    BY <1>0, <1>8 DEF Forward, Cancel, Quiet, RunRec
  <2>2. \A p \in Runs : p # r => run'[p] = run[p]
    BY <1>8, EveryRunMoves, OthersStay
  <2>3. \A p \in Runs : Holder(p) => Holder(p)'
    BY <2>1, <2>2 DEF Holder, Holds
  <2> QED
    BY <2>1, <2>3, HeldKept DEF QueueInUse
<1>9. ASSUME UNCHANGED <<run, queue>> PROVE HeldInv'
  BY <1>9 DEF HeldInv, QueueInUse, Holder, Holds
<1>10. ASSUME NEW r \in Runs, Emit(r) PROVE UNCHANGED <<run, queue>>
  BY <1>10 DEF Emit, turnVars
<1>11. ASSUME NEW t \in Todos, UserStep(t) PROVE HeldInv'
  <2>1. run' = run
    BY <1>11 DEF UserStep, AddTodo, SteerTodo, UnsteerTodo, DeleteTodo, Move
  <2>2. QueueInUse' => QueueInUse
    BY <1>11, UserKeeps DEF QueueInUse
  <2>3. \A p \in Runs : Holder(p) => Holder(p)'
    BY <2>1 DEF Holder, Holds
  <2> QED
    BY <2>2, <2>3, HeldKept
<1>12. ASSUME UNCHANGED turnVars \/ UNCHANGED vars PROVE UNCHANGED <<run, queue>>
  BY <1>12 DEF turnVars, vars
<1> QED
  BY <1>2, <1>3, <1>4, <1>5, <1>6, <1>7, <1>8, <1>9, <1>10, <1>11, <1>12
  DEF Next, RequestStep, TurnStep

TurnInv == FeedTypes /\ RunInv /\ EventInv /\ CountInv /\ QueueInv /\ HeldInv

\* Before the first request there is neither a run nor a queue.
LEMMA TurnInvInit == Init => TurnInv
<1> SUFFICES ASSUME Init PROVE TurnInv
  OBVIOUS
<1>1. RunInv
  <2>1. PICK x : x = [at |-> "idle", token |-> "none", outcome |-> "none", steps |-> 0, notes |-> <<>>]
    OBVIOUS
  <2>2. x \in RunRec /\ x.steps = 0
    BY <2>1, TurnsAssumption DEF RunRec, RunStages
  <2>3. RunFits(x)
    BY <2>2, TurnsAssumption DEF RunFits
  <2>4. run = [r \in Runs |-> x]
    BY <2>1 DEF Init
  <2> QED
    BY <2>2, <2>3, <2>4 DEF RunInv
<1>2. EventInv
  <2>1. log = <<>> /\ unsent = {} /\ \A s \in Clients : feed[s].channel = <<>>
    BY DEF Init, EventsInit, NoFeed
  <2>2. ChannelFits(<<>>)
    BY EventsAssumption, EmptySeq DEF ChannelFits
  <2>3. log \in Seq([kind : Kinds, run : Runs])
    BY <2>1, EmptySeq
  <2> QED
    BY <2>1, <2>2, <2>3 DEF EventInv
<1>3. CountInv
  BY EventsAssumption, TurnsAssumption DEF Init, EventsInit, CountInv
<1>4. QueueInv /\ HeldInv
  <2>1. queue = NoQueue /\ slot = {} /\ fate = [t \in Todos |-> "new"]
    BY DEF Init
  <2>2. NoQueue \in QueueRec /\ NoQueue.items = <<>> /\ NoQueue.steering = {} /\ ~NoQueue.accepting
    BY NothingListed DEF NoQueue, QueueRec
  <2>3. QueueFits(queue)
    BY <2>1, <2>2, NothingListed DEF QueueFits
  <2>4. FateInv(queue, slot, fate)
    BY <2>1, <2>2, NothingListed DEF FateInv, Fates
  <2> QED
    BY <2>1, <2>2, <2>3, <2>4 DEF QueueInv, AtMostOne, HeldInv, QueueInUse
<1> QED
  BY <1>1, <1>2, <1>3, <1>4, FeedTypesInit DEF TurnInv

\* The parts hold together.
LEMMA TurnInvariant == Spec => []TurnInv
<1>1. TurnInv /\ [Next]_vars => TurnInv'
  BY FeedTypesStep, RunInvStep, EventInvStep, CountInvStep, QueueInvStep, HeldStep DEF TurnInv
<1> QED
  BY TurnInvInit, <1>1, PTL DEF Spec

\* The list of the queue has as many members as places.
LEMMA ItemsCounted ==
  ASSUME QueueInv
  PROVE Cardinality(Items) = Len(queue.items)
<1>1. PICK s : s = queue.items
  OBVIOUS
<1>2. s \in Seq(Todos) /\ Distinct(s) /\ Len(s) \in Nat /\ DOMAIN s = 1..Len(s)
      /\ s \in [1..Len(s) -> Todos]
  BY <1>1, LenProperties DEF QueueInv, QueueFits, QueueRec
<1>3. PICK n \in Nat : n = Len(s)
  BY <1>2
<1>4. s \in [1..n -> ListOf(s)]
  BY <1>2, <1>3 DEF ListOf
<1>5. IsInjective(s)
  BY <1>2 DEF Distinct, IsInjective
<1>6. \A t \in ListOf(s) : \E i \in 1..n : s[i] = t
  BY <1>2, <1>3 DEF ListOf
<1>7. s \in Bijection(1..n, ListOf(s))
  BY <1>4, <1>5, <1>6 DEF Bijection, Injection, Surjection
<1>8. ExistsBijection(1..n, ListOf(s))
  BY <1>7 DEF ExistsBijection
<1>9. Cardinality(ListOf(s)) = n
  BY <1>8, FS_CountingElements
<1> QED
  BY <1>1, <1>3, <1>9, ItemsAreListed

(* TypeOK: the rows, the streams, the runs, the queue and its slot have     *)
(* their types; what is steered is an item of the queue, and no TODO is in  *)
(* it twice.                                                                *)
THEOREM TypeCorrect == Spec => []TypeOK
<1>1. TurnInv => TypeOK
  <2> SUFFICES ASSUME TurnInv PROVE TypeOK
    OBVIOUS
  <2> USE DEF TurnInv
  <2>1. EventsTypeOK
    <3>1. Len(log) \in Nat /\ DOMAIN log = 1..Len(log)
      BY LenProperties DEF EventInv
    <3>2. open \subseteq Runs /\ log \in Seq([kind : Kinds, run : Runs]) /\ unsent \subseteq 1..Len(log)
      BY DEF FeedTypes, EventInv
    <3>3. ASSUME NEW s \in Clients
          PROVE /\ feed[s].stage \in Stages
                /\ feed[s].cursor \in 0..Len(log) /\ feed[s].upTo \in 0..Len(log)
                /\ feed[s].begun \in BOOLEAN /\ feed[s].lagged \in BOOLEAN
                /\ feed[s].asks \subseteq Runs /\ feed[s].shown \subseteq Runs
                /\ feed[s].channel \in Seq(DOMAIN log) /\ Len(feed[s].channel) <= Capacity
      <4>1. feed[s] \in FeedRec /\ feed[s].cursor <= feed[s].upTo /\ feed[s].upTo <= Len(log)
        BY DEF FeedTypes
      <4>2. /\ feed[s].stage \in Stages /\ feed[s].cursor \in Nat /\ feed[s].upTo \in Nat
            /\ feed[s].begun \in BOOLEAN /\ feed[s].lagged \in BOOLEAN
            /\ feed[s].asks \subseteq Runs /\ feed[s].shown \subseteq Runs
        BY <4>1 DEF FeedRec
      <4>3. feed[s].channel \in Seq(DOMAIN log) /\ Len(feed[s].channel) <= Capacity
        BY <3>1 DEF EventInv, ChannelFits
      <4> QED
        BY <3>1, <4>1, <4>2, <4>3
    <3> QED
      BY <3>2, <3>3 DEF EventsTypeOK, CountInv
  <2>2. ASSUME NEW r \in Runs
        PROVE /\ run[r].at \in {"idle"} \cup Preparing \cup Executing \cup Ending \cup Over
              /\ run[r].token \in {"none", "held", "cancelled"}
              /\ run[r].outcome \in {"none", "complete", "error", "panic"}
              /\ run[r].steps \in 0..MaxSteps + 1
              /\ run[r].notes \in Seq({"ask", "note"})
    BY DEF RunInv, RunRec, RunStages
  <2>3. queue.items \in Seq(Todos) /\ queue.steering \subseteq Items
    BY ItemsAreListed DEF QueueInv, QueueFits, QueueRec
  <2>4. slot \subseteq Todos /\ Cardinality(slot) <= 1
    <3>1. CASE slot = {}
      BY <3>1, FS_EmptySet
    <3>2. CASE \E t \in Todos : slot = {t}
      <4>1. PICK t \in Todos : slot = {t}
        BY <3>2
      <4>2. Cardinality({t}) = 1
        BY FS_Singleton
      <4> QED
        BY <4>1, <4>2
    <3> QED
      BY <3>1, <3>2 DEF QueueInv, AtMostOne
  <2>5. fate \in [Todos -> {"new", "queued", "injected", "deleted", "discarded"}] /\ moves \in 0..MaxMoves
    BY DEF QueueInv, FateInv, Fates, CountInv
  <2> QED
    BY <2>1, <2>2, <2>3, <2>4, <2>5, ItemsCounted DEF TypeOK
<1> QED
  BY <1>1, TurnInvariant, PTL

\* A TODO is discarded when a run replaces or clears the queue.
LEMMA Discards ==
  ASSUME QueueInv, [Next]_vars, NEW t \in Todos, fate[t] = "queued", fate'[t] = "discarded"
  PROVE \E r \in Runs : PrepareQueue(r) \/ OpenTurn(r) \/ Finish(r)
<1>0. fate \in [Todos -> Fates]
  BY DEF QueueInv, FateInv
<1>1. fate'[t] # fate[t] /\ ~Injects(slot) /\ ~Injects(NextInput) /\ fate' # fate
  BY DEF Injects
<1>2. \A r \in Runs : ~(Prepare(r) \/ FinishSteer(r) \/ LoopTop(r) \/ NextOrFinal(r))
  BY <1>1 DEF Prepare, FinishSteer, ClearSteer, LoopTop, TakeSteer, NextOrFinal, TakeNextOrClose
<1>3. \A r \in Runs : ~(\/ Register(r) \/ PublishStarted(r) \/ Launch(r) \/ DropRequest(r)
                        \/ Forward(r) \/ Emit(r) \/ Cancel(r))
  BY <1>1 DEF Register, PublishStarted, Launch, DropRequest, Forward, Emit, Cancel, Quiet, turnVars
<1>4. \A r \in Runs : ~(\/ Cancelled(r) \/ CallTools(r) \/ Ask(r) \/ Resume(r) \/ Stop(r)
                        \/ CallFails(r) \/ Report(r) \/ Clean(r))
  BY <1>1 DEF Cancelled, CallTools, Ask, Resume, Stop, CallFails, Report, Clean, Quiet
<1>5. \A u \in Todos : ~(AddTodo(u) \/ SteerTodo(u) \/ UnsteerTodo(u) \/ DeleteTodo(u))
  BY <1>0, <1>1 DEF AddTodo, SteerTodo, UnsteerTodo, DeleteTodo
<1>6. ~UNCHANGED turnVars /\ ~UNCHANGED vars
  BY <1>1 DEF turnVars, vars
<1> QED
  BY <1>2, <1>3, <1>4, <1>5, <1>6 DEF Next, RequestStep, TurnStep, UserStep

\* What was discarded had a run to answer it, which was another one or failed,
\* or whose request died.
LEMMA TodosStep ==
  ASSUME RunInv, QueueInv, HeldInv, [Next]_vars,
         NEW t \in Todos, fate[t] = "queued", fate'[t] = "discarded"
  PROVE \/ \E r \in Runs : run[r].at = "ending" /\ run[r].outcome # "complete"
        \/ \E r \in Runs : run[r].at = "dropped"
        \/ \E r, q \in Runs : r # q /\ Present(r) /\ Present(q)
<1>1. PICK r \in Runs : PrepareQueue(r) \/ OpenTurn(r) \/ Finish(r)
  BY Discards
<1>2. Present(r) /\ run[r].at \in {"cleared", "opening", "ending"}
  BY <1>1 DEF PrepareQueue, OpenTurn, Finish, Present, Preparing
<1>3. QueueInUse
  BY NothingListed DEF QueueInv, FateInv, QueueInUse
<1>4. PICK p \in Runs : Holder(p)
  BY <1>3 DEF HeldInv
<1>5. CASE run[p].at = "dropped"
  BY <1>5
<1>6. CASE Holds(p)
  <2>1. Present(p)
    BY <1>6 DEF Holds, Present, Preparing
  <2>2. CASE p = r
    BY <1>2, <1>6, <2>2 DEF Holds, Executing
  <2> QED
    BY <1>2, <2>1, <2>2
<1> QED
  BY <1>4, <1>5, <1>6 DEF Holder

(* TodosKept: a TODO that was queued leaves the queue by being injected or  *)
(* deleted, unless a run failed, overlapped or lost its request; one that   *)
(* was injected is nowhere any more.                                        *)
THEOREM TodosKeptCorrect == Spec => TodosKept
<1>1. TurnInv => \A t \in Todos : fate[t] = "injected" => t \notin Items \cup slot
  BY ItemsAreListed DEF TurnInv, QueueInv, FateInv
<1>2. TurnInv /\ [Next]_vars
        => [\A t \in Todos :
              fate[t] = "queued" /\ fate'[t] = "discarded"
              => \/ \E r \in Runs : run[r].at = "ending" /\ run[r].outcome # "complete"
                 \/ \E r \in Runs : run[r].at = "dropped"
                 \/ \E r, q \in Runs : r # q /\ Present(r) /\ Present(q)]_vars
  BY TodosStep DEF TurnInv
<1> QED
  BY TurnInvariant, <1>1, <1>2, PTL DEF Spec, TodosKept

=============================================================================
