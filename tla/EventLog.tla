------------------------------ MODULE EventLog ------------------------------
(***************************************************************************)
(* What a client of the event stream is promised: it joins the log at its  *)
(* end and from then on reads every event once, in order.  A client that   *)
(* has read something keeps its place, whatever happens to its connection; *)
(* one that has read nothing yet may start again.                          *)
(***************************************************************************)
EXTENDS Naturals

CONSTANT Readers

VARIABLES
  length,  \* the number of events published
  place    \* what each reader has behind it: [in, at, begun]

vars == <<length, place>>

Init ==
  /\ length = 0
  /\ place = [s \in Readers |-> [in |-> FALSE, at |-> 0, begun |-> FALSE]]

Publish ==
  /\ length' = length + 1
  /\ UNCHANGED place

Join(s) ==
  /\ ~place[s].in
  /\ place' = [place EXCEPT ![s] = [in |-> TRUE, at |-> length, begun |-> FALSE]]
  /\ UNCHANGED length

Read(s) ==
  /\ place[s].in
  /\ place[s].at < length
  /\ place' = [place EXCEPT ![s] = [in |-> TRUE, at |-> @.at + 1, begun |-> TRUE]]
  /\ UNCHANGED length

Leave(s) ==
  /\ ~place[s].begun
  /\ place' = [place EXCEPT ![s] = [in |-> FALSE, at |-> 0, begun |-> FALSE]]
  /\ UNCHANGED length

Next == Publish \/ \E s \in Readers : Join(s) \/ Read(s) \/ Leave(s)

Spec == Init /\ [][Next]_vars
=============================================================================
