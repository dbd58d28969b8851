---------------------------- MODULE PackVersions ----------------------------
(***************************************************************************)
(* What the installation of capability packs promises: each pack has a     *)
(* history of installed versions, an installation adds a newer version on  *)
(* top of it, and a rollback takes the newest one away.  Nothing else      *)
(* changes the history, crashes and failed steps included.                 *)
(***************************************************************************)
EXTENDS Naturals, Sequences, SequencesExt

CONSTANTS
    Packs,          \* capability packs
    Versions,       \* their versions, naturals in the order of semver
    ResourcesOf     \* the resources each pack declares

VARIABLE history    \* history[p]: the installed versions of p, the current one last

NewerThan(v, seq) == seq = << >> \/ v > Last(seq)

(* No other installed pack owns a resource of p. *)
Free(p) == \A q \in Packs \ {p} :
              history[q] = << >> \/ ResourcesOf[p] \cap ResourcesOf[q] = {}

Init == history = [p \in Packs |-> << >>]

Install(p, v) ==
    /\ Free(p)
    /\ NewerThan(v, history[p])
    /\ history' = [history EXCEPT ![p] = Append(@, v)]

Rollback(p) ==
    /\ history[p] # << >>
    /\ history' = [history EXCEPT ![p] = Front(@)]

Next == history' # history /\ \E p \in Packs : Rollback(p) \/ \E v \in Versions : Install(p, v)

Spec == Init /\ [][Next]_history
=============================================================================
