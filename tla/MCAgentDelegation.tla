------------------------- MODULE MCAgentDelegation -------------------------
(* Instances of AgentDelegation: a turn with two children, one of which may *)
(* delegate in turn; and a chain of delegations.                            *)
EXTENDS AgentDelegation

CONSTANTS turn, left, right, leaf, p1, p2

AllRuns     == {turn, left, right, leaf}
FamilyOfTwo == (turn :> <<left, right>>) @@ (left :> <<leaf>>) @@ [r \in {right, leaf} |-> <<>>]
Chain       == (turn :> <<left>>) @@ (left :> <<leaf>>) @@ (leaf :> <<>>)
ChainRuns   == {turn, left, leaf}

TwoProviders  == {p1, p2}
OneProvider   == {p1}
OnePermitEach == [p \in {p1, p2} |-> 1]
OnePermit     == (p1 :> 1)

Either == [serves |-> {p1, p2}, pinned |-> FALSE]
Only1  == [serves |-> {p1}, pinned |-> FALSE]
Only2  == [serves |-> {p2}, pinned |-> FALSE]
Pinned == [serves |-> {p1}, pinned |-> TRUE]

(* A turn with a pinned provider, a child with a fallback route.            *)
MixedRoutes == (turn :> <<Pinned>>) @@ (left :> <<Only1, Only2>>)
                   @@ [r \in {right, leaf} |-> <<Either>>]
OneRoute    == [r \in {turn, left, leaf} |-> <<Pinned>>]

Iterations      == [r \in AllRuns |-> IF r \in {turn, left} THEN 2 ELSE 1]
ChainIterations == [r \in ChainRuns |-> 2]
=============================================================================
