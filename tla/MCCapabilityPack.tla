------------------------- MODULE MCCapabilityPack -------------------------
(* Instances of CapabilityPack for TLC: two packs that share a resource.   *)
EXTENDS CapabilityPack, TLC

CONSTANTS p1, p2, w1, w2, hook, skill, mine, a1, a2, b1, c1

TwoPacks == {p1, p2}
OnePack == {p1}
BothResources == {hook, skill}
HookThenSkill == (hook :> 1) @@ (skill :> 2)
Shared == (p1 :> {hook, skill}) @@ (p2 :> {skill})
Hooks == {hook}
OneWorkspace == {w1}
TwoWorkspaces == {w1, w2}
Untouched == (hook :> NoContent) @@ (skill :> mine)

(* The second version of p1 changes one resource only; p2 has one version. *)
Payloads == (p1 :> (1 :> (hook :> a1 @@ skill :> b1) @@ 2 :> (hook :> a2 @@ skill :> b1)))
         @@ (p2 :> (1 :> (hook :> NoContent @@ skill :> c1)))
=============================================================================
