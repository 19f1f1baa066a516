-------------------------- MODULE MCArtifactRepository --------------------------
(* A module that is static in one build of the host and embedded as b1 or b2  *)
(* in others, and a user who installs either or another version of it.        *)
EXTENDS ArtifactRepository, TLC

CONSTANTS b1, b2, upgrade, mod, r1, r2

MCModuleOf == [a \in Archive |-> mod]
MCVersionOf == (b1 :> 1) @@ (b2 :> 1) @@ (upgrade :> 2)
MCBuild == {[static |-> {mod}, archives |-> {}], [static |-> {}, archives |-> {b1}],
            [static |-> {}, archives |-> {b2}]}
=============================================================================
