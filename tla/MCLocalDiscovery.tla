-------------------------- MODULE MCLocalDiscovery --------------------------
(***************************************************************************)
(* A directory d with a file x, and two files y and z next to it; y may be *)
(* renamed to z.                                                           *)
(***************************************************************************)
EXTENDS LocalDiscovery

CONSTANTS d, x, y, z

FourPaths  == {d, x, y, z}
ThreePaths == {d, x, y}
TwoPaths   == {d, x}
Tree(paths) == [p \in paths |-> IF p = x THEN {d} ELSE {}]
FourAbove  == Tree(FourPaths)
ThreeAbove == Tree(ThreePaths)
TwoAbove   == Tree(TwoPaths)
Moves  == {<<y, z>>}
None   == {}
Bursts == {"burst"}
Drops  == {"drop"}
Losses == {"loss"}
All    == TroubleKinds
=============================================================================
