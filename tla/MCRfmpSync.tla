----------------------------- MODULE MCRfmpSync -----------------------------
(* Small instances of RfmpSync: two nodes that hear each other, and three   *)
(* on a line whose ends do not hear each other.                             *)
EXTENDS RfmpSync, TLC

CONSTANTS n1, n2, n3, a1, a2

OnePosts == n1 :> {a1, a2} @@ n2 :> {}
OnePost  == n1 :> {a1} @@ n2 :> {}
Pair     == n1 :> {n2} @@ n2 :> {n1}

OneEndPosts == n1 :> {a1} @@ n2 :> {} @@ n3 :> {}
Line        == n1 :> {n2} @@ n2 :> {n1, n3} @@ n3 :> {n2}

AllFaults     == {"crash", "saveError", "expire"}
BothFail      == n1 :> AllFaults @@ n2 :> AllFaults
PosterCrashes == n1 :> {"crash"} @@ n2 :> {}
RelayCrashes  == n1 :> {} @@ n2 :> {"crash"} @@ n3 :> {}
=============================================================================
