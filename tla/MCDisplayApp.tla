---------------------------- MODULE MCDisplayApp ----------------------------
(* Two messages of channel "a", one more than GetMessages answers here;     *)
(* they may come while the user looks at "b", and are alike.  Received in   *)
(* the same second, they are answered in any order.                         *)
EXTENDS DisplayApp, TLC

CONSTANTS m1, m2

Channels == m1 :> "a" @@ m2 :> "a"
Alike == Permutations({m1, m2})
=============================================================================
