--------------------------- MODULE MCMessageStore ---------------------------
(* Two requests at a time and the receive goroutine; two posts and a        *)
(* message of another node, all for one channel, whose name requests may    *)
(* also write in capitals.                                                  *)
EXTENDS MessageStore, TLC

CONSTANTS me, other, h1, h2, p1, p2, f1, user, lower, upper

Senders   == p1 :> me @@ p2 :> me @@ f1 :> other
Places    == p1 :> lower @@ p2 :> lower @@ f1 :> lower
Authors   == p1 :> user @@ p2 :> NoUser
LowerCase == lower :> lower @@ upper :> lower
=============================================================================
