----------------------------- MODULE ApiClient -----------------------------
(* ApiStream as one of its connections sees it.                             *)
EXTENDS ApiStream

CONSTANT client     \* any connection

ASSUME ClientAssumption == client \in Conn

Line == IF peer[client] = "gone" THEN "gone"
        ELSE IF client \in ToSet(wsClients) THEN "up"
        ELSE IF stream[client] = "new" THEN "none" ELSE "dialled"

Casting == {caster[g].call : g \in {x \in Caster : caster[x] # Idle}}

Client == INSTANCE ClientStream WITH
            begun <- begun,
            casting <- Casting,
            line <- Line,
            got <- written[client]

(* A connection gets what ClientStream promises: once on the list and       *)
(* alive, the message of every call of BroadcastMessage exactly once, and   *)
(* it is never taken off the list with those whose write failed (removal by *)
(* index, while handlers add and remove themselves).                        *)
ImplementsClientStream == Client!Spec
=============================================================================
