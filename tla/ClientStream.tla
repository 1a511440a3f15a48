---------------------------- MODULE ClientStream ----------------------------
(* What one client of /stream may rely on: while it is on the list it gets  *)
(* every call of BroadcastMessage, once.  A call that ends before the       *)
(* client is on the list, or after it has gone, it does not get; one        *)
(* message may be broadcast by several calls.  ApiStream implements this    *)
(* for each of its connections, and the display is a client of it.          *)
EXTENDS Sequences, SequencesExt

CONSTANT Call     \* the calls of BroadcastMessage

VARIABLES
  begun,       \* calls made so far
  casting,     \* those that have not ended
  line,        \* the connection: "none", "dialled", "up" (on the list), "gone"
  got          \* what reached its socket

vars == <<begun, casting, line, got>>

Init ==
  /\ begun = {} /\ casting = {}
  /\ line = "none" /\ got = <<>>

Begin(b) ==
  /\ b \in Call \ begun
  /\ begun' = begun \cup {b}
  /\ casting' = casting \cup {b}
  /\ UNCHANGED <<line, got>>

Bring(b) ==
  /\ b \in casting \ ToSet(got)
  /\ line = "up"
  /\ got' = Append(got, b)
  /\ UNCHANGED <<begun, casting, line>>

End(b) ==
  /\ b \in casting
  /\ line = "up" => b \in ToSet(got)
  /\ casting' = casting \ {b}
  /\ UNCHANGED <<begun, line, got>>

Moves(from, to) ==
  /\ line \in from
  /\ line' = to
  /\ UNCHANGED <<begun, casting, got>>

Dial   == Moves({"none"}, "dialled")
Listed == Moves({"dialled"}, "up")
Lost   == Moves({"dialled", "up"}, "gone")

Next == (\E b \in Call : Begin(b) \/ Bring(b) \/ End(b)) \/ Dial \/ Listed \/ Lost

Spec == Init /\ [][Next]_vars
=============================================================================
