---------------------------- MODULE FrameChannel ----------------------------
(* What the link to the TNC promises to the daemon, with nothing said of    *)
(* bytes: frames arrive whole, in the order in which they were sent and at  *)
(* most once.  When the connection goes, the last ones under way go with it.*)
EXTENDS Sequences, Naturals

CONSTANT Frame   \* the frames worth handing on

VARIABLES queue, \* frames under way
          got    \* frames handed to OnFrame, in order

Init == queue = <<>> /\ got = <<>>

Send == \E f \in Frame : queue' = Append(queue, f) /\ UNCHANGED got

\* One read may complete several frames.
Deliver == \E k \in 1 .. Len(queue) :
  /\ got' = got \o SubSeq(queue, 1, k)
  /\ queue' = SubSeq(queue, k + 1, Len(queue))

Lose == \E k \in 0 .. Len(queue) : queue' = SubSeq(queue, 1, k) /\ UNCHANGED got

Next == Send \/ Deliver \/ Lose

Spec == Init /\ [][Next]_<<queue, got>>
=============================================================================
