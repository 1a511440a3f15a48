----------------------------- MODULE Microblog -----------------------------
(* What the message store of an RFMP network promises to its users, with    *)
(* nothing said about frames, clocks, caches or crashes: every node keeps a *)
(* growing set of messages; a node posts under its own callsign with the    *)
(* next sequence number, and every other entry of a log is a copy of a      *)
(* message that its origin has posted.                                      *)
EXTENDS Naturals

CONSTANTS Node,     \* the callsigns
          MsgId,    \* message ids
          MaxSeq    \* bound on the posts of one node

VARIABLE log        \* log[n]: the messages node n holds

\* The sequence numbers of origin o that appear in a set of messages.
SeqsOf(msgs, o) == {m.seq : m \in {x \in msgs : x.from = o}}

Init == log = [n \in Node |-> {}]

\* A post takes the number right after the ones the node has used: 1..k.
Post(n) == \E id \in MsgId, k \in 0..(MaxSeq - 1) :
  /\ SeqsOf(log[n], n) = 1..k
  /\ log' = [log EXCEPT ![n] = @ \cup {[id |-> id, from |-> n, seq |-> k + 1]}]

\* A node learns a message of another node only if that node posted it.
Learn(n, o) == \E m \in log[o] :
  /\ m.from = o
  /\ log' = [log EXCEPT ![n] = @ \cup {m}]

Next == \E n \in Node : Post(n) \/ \E o \in Node : Learn(n, o)

Spec == Init /\ [][Next]_log
=============================================================================
