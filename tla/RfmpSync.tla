------------------------------ MODULE RfmpSync ------------------------------
(* A network of rfmpd daemons: internal/daemon/daemon.go over the tables    *)
(* messages, seen_cache and transmission_queue of internal/storage.         *)
(*                                                                          *)
(* One action is one step between two points where another goroutine, a     *)
(* frame or a crash can intervene.  A daemon has one receive goroutine      *)
(* (rx), any number of HTTP handlers inside Daemon.SendMessage (sending),   *)
(* and the sync, cleanup and transmission loops.                            *)
(*                                                                          *)
(* Abstractions.  A message is its id, origin and sequence number.  A       *)
(* fragmented message is one unit (FragmentReassembly models the pieces).   *)
(* msgq[n] and svecq[n] stand for the rows of n's transmission_queue        *)
(* together with the frame on the air and in the receivers' TCP buffers: a  *)
(* frame stays there while it can still be heard, any hearer may hear it    *)
(* any number of times (retries, a crash before MarkTransmitted), and it    *)
(* may go unheard (loss).  Order and delays of frames are arbitrary.        *)
EXTENDS Naturals, FiniteSets

CONSTANTS
  Node,         \* full callsigns
  MsgId,        \* message ids
  IdsOf,        \* IdsOf[n]: the ids that posts at n hash to
  Hears,        \* Hears[n]: the nodes whose transmissions reach n
  MaxSeq,       \* bound on the posts of one node
  MaxSvec,      \* bound on the SVEC frames of one node under way at once
  Faults        \* what happens to each node: "crash", "expire", "saveError"

ASSUME SyncAssumption ==
  /\ IdsOf \in [Node -> SUBSET MsgId]
  /\ Hears \in [Node -> SUBSET Node]
  /\ MaxSeq \in Nat /\ MaxSvec \in Nat
  /\ Faults \in [Node -> SUBSET {"crash", "expire", "saveError"}]

\* GenerateMessageID hashes the sender into the id; when authors are not
\* shared between nodes, no two nodes make the same id.
DisjointIds == \A n, o \in Node : n # o => IdsOf[n] \cap IdsOf[o] = {}

VARIABLES
  store,    \* store[n]: table messages (durable)
  seen,     \* seen[n]: ids in table seen_cache (dropped by migrate at startup)
  msgq,     \* msgq[n]: messages with a MSG/FRAG frame queued or on the air
  svecq,    \* svecq[n]: SVEC frames queued or on the air
  rx,       \* rx[n]: where the receive goroutine is
  sending   \* sending[n]: posts between SaveMessageWithSeq and MarkSeen

vars == <<store, seen, msgq, svecq, rx, sending>>

Seq     == 1..MaxSeq
Message == [id : MsgId, from : Node, seq : Seq]
Svec    == [from : Node, vec : [Node -> 0..MaxSeq]]

Idle      == [pc |-> "idle"]
RxState   == {Idle} \cup [pc : {"save", "forward"}, msg : Message]
                    \cup [pc : {"svec"}, svec : Svec, todo : SUBSET Node]
SendState == [pc : {"queue", "seen"}, msg : Message]

TypeOK ==
  /\ store \in [Node -> SUBSET Message]
  /\ seen \in [Node -> SUBSET MsgId]
  /\ msgq \in [Node -> SUBSET Message]
  /\ svecq \in [Node -> SUBSET Svec]
  /\ rx \in [Node -> RxState]
  /\ sending \in [Node -> SUBSET SendState]

-----------------------------------------------------------------------------
(* The queries.                                                             *)

\* Two messages that the messages table cannot both hold: its primary key is
\* id and (from_node, seq) has a unique index.
Conflict(m, x) == m.id = x.id \/ (m.from = x.from /\ m.seq = x.seq)

SeqsOf(n, o) == {m.seq : m \in {x \in store[n] : x.from = o}}

\* Mutant: numbers start at 2.
NextSeqFrom2(n) == CHOOSE k \in 2..(MaxSeq + 1) :
  /\ \A s \in SeqsOf(n, n) : s < k
  /\ k = 2 \/ k - 1 \in SeqsOf(n, n)

\* COALESCE(MAX(seq), 0) + 1 over the node's own messages.
NextSeq(n) == CHOOSE k \in 1..(MaxSeq + 1) :
  /\ \A s \in SeqsOf(n, n) : s < k
  /\ k = 1 \/ k - 1 \in SeqsOf(n, n)

\* Mutant: the clock is the largest number, gaps or not.
HighestSeq(S) == CHOOSE k \in S \cup {0} : \A s \in S : s <= k

\* The largest k such that 1..k are all there; 0 stands for an absent key.
HighestContiguous(S) == CHOOSE k \in 0..MaxSeq : 1..k \subseteq S /\ k + 1 \notin S

VectorClock(n) == [o \in Node |-> HighestContiguous(SeqsOf(n, o))]

\* Mutants: the last known message is pushed again; only own messages are.
MessagesFromSeq(n, o, s) == {m \in store[n] : m.from = o /\ m.seq >= s}
OwnMessagesAfterSeq(n, o, s) == {m \in store[n] : o = n /\ m.from = o /\ m.seq > s}

MessagesAfterSeq(n, o, s) == {m \in store[n] : m.from = o /\ m.seq > s}

\* Mutant: origins unknown to the sender of the SVEC are left out.
NodesInVector(n, svec) == {o \in Node : svec.vec[o] > 0} \ {svec.from}

\* The origins handleSVEC looks at: keys of either clock, without the sender.
NodesToCheck(n, svec) ==
  {o \in Node : svec.vec[o] > 0 \/ VectorClock(n)[o] > 0} \ {svec.from}

-----------------------------------------------------------------------------
Init ==
  /\ store   = [n \in Node |-> {}]
  /\ seen    = [n \in Node |-> {}]
  /\ msgq    = [n \in Node |-> {}]
  /\ svecq   = [n \in Node |-> {}]
  /\ rx      = [n \in Node |-> Idle]
  /\ sending = [n \in Node |-> {}]

\* Mutants: a failed INSERT is ignored; INSERT OR REPLACE of a posted id.
SendUnsaved(n, id) ==
  LET m == [id |-> id, from |-> n, seq |-> NextSeq(n)] IN
  /\ id \in IdsOf[n]
  /\ NextSeq(n) <= MaxSeq
  /\ sending' = [sending EXCEPT ![n] = @ \cup {[pc |-> "queue", msg |-> m]}]
  /\ UNCHANGED <<store, seen, msgq, svecq, rx>>
SendReplacing(n, id) ==
  LET m == [id |-> id, from |-> n, seq |-> NextSeq(n)] IN
  /\ id \in IdsOf[n]
  /\ NextSeq(n) <= MaxSeq
  /\ store' = [store EXCEPT ![n] = {x \in @ : x.id # id} \cup {m}]
  /\ sending' = [sending EXCEPT ![n] = @ \cup {[pc |-> "queue", msg |-> m]}]
  /\ UNCHANGED <<seen, msgq, svecq, rx>>

(* Daemon.SendMessage, run by an HTTP handler: the row and its number are   *)
(* made in one transaction; an id that is already stored makes the INSERT   *)
(* fail and the request ends without a change.                              *)
SendMessage(n, id) ==
  LET m == [id |-> id, from |-> n, seq |-> NextSeq(n)] IN
  /\ id \in IdsOf[n]
  /\ \A x \in store[n] : x.id # id
  /\ NextSeq(n) <= MaxSeq
  /\ store' = [store EXCEPT ![n] = @ \cup {m}]
  /\ sending' = [sending EXCEPT ![n] = @ \cup {[pc |-> "queue", msg |-> m]}]
  /\ UNCHANGED <<seen, msgq, svecq, rx>>

\* ... then the frame is queued,
SendQueue(n) == \E s \in sending[n] :
  /\ s.pc = "queue"
  /\ msgq' = [msgq EXCEPT ![n] = @ \cup {s.msg}]
  /\ sending' = [sending EXCEPT ![n] = (@ \ {s}) \cup {[s EXCEPT !.pc = "seen"]}]
  /\ UNCHANGED <<store, seen, svecq, rx>>

\* ... and the id is marked seen.
SendMarkSeen(n) == \E s \in sending[n] :
  /\ s.pc = "seen"
  /\ seen' = [seen EXCEPT ![n] = @ \cup {s.msg.id}]
  /\ sending' = [sending EXCEPT ![n] = @ \ {s}]
  /\ UNCHANGED <<store, msgq, svecq, rx>>

(* handleMSG.  MarkSeenIfNew drops an id that is in the seen cache.         *)
HearMsg(n, from, m) ==
  /\ rx[n].pc = "idle"
  /\ from \in Hears[n] /\ m \in msgq[from]
  /\ m.id \notin seen[n]
  /\ seen' = [seen EXCEPT ![n] = @ \cup {m.id}]
  /\ rx' = [rx EXCEPT ![n] = [pc |-> "save", msg |-> m]]
  /\ UNCHANGED <<store, msgq, svecq, sending>>

(* SaveMessage: INSERT OR IGNORE, whose result handleMSG drops.             *)
SaveMessage(n) ==
  LET m   == rx[n].msg
      new == \A x \in store[n] : ~Conflict(m, x)
  IN
  /\ rx[n].pc = "save"
  /\ store' = [store EXCEPT ![n] = IF new THEN @ \cup {m} ELSE @]
  /\ rx' = [rx EXCEPT ![n] = [pc |-> "forward", msg |-> m]]
  /\ UNCHANGED <<seen, msgq, svecq, sending>>

\* An error of the INSERT is logged and the handler goes on all the same.
SaveMessageFails(n) ==
  /\ "saveError" \in Faults[n]
  /\ rx[n].pc = "save"
  /\ rx' = [rx EXCEPT ![n] = [pc |-> "forward", msg |-> rx[n].msg]]
  /\ UNCHANGED <<store, seen, msgq, svecq, sending>>

(* The rest of handleMSG: tell the clients; stop at a message of our own;   *)
(* otherwise queue the rebroadcast and mark the id seen once more.          *)
Forward(n) ==
  LET m == rx[n].msg IN
  /\ rx[n].pc = "forward"
  /\ IF m.from = n
     THEN UNCHANGED <<msgq, seen>>
     ELSE /\ msgq' = [msgq EXCEPT ![n] = @ \cup {m}]
          /\ seen' = [seen EXCEPT ![n] = @ \cup {m.id}]
  /\ rx' = [rx EXCEPT ![n] = Idle]
  /\ UNCHANGED <<store, svecq, sending>>

(* handleSVEC reads the vector clock once, then goes through the origins in *)
(* the random order of a Go map, querying the store again for each.         *)
CheckingFrom(v, todo) ==
  IF todo = {} THEN Idle ELSE [pc |-> "svec", svec |-> v, todo |-> todo]

HearSvec(n, from, v) ==
  /\ rx[n].pc = "idle"
  /\ from \in Hears[n] /\ v \in svecq[from]
  /\ rx' = [rx EXCEPT ![n] = CheckingFrom(v, NodesToCheck(n, v))]
  /\ UNCHANGED <<store, seen, msgq, svecq, sending>>

PushOrigin(n) == \E o \in Node :
  /\ rx[n].pc = "svec" /\ o \in rx[n].todo
  /\ msgq' = [msgq EXCEPT ![n] = @ \cup MessagesAfterSeq(n, o, rx[n].svec.vec[o])]
  /\ rx' = [rx EXCEPT ![n] = CheckingFrom(rx[n].svec, rx[n].todo \ {o})]
  /\ UNCHANGED <<store, seen, svecq, sending>>

(* syncLoop: the ticker fires broadcastSVEC, which sends an empty vector    *)
(* too.                                                                     *)
BroadcastSVEC(n) ==
  /\ Cardinality(svecq[n]) < MaxSvec
  /\ svecq' = [svecq EXCEPT ![n] = @ \cup {[from |-> n, vec |-> VectorClock(n)]}]
  /\ UNCHANGED <<store, seen, msgq, rx, sending>>

(* A frame leaves the air: sent and past every hearer, lost, or given up    *)
(* after the retries of MarkTransmissionFailed.                             *)
MsgGone(n, m) ==
  /\ m \in msgq[n]
  /\ msgq' = [msgq EXCEPT ![n] = @ \ {m}]
  /\ UNCHANGED <<store, seen, svecq, rx, sending>>

SvecGone(n, v) ==
  /\ v \in svecq[n]
  /\ svecq' = [svecq EXCEPT ![n] = @ \ {v}]
  /\ UNCHANGED <<store, seen, msgq, rx, sending>>

(* cleanupLoop: an id leaves the seen cache after its time to live.         *)
ExpireSeen(n, id) ==
  /\ "expire" \in Faults[n]
  /\ id \in seen[n]
  /\ seen' = [seen EXCEPT ![n] = @ \ {id}]
  /\ UNCHANGED <<store, msgq, svecq, rx, sending>>

\* Mutants: the seen cache survives a restart; the last rows do not.
CrashKeepsSeen(n) ==
  /\ "crash" \in Faults[n]
  /\ rx' = [rx EXCEPT ![n] = Idle]
  /\ sending' = [sending EXCEPT ![n] = {}]
  /\ UNCHANGED <<store, seen, msgq, svecq>>
CrashLosesRows(n) ==
  /\ "crash" \in Faults[n]
  /\ store' = [store EXCEPT ![n] = {}]
  /\ seen' = [seen EXCEPT ![n] = {}]
  /\ rx' = [rx EXCEPT ![n] = Idle]
  /\ sending' = [sending EXCEPT ![n] = {}]
  /\ UNCHANGED <<msgq, svecq>>

(* The daemon stops at any point and starts again: goroutines are gone and  *)
(* migrate recreates seen_cache; messages and transmission_queue persist.   *)
Crash(n) ==
  /\ "crash" \in Faults[n]
  /\ seen' = [seen EXCEPT ![n] = {}]
  /\ rx' = [rx EXCEPT ![n] = Idle]
  /\ sending' = [sending EXCEPT ![n] = {}]
  /\ UNCHANGED <<store, msgq, svecq>>

-----------------------------------------------------------------------------
Step(n) ==
  \/ \E id \in MsgId : SendMessage(n, id)
  \/ SendQueue(n)
  \/ SendMarkSeen(n)
  \/ \E from \in Hears[n] : \E m \in msgq[from] : HearMsg(n, from, m)
  \/ SaveMessage(n)
  \/ SaveMessageFails(n)
  \/ Forward(n)
  \/ \E from \in Hears[n] : \E v \in svecq[from] : HearSvec(n, from, v)
  \/ PushOrigin(n)
  \/ BroadcastSVEC(n)
  \/ \E m \in msgq[n] : MsgGone(n, m)
  \/ \E v \in svecq[n] : SvecGone(n, v)
  \/ \E id \in MsgId : ExpireSeen(n, id)
  \/ Crash(n)

Next == \E n \in Node : Step(n)

Spec == Init /\ [][Next]_vars

-----------------------------------------------------------------------------
(* Fairness.  The goroutines run and the tickers fire.  The radio is a      *)
(* fair-lossy channel: a node in whose range wanted messages are on the air *)
(* again and again hears one again and again, and likewise for the SVECs of *)
(* a neighbour.  From some time on no daemon crashes and no INSERT fails.   *)

HearWanted(n) == \E from \in Hears[n] : \E m \in msgq[from] :
                   m \notin store[n] /\ HearMsg(n, from, m)

WantedOnAir(n) == \E from \in Hears[n] : \E m \in msgq[from] :
                   m \notin store[n] /\ m.id \notin seen[n]

\* An SVEC that names no origin to check makes handleSVEC do nothing.
UsefulSvecs(n, from) == {v \in svecq[from] : NodesToCheck(n, v) # {}}

HearUsefulSvec(n, from) == \E v \in UsefulSvecs(n, from) : HearSvec(n, from, v)

FairLossy ==
  \A n \in Node :
    /\ []<>WantedOnAir(n) => []<><<HearWanted(n)>>_vars
    /\ \A from \in Hears[n] :
         []<>(UsefulSvecs(n, from) # {}) => []<><<HearUsefulSvec(n, from)>>_vars

LoopsRun == \A n \in Node :
  /\ WF_vars(SaveMessage(n)) /\ WF_vars(Forward(n))
  /\ WF_vars(PushOrigin(n))
  /\ WF_vars(BroadcastSVEC(n))

CleanupRuns == \A n \in Node, id \in MsgId : WF_vars(ExpireSeen(n, id))

Stable == <>[][\A n \in Node : ~(Crash(n) \/ SaveMessageFails(n))]_vars

FairSpec == Spec /\ LoopsRun /\ CleanupRuns /\ FairLossy /\ Stable

\* transmissionLoop drains the queue: ORDER BY scheduled_at, three attempts.
FramesGo == \A n \in Node :
  /\ WF_vars(\E m \in msgq[n] : MsgGone(n, m))
  /\ WF_vars(\E v \in svecq[n] : SvecGone(n, v))

QuietSpec == FairSpec /\ FramesGo

-----------------------------------------------------------------------------
(* Every message that a node holds, forwards, is handling or is about to    *)
(* queue is in its origin's store: what travels is never ahead of what was  *)
(* saved (SendMessage saves before it queues, a row outlives a crash).      *)
Handled(n) ==
  store[n] \cup msgq[n] \cup {s.msg : s \in sending[n]}
           \cup (IF rx[n].pc \in {"save", "forward"} THEN {rx[n].msg} ELSE {})

NoPhantom == \A n \in Node : \A m \in Handled(n) : m \in store[m.from]

(* (from_node, seq) and id each name one message in the whole network, so   *)
(* that INSERT OR IGNORE on the unique indexes of one node never drops a    *)
(* message in favour of a different one, whatever crashes before.           *)
SameMessage == \A n, o \in Node : \A m \in Handled(n), x \in Handled(o) :
                 Conflict(m, x) => m = x

(* What makes the invariants inductive: the rows of one table respect its   *)
(* two unique indexes, an id was made by its origin, a handler sends only   *)
(* messages of its own node.                                                *)
UniqueRows == \A n \in Node : \A m, x \in store[n] : Conflict(m, x) => m = x
IdsOfOrigin == \A n \in Node : \A m \in store[n] : m.id \in IdsOf[m.from]
SendsOwn == \A n \in Node : \A s \in sending[n] : s.msg.from = n

(* A node's own numbers have no gap: neighbours can always complete them    *)
(* (SaveMessageWithSeq, MAX(seq) + 1).                                      *)
OwnContiguous == \A n \in Node : \E k \in 0..MaxSeq : SeqsOf(n, n) = 1..k

(* An SVEC, however stale, never claims a message that its sender lacks:    *)
(* otherwise neighbours would stop pushing it (GetVectorClock counts the    *)
(* contiguous prefix only).                                                 *)
SvecTruthful == \A n \in Node : \A v \in svecq[n] : \A o \in Node :
                  1..v.vec[o] \subseteq SeqsOf(n, o)

(* The inductive invariant: what the stores and the frames under way have   *)
(* to satisfy together so that any statement of any daemon keeps it.        *)
IInv ==
  /\ TypeOK
  /\ NoPhantom
  /\ UniqueRows
  /\ IdsOfOrigin
  /\ SendsOwn
  /\ OwnContiguous
  /\ SvecTruthful

(* An id in the seen cache is stored, or is the one being handled: the      *)
(* cache never hides a message that was lost between MarkSeenIfNew and      *)
(* SaveMessage.  Holds because migrate empties the cache after a crash.     *)
SeenIsStored == \A n \in Node : \A id \in seen[n] :
  \/ \E m \in store[n] : m.id = id
  \/ rx[n].pc = "save" /\ rx[n].msg.id = id

(* The vector clock of a node never goes back, so a neighbour that acts on  *)
(* an old SVEC pushes too much and never too little.                        *)
ClockNeverDrops == [][\A n, o \in Node : VectorClock(n)[o] <= VectorClock(n)'[o]]_vars

(* All nodes end up with the same messages, through loss, crashes, expiry   *)
(* of the seen cache and failed INSERTs: what handleSVEC and broadcastSVEC  *)
(* are for (rfmp-rfc.txt section 9).                                        *)
Converged == \A n, o \in Node : store[n] = store[o]
Convergence == <>[]Converged

(* Once everyone has everything the traffic of messages dies down: an SVEC  *)
(* pushes only what its sender lacks, and the seen cache stops the echoes   *)
(* of a rebroadcast.  (Where no seen entry expires.)                         *)
Quiescence == <>[](\A n \in Node : msgq[n] = {})

(* The stores are a Microblog: only posts create messages, only stored      *)
(* messages are learnt, nothing is ever lost.                               *)
Log == INSTANCE Microblog WITH log <- store
ImplementsMicroblog == Log!Spec

=============================================================================
