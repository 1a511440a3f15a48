--------------------------- MODULE RfmpSync_proofs ---------------------------
(* Proofs about RfmpSync, for every set of nodes, ids and faults.           *)
EXTENDS RfmpSync, TLAPS, WellFoundedInduction

-----------------------------------------------------------------------------
(* The numbers: NextSeq and HighestContiguous.                              *)

\* Least-number principle for a set of naturals.
LEMMA LeastNumber ==
  ASSUME NEW T, T \subseteq Nat, T # {}
  PROVE  \E k \in T : \A j \in T : k <= j
<1> DEFINE R == {ss \in Nat \X Nat : ss[1] < ss[2]}
<1>1. IsWellFoundedOn(R, Nat)
  BY NatLessThanWellFounded DEF OpToRel
<1>2. PICK k \in T : \A j \in T : <<j, k>> \notin R
  <2> HIDE DEF R
  <2> QED BY WFMin, <1>1, Zenon
<1>3. \A j \in T : ~(j < k)
  BY <1>2
<1> QED BY <1>3

\* HighestContiguous is well defined: the CHOOSE of GetVectorClock's loop has
\* a witness for every set of numbers.
LEMMA Contiguous ==
  ASSUME NEW S, S \subseteq 1..MaxSeq
  PROVE  /\ HighestContiguous(S) \in 0..MaxSeq
         /\ 1..HighestContiguous(S) \subseteq S
         /\ HighestContiguous(S) + 1 \notin S
<1> DEFINE T == {k \in Nat : k + 1 \notin S}
<1>1. MaxSeq \in Nat
  BY SyncAssumption
<1>2. MaxSeq \in T
  BY <1>1
<1>3. PICK k \in T : \A j \in T : k <= j
  <2> HIDE DEF T
  <2>1. T \subseteq Nat BY DEF T
  <2> QED BY LeastNumber, <1>2, <2>1
<1>4. k \in 0..MaxSeq
  BY <1>1, <1>2, <1>3
<1>5. ASSUME NEW i \in 1..k PROVE i \in S
  <2>1. i - 1 \in Nat /\ i - 1 < k /\ (i - 1) + 1 = i
    BY <1>4
  <2>2. i - 1 \notin T
    BY <2>1, <1>3
  <2> QED BY <2>1, <2>2
<1>6. k \in 0..MaxSeq /\ 1..k \subseteq S /\ k + 1 \notin S
  BY <1>3, <1>4, <1>5
<1> HIDE DEF T
<1> QED BY <1>6 DEF HighestContiguous

\* More messages, a later clock.
LEMMA ContiguousMonotone ==
  ASSUME NEW S, NEW T, S \subseteq T, T \subseteq 1..MaxSeq
  PROVE  HighestContiguous(S) <= HighestContiguous(T)
<1>1. /\ HighestContiguous(S) \in 0..MaxSeq /\ 1..HighestContiguous(S) \subseteq S
      /\ HighestContiguous(T) \in 0..MaxSeq /\ HighestContiguous(T) + 1 \notin T
  BY Contiguous
<1>2. MaxSeq \in Nat
  BY SyncAssumption
<1>3. ASSUME HighestContiguous(T) < HighestContiguous(S) PROVE FALSE
  <2>1. HighestContiguous(T) + 1 \in 1..HighestContiguous(S)
    BY <1>1, <1>2, <1>3
  <2> QED BY <2>1, <1>1
<1> QED BY <1>1, <1>2, <1>3

\* After 1..k the next number is k + 1.
LEMMA NextAfter ==
  ASSUME NEW n \in Node, NEW k \in 0..MaxSeq, SeqsOf(n, n) = 1..k
  PROVE  NextSeq(n) = k + 1
<1>1. MaxSeq \in Nat
  BY SyncAssumption
<1> DEFINE P(j) == /\ \A s \in SeqsOf(n, n) : s < j
                   /\ j = 1 \/ j - 1 \in SeqsOf(n, n)
<1>2. k + 1 \in 1..(MaxSeq + 1) /\ P(k + 1)
  BY <1>1
<1>3. ASSUME NEW j \in 1..(MaxSeq + 1), P(j) PROVE j = k + 1
  <2>1. CASE k = 0
    BY <2>1, <1>1, <1>3
  <2>2. CASE k # 0
    <3>1. k \in SeqsOf(n, n) BY <2>2, <1>1
    <3>2. k < j BY <3>1, <1>3
    <3>3. j - 1 \in 1..k BY <3>2, <2>2, <1>1, <1>3
    <3> QED BY <3>2, <3>3, <1>1
  <2> QED BY <2>1, <2>2
<1>4. NextSeq(n) = CHOOSE j \in 1..(MaxSeq + 1) : P(j)
  BY DEF NextSeq
<1> HIDE DEF P
<1> QED BY <1>2, <1>3, <1>4

-----------------------------------------------------------------------------
(* Types.                                                                   *)

LEMMA QueryTypes ==
  ASSUME TypeOK, NEW n \in Node
  PROVE  /\ \A o \in Node : SeqsOf(n, o) \subseteq 1..MaxSeq
         /\ VectorClock(n) \in [Node -> 0..MaxSeq]
         /\ \A o \in Node, s \in Nat : MessagesAfterSeq(n, o, s) \subseteq Message
         /\ \A v \in Svec : NodesToCheck(n, v) \subseteq Node
<1>1. \A o \in Node : SeqsOf(n, o) \subseteq 1..MaxSeq
  BY DEF TypeOK, SeqsOf, Message, Seq
<1>2. VectorClock(n) \in [Node -> 0..MaxSeq]
  BY <1>1, Contiguous DEF VectorClock
<1>3. \A o \in Node, s \in Nat : MessagesAfterSeq(n, o, s) \subseteq Message
  BY DEF TypeOK, MessagesAfterSeq
<1> QED BY <1>1, <1>2, <1>3 DEF NodesToCheck

\* The CHOOSE of NextSeq has a witness for every store.
LEMMA NextSeqType ==
  ASSUME TypeOK, NEW n \in Node
  PROVE  /\ NextSeq(n) \in 1..(MaxSeq + 1)
         /\ \A s \in SeqsOf(n, n) : s < NextSeq(n)
<1> DEFINE S == SeqsOf(n, n)
           U == {k \in Nat : \A s \in S : s < k}
           P(j) == /\ \A s \in S : s < j
                   /\ j = 1 \/ j - 1 \in S
<1>1. MaxSeq \in Nat /\ S \subseteq 1..MaxSeq
  BY SyncAssumption, QueryTypes
<1>2. MaxSeq + 1 \in U
  BY <1>1
<1>3. PICK k \in U : \A j \in U : k <= j
  <2> HIDE DEF U
  <2>1. U \subseteq Nat BY DEF U
  <2> QED BY LeastNumber, <1>2, <2>1
<1> HIDE DEF S
<1>4. \E j \in 1..(MaxSeq + 1) : P(j)
  <2>1. k \in Nat /\ k <= MaxSeq + 1 /\ \A s \in S : s < k
    BY <1>2, <1>3
  <2>2. CASE k \in {0, 1}
    <3>1. P(1) BY <2>1, <2>2, <1>1
    <3> QED BY <3>1, <1>1
  <2>3. CASE k \notin {0, 1}
    <3>1. k - 1 \in Nat /\ k - 1 \notin U BY <2>1, <2>3, <1>3
    <3>2. PICK s \in S : ~(s < k - 1) BY <3>1
    <3>3. s = k - 1 BY <3>2, <2>1, <1>1
    <3>4. P(k) BY <3>2, <3>3, <2>1
    <3> QED BY <3>4, <2>1, <2>3, <1>1
  <2> QED BY <2>2, <2>3
<1>5. NextSeq(n) = CHOOSE j \in 1..(MaxSeq + 1) : P(j)
  BY DEF NextSeq, S
<1>6. NextSeq(n) \in 1..(MaxSeq + 1) /\ P(NextSeq(n))
  <2> HIDE DEF P
  <2> QED BY <1>4, <1>5
<1> QED BY <1>6 DEF S

\* Every action keeps every variable in its type.
LEMMA TypeStep == TypeOK /\ [Next]_vars => TypeOK'
<1> SUFFICES ASSUME TypeOK, [Next]_vars PROVE TypeOK'
  OBVIOUS
<1> USE DEF TypeOK
<1>0. CASE UNCHANGED vars
  BY <1>0 DEF vars
<1>1. ASSUME NEW n \in Node, NEW id \in MsgId, SendMessage(n, id) PROVE TypeOK'
  <2> DEFINE m == [id |-> id, from |-> n, seq |-> NextSeq(n)]
  <2>1. NextSeq(n) \in Seq
    <3>1. NextSeq(n) <= MaxSeq
      BY <1>1 DEF SendMessage
    <3>2. NextSeq(n) \in 1..(MaxSeq + 1) /\ MaxSeq \in Nat
      BY NextSeqType, SyncAssumption
    <3> QED BY <3>1, <3>2 DEF Seq
  <2>2. m \in Message /\ [pc |-> "queue", msg |-> m] \in SendState
    BY <2>1 DEF Message, SendState
  <2> QED BY <1>1, <2>2 DEF SendMessage
<1>2. ASSUME NEW n \in Node, SendQueue(n) PROVE TypeOK'
  BY <1>2 DEF SendQueue, SendState
<1>3. ASSUME NEW n \in Node, SendMarkSeen(n) PROVE TypeOK'
  BY <1>3 DEF SendMarkSeen, SendState, Message
<1>4. ASSUME NEW n \in Node, NEW from \in Hears[n], NEW m \in msgq[from], HearMsg(n, from, m)
      PROVE TypeOK'
  <2>1. m \in Message
    BY <1>4, SyncAssumption
  <2> QED BY <1>4, <2>1 DEF HearMsg, RxState, Message
<1>5. ASSUME NEW n \in Node, SaveMessage(n) PROVE TypeOK'
  <2>1. rx[n].msg \in Message
    BY <1>5 DEF SaveMessage, RxState, Idle
  <2> QED BY <1>5, <2>1 DEF SaveMessage, RxState
<1>6. ASSUME NEW n \in Node, SaveMessageFails(n) PROVE TypeOK'
  <2>1. rx[n].msg \in Message
    BY <1>6 DEF SaveMessageFails, RxState, Idle
  <2>2. [pc |-> "forward", msg |-> rx[n].msg] \in RxState
    BY <2>1 DEF RxState
  <2> QED BY <1>6, <2>2 DEF SaveMessageFails
<1>7. ASSUME NEW n \in Node, Forward(n) PROVE TypeOK'
  <2>1. rx[n].msg \in Message /\ Idle \in RxState
    BY <1>7 DEF Forward, RxState, Idle
  <2> QED BY <1>7, <2>1 DEF Forward, Message
<1>8. ASSUME NEW v \in Svec, NEW todo \in SUBSET Node PROVE CheckingFrom(v, todo) \in RxState
  BY DEF CheckingFrom, RxState, Idle
<1>9. ASSUME NEW n \in Node, NEW from \in Hears[n], NEW v \in svecq[from], HearSvec(n, from, v)
      PROVE TypeOK'
  <2>1. v \in Svec
    BY <1>9, SyncAssumption
  <2>2. CheckingFrom(v, NodesToCheck(n, v)) \in RxState
    BY <1>8, <2>1, QueryTypes
  <2> QED BY <1>9, <2>2 DEF HearSvec
<1>10. ASSUME NEW n \in Node, PushOrigin(n) PROVE TypeOK'
  <2>1. PICK o \in Node : PushOrigin(n)!(o)
    BY <1>10 DEF PushOrigin
  <2>2. rx[n].svec \in Svec /\ rx[n].todo \subseteq Node
    BY <2>1 DEF RxState, Idle
  <2>3. CheckingFrom(rx[n].svec, rx[n].todo \ {o}) \in RxState
    BY <1>8, <2>2
  <2>4. MessagesAfterSeq(n, o, rx[n].svec.vec[o]) \subseteq Message
    BY DEF MessagesAfterSeq
  <2> QED BY <2>1, <2>3, <2>4
<1>11. ASSUME NEW n \in Node, BroadcastSVEC(n) PROVE TypeOK'
  <2>1. [from |-> n, vec |-> VectorClock(n)] \in Svec
    BY QueryTypes DEF Svec
  <2> QED BY <1>11, <2>1 DEF BroadcastSVEC
<1>12. ASSUME NEW n \in Node, NEW m \in msgq[n], MsgGone(n, m) PROVE TypeOK'
  BY <1>12 DEF MsgGone
<1>13. ASSUME NEW n \in Node, NEW v \in svecq[n], SvecGone(n, v) PROVE TypeOK'
  BY <1>13 DEF SvecGone
<1>14. ASSUME NEW n \in Node, NEW id \in MsgId, ExpireSeen(n, id) PROVE TypeOK'
  BY <1>14 DEF ExpireSeen
<1>15. ASSUME NEW n \in Node, Crash(n) PROVE TypeOK'
  BY <1>15 DEF Crash, RxState
<1> QED
  BY <1>0, <1>1, <1>2, <1>3, <1>4, <1>5, <1>6, <1>7, <1>9, <1>10, <1>11, <1>12,
     <1>13, <1>14, <1>15 DEF Next, Step

\* Type correctness of the network of daemons.
THEOREM TypeCorrect == Spec => []TypeOK
<1>1. Init => TypeOK
  BY DEF Init, TypeOK, RxState
<1> QED BY <1>1, TypeStep, PTL DEF Spec

-----------------------------------------------------------------------------
(* Invariants of the stores and of what travels.                            *)

\* The only actions that write the messages table.
LEMMA StoreStep ==
  ASSUME TypeOK, [Next]_vars
  PROVE  \/ UNCHANGED store
         \/ \E n \in Node, id \in MsgId : SendMessage(n, id)
         \/ \E n \in Node : SaveMessage(n)
BY DEF Next, Step, vars, SendQueue, SendMarkSeen, HearMsg, SaveMessageFails, Forward,
       HearSvec, PushOrigin, BroadcastSVEC, MsgGone, SvecGone, ExpireSeen, Crash

\* No row is ever deleted or changed.
LEMMA StoreGrows ==
  ASSUME TypeOK, [Next]_vars
  PROVE  \A n \in Node : store[n] \subseteq store'[n]
<1>1. ASSUME NEW n \in Node, NEW id \in MsgId, SendMessage(n, id)
      PROVE  \A o \in Node : store[o] \subseteq store'[o]
  BY <1>1 DEF SendMessage, TypeOK
<1>2. ASSUME NEW n \in Node, SaveMessage(n)
      PROVE  \A o \in Node : store[o] \subseteq store'[o]
  BY <1>2 DEF SaveMessage, TypeOK
<1> QED BY <1>1, <1>2, StoreStep

\* What a node handles after a step was handled by some node before it, or
\* is saved at its origin.
LEMMA HandledStep ==
  ASSUME TypeOK, [Next]_vars, NEW k \in Node, NEW m \in Handled(k)'
  PROVE  (\E j \in Node : m \in Handled(j)) \/ m \in store'[m.from]
<1> USE DEF TypeOK, Handled
<1>0. CASE UNCHANGED vars
  BY <1>0 DEF vars
<1>1. ASSUME NEW n \in Node, NEW id \in MsgId, SendMessage(n, id)
      PROVE  (\E j \in Node : m \in Handled(j)) \/ m \in store'[m.from]
  <2> DEFINE p == [id |-> id, from |-> n, seq |-> NextSeq(n)]
  <2>1. p \in store'[p.from]
    BY <1>1 DEF SendMessage
  <2>2. m = p \/ m \in Handled(k)
    BY <1>1 DEF SendMessage
  <2> QED BY <2>1, <2>2
<1>2. ASSUME NEW n \in Node, SendQueue(n) PROVE m \in Handled(k)
  BY <1>2 DEF SendQueue, SendState
<1>3. ASSUME NEW n \in Node, SendMarkSeen(n) PROVE m \in Handled(k)
  BY <1>3 DEF SendMarkSeen
<1>4. ASSUME NEW n \in Node, NEW from \in Hears[n], NEW x \in msgq[from], HearMsg(n, from, x)
      PROVE  \E j \in Node : m \in Handled(j)
  <2>1. from \in Node /\ x \in Handled(from)
    BY SyncAssumption
  <2>2. m = x \/ m \in Handled(k)
    BY <1>4 DEF HearMsg
  <2> QED BY <2>1, <2>2
<1>5. ASSUME NEW n \in Node, SaveMessage(n) PROVE m \in Handled(k)
  BY <1>5 DEF SaveMessage
<1>6. ASSUME NEW n \in Node, SaveMessageFails(n) PROVE m \in Handled(k)
  BY <1>6 DEF SaveMessageFails
<1>7. ASSUME NEW n \in Node, Forward(n) PROVE m \in Handled(k)
  BY <1>7 DEF Forward, Idle
<1>8. ASSUME NEW v \in Svec, NEW todo \in SUBSET Node
      PROVE  CheckingFrom(v, todo).pc \notin {"save", "forward"}
  BY DEF CheckingFrom, Idle
<1>9. ASSUME NEW n \in Node, NEW from \in Hears[n], NEW v \in svecq[from], HearSvec(n, from, v)
      PROVE  m \in Handled(k)
  <2>1. v \in Svec
    BY SyncAssumption
  <2> QED BY <1>8, <1>9, <2>1, QueryTypes DEF HearSvec
<1>10. ASSUME NEW n \in Node, PushOrigin(n) PROVE m \in Handled(k)
  <2>1. PICK o \in Node : PushOrigin(n)!(o)
    BY <1>10 DEF PushOrigin
  <2>2. rx[n].svec \in Svec /\ rx[n].todo \subseteq Node
    BY <2>1 DEF RxState, Idle
  <2>3. CheckingFrom(rx[n].svec, rx[n].todo \ {o}).pc \notin {"save", "forward"}
    BY <1>8, <2>2
  <2>4. MessagesAfterSeq(n, o, rx[n].svec.vec[o]) \subseteq store[n]
    BY DEF MessagesAfterSeq
  <2> QED BY <2>1, <2>3, <2>4
<1>11. ASSUME NEW n \in Node, BroadcastSVEC(n) PROVE m \in Handled(k)
  BY <1>11 DEF BroadcastSVEC
<1>12. ASSUME NEW n \in Node, NEW x \in msgq[n], MsgGone(n, x) PROVE m \in Handled(k)
  BY <1>12 DEF MsgGone
<1>13. ASSUME NEW n \in Node, NEW v \in svecq[n], SvecGone(n, v) PROVE m \in Handled(k)
  BY <1>13 DEF SvecGone
<1>14. ASSUME NEW n \in Node, NEW id \in MsgId, ExpireSeen(n, id) PROVE m \in Handled(k)
  BY <1>14 DEF ExpireSeen
<1>15. ASSUME NEW n \in Node, Crash(n) PROVE m \in Handled(k)
  BY <1>15 DEF Crash, Idle
<1> QED
  BY <1>0, <1>1, <1>2, <1>3, <1>4, <1>5, <1>6, <1>7, <1>9, <1>10, <1>11, <1>12,
     <1>13, <1>14, <1>15 DEF Next, Step

LEMMA NoPhantomStep == TypeOK /\ NoPhantom /\ [Next]_vars => NoPhantom'
<1> SUFFICES ASSUME TypeOK, NoPhantom, [Next]_vars, NEW k \in Node, NEW m \in Handled(k)'
             PROVE  m \in store'[m.from]
  BY DEF NoPhantom
<1>1. CASE \E j \in Node : m \in Handled(j)
  <2>1. PICK j \in Node : m \in Handled(j)
    BY <1>1
  <2>2. m \in store[m.from]
    BY <2>1 DEF NoPhantom
  <2>3. m \in Message
    BY <2>1 DEF Handled, TypeOK, SendState, RxState, Idle
  <2> QED BY <2>2, <2>3, StoreGrows DEF Message
<1> QED BY <1>1, HandledStep

LEMMA UniqueRowsStep == TypeOK /\ UniqueRows /\ [Next]_vars => UniqueRows'
<1> SUFFICES ASSUME TypeOK, UniqueRows, [Next]_vars PROVE UniqueRows'
  OBVIOUS
<1> USE DEF TypeOK
<1>1. ASSUME NEW n \in Node, NEW id \in MsgId, SendMessage(n, id) PROVE UniqueRows'
  <2> DEFINE p == [id |-> id, from |-> n, seq |-> NextSeq(n)]
  <2>1. \A x \in store[n] : x.from = n => x.seq # NextSeq(n)
    <3>1. \A s \in SeqsOf(n, n) : s < NextSeq(n) /\ s \in Nat
      BY NextSeqType, QueryTypes, SyncAssumption
    <3>2. NextSeq(n) \in Nat
      BY NextSeqType, SyncAssumption
    <3>3. \A x \in store[n] : x.from = n => x.seq \in SeqsOf(n, n)
      BY DEF SeqsOf
    <3> QED BY <3>1, <3>2, <3>3
  <2>2. \A x \in store[n] : ~Conflict(p, x) /\ ~Conflict(x, p)
    BY <1>1, <2>1 DEF SendMessage, Conflict
  <2>3. \A o \in Node : store'[o] = IF o = n THEN store[n] \cup {p} ELSE store[o]
    BY <1>1 DEF SendMessage
  <2> QED BY <2>2, <2>3 DEF UniqueRows
<1>2. ASSUME NEW n \in Node, SaveMessage(n) PROVE UniqueRows'
  <2>1. CASE \A x \in store[n] : ~Conflict(rx[n].msg, x)
    <3>1. \A o \in Node : store'[o] = IF o = n THEN store[n] \cup {rx[n].msg} ELSE store[o]
      BY <1>2, <2>1 DEF SaveMessage
    <3>2. \A x \in store[n] : ~Conflict(x, rx[n].msg)
      BY <2>1 DEF Conflict
    <3> QED BY <2>1, <3>1, <3>2 DEF UniqueRows
  <2>2. CASE ~(\A x \in store[n] : ~Conflict(rx[n].msg, x))
    BY <1>2, <2>2 DEF SaveMessage, UniqueRows
  <2> QED BY <2>1, <2>2
<1>3. CASE UNCHANGED store
  BY <1>3 DEF UniqueRows
<1> QED BY <1>1, <1>2, <1>3, StoreStep

LEMMA IdsOfOriginStep == TypeOK /\ NoPhantom /\ IdsOfOrigin /\ [Next]_vars => IdsOfOrigin'
<1> SUFFICES ASSUME TypeOK, NoPhantom, IdsOfOrigin, [Next]_vars PROVE IdsOfOrigin'
  OBVIOUS
<1> USE DEF TypeOK, IdsOfOrigin
<1>1. ASSUME NEW n \in Node, NEW id \in MsgId, SendMessage(n, id) PROVE IdsOfOrigin'
  BY <1>1 DEF SendMessage
<1>2. ASSUME NEW n \in Node, SaveMessage(n) PROVE IdsOfOrigin'
  <2>1. rx[n].msg \in Handled(n) /\ rx[n].msg \in Message
    BY <1>2 DEF SaveMessage, Handled, RxState, Idle
  <2>2. rx[n].msg.id \in IdsOf[rx[n].msg.from]
    BY <2>1 DEF NoPhantom, Message
  <2> QED BY <1>2, <2>2 DEF SaveMessage
<1>3. CASE UNCHANGED store
  BY <1>3
<1> QED BY <1>1, <1>2, <1>3, StoreStep

LEMMA SendsOwnStep == TypeOK /\ SendsOwn /\ [Next]_vars => SendsOwn'
<1> SUFFICES ASSUME TypeOK, SendsOwn, [Next]_vars PROVE SendsOwn'
  OBVIOUS
<1> USE DEF TypeOK, SendsOwn
<1>1. ASSUME NEW n \in Node, NEW id \in MsgId, SendMessage(n, id) PROVE SendsOwn'
  BY <1>1 DEF SendMessage
<1>2. ASSUME NEW n \in Node, SendQueue(n) PROVE SendsOwn'
  BY <1>2 DEF SendQueue, SendState
<1>3. ASSUME NEW n \in Node, SendMarkSeen(n) PROVE SendsOwn'
  BY <1>3 DEF SendMarkSeen
<1>4. ASSUME NEW n \in Node, Crash(n) PROVE SendsOwn'
  BY <1>4 DEF Crash
<1>5. CASE UNCHANGED sending
  BY <1>5
<1> QED
  BY <1>1, <1>2, <1>3, <1>4, <1>5
  DEF Next, Step, vars, HearMsg, SaveMessage, SaveMessageFails, Forward, HearSvec,
      PushOrigin, BroadcastSVEC, MsgGone, SvecGone, ExpireSeen

\* A message from the radio never adds to the numbers of its receiver.
LEMMA SaveForeign ==
  ASSUME TypeOK, NoPhantom, NEW n \in Node, SaveMessage(n)
  PROVE  rx[n].msg.from = n => store' = store
<1>1. rx[n].msg \in Handled(n)
  BY DEF SaveMessage, Handled
<1>2. rx[n].msg \in store[rx[n].msg.from]
  BY <1>1 DEF NoPhantom
<1> QED BY <1>2 DEF SaveMessage, TypeOK, Conflict

LEMMA OwnContiguousStep == TypeOK /\ NoPhantom /\ OwnContiguous /\ [Next]_vars => OwnContiguous'
<1> SUFFICES ASSUME TypeOK, NoPhantom, OwnContiguous, [Next]_vars, NEW n \in Node
             PROVE  \E k \in 0..MaxSeq : SeqsOf(n, n)' = 1..k
  BY DEF OwnContiguous
<1>0. PICK k \in 0..MaxSeq : SeqsOf(n, n) = 1..k
  BY DEF OwnContiguous
<1>1. CASE \E id \in MsgId : SendMessage(n, id)
  <2>1. PICK id \in MsgId : SendMessage(n, id)
    BY <1>1
  <2>2. NextSeq(n) = k + 1 /\ k + 1 \in 1..MaxSeq
    <3>1. NextSeq(n) = k + 1 BY <1>0, NextAfter
    <3>2. NextSeq(n) <= MaxSeq BY <2>1 DEF SendMessage
    <3> QED BY <3>1, <3>2, SyncAssumption
  <2>3. store'[n] = store[n] \cup {[id |-> id, from |-> n, seq |-> k + 1]}
    BY <2>1, <2>2 DEF SendMessage, TypeOK
  <2>4. SeqsOf(n, n)' = SeqsOf(n, n) \cup {k + 1}
    <3> DEFINE p == [id |-> id, from |-> n, seq |-> k + 1]
    <3>1. {x \in store'[n] : x.from = n} = {x \in store[n] : x.from = n} \cup {p}
      BY <2>3
    <3>2. p.seq = k + 1
      OBVIOUS
    <3> HIDE DEF p
    <3> QED BY <3>1, <3>2 DEF SeqsOf
  <2>5. SeqsOf(n, n)' = 1..(k + 1)
    BY <1>0, <2>4, SyncAssumption
  <2> QED BY <2>2, <2>5, SyncAssumption
<1>2. CASE \E o \in Node, id \in MsgId : o # n /\ SendMessage(o, id)
  BY <1>0, <1>2 DEF SendMessage, SeqsOf, TypeOK
<1>3. CASE \E o \in Node : SaveMessage(o)
  <2>1. PICK o \in Node : SaveMessage(o)
    BY <1>3
  <2>2. CASE o = n
    <3>1. {x \in store'[n] : x.from = n} = {x \in store[n] : x.from = n}
      BY <2>1, <2>2, SaveForeign DEF SaveMessage, TypeOK
    <3> QED BY <1>0, <3>1 DEF SeqsOf
  <2>3. CASE o # n
    BY <1>0, <2>1, <2>3 DEF SaveMessage, SeqsOf, TypeOK
  <2> QED BY <2>2, <2>3
<1>4. CASE UNCHANGED store
  BY <1>0, <1>4 DEF SeqsOf
<1> QED BY <1>1, <1>2, <1>3, <1>4, StoreStep

LEMMA SeqsGrow ==
  ASSUME TypeOK, [Next]_vars, NEW n \in Node, NEW o \in Node
  PROVE  SeqsOf(n, o) \subseteq SeqsOf(n, o)'
BY StoreGrows DEF SeqsOf

LEMMA SvecTruthfulStep == TypeOK /\ SvecTruthful /\ [Next]_vars => SvecTruthful'
<1> SUFFICES ASSUME TypeOK, SvecTruthful, [Next]_vars,
                    NEW n \in Node, NEW v \in svecq'[n], NEW o \in Node
             PROVE  1..v.vec[o] \subseteq SeqsOf(n, o)'
  BY DEF SvecTruthful
<1>1. CASE v \in svecq[n]
  BY <1>1, SeqsGrow DEF SvecTruthful
<1>2. CASE v \notin svecq[n]
  <2>1. BroadcastSVEC(n)
    BY <1>2
    DEF TypeOK, Next, Step, vars, SendMessage, SendQueue, SendMarkSeen, HearMsg, SaveMessage,
        SaveMessageFails, Forward, HearSvec, PushOrigin, BroadcastSVEC, MsgGone, SvecGone,
        ExpireSeen, Crash
  <2>2. v.vec[o] = HighestContiguous(SeqsOf(n, o))
    BY <1>2, <2>1 DEF BroadcastSVEC, VectorClock, TypeOK
  <2>3. 1..v.vec[o] \subseteq SeqsOf(n, o)
    BY <2>2, QueryTypes, Contiguous
  <2> QED BY <2>3, SeqsGrow
<1> QED BY <1>1, <1>2

\* The inductive invariant.
THEOREM Inductive == Spec => []IInv
<1>1. Init => IInv
  <2> SUFFICES ASSUME Init PROVE IInv
    OBVIOUS
  <2>1. TypeOK
    BY DEF Init, TypeOK, RxState
  <2>2. NoPhantom
    BY DEF Init, NoPhantom, Handled, Idle
  <2>3. OwnContiguous
    <3>1. \A n \in Node : SeqsOf(n, n) = 1..0
      BY DEF Init, SeqsOf
    <3>2. 0 \in 0..MaxSeq
      BY SyncAssumption
    <3> QED BY <3>1, <3>2 DEF OwnContiguous
  <2> QED BY <2>1, <2>2, <2>3 DEF IInv, Init, UniqueRows, IdsOfOrigin, SendsOwn, SvecTruthful
<1>2. IInv /\ [Next]_vars => IInv'
  BY TypeStep, NoPhantomStep, UniqueRowsStep, IdsOfOriginStep, SendsOwnStep,
     OwnContiguousStep, SvecTruthfulStep DEF IInv
<1> QED BY <1>1, <1>2, PTL DEF Spec

-----------------------------------------------------------------------------
(* The properties the runs check.                                           *)

\* A message that travels, or is held anywhere, is saved at its origin.
THEOREM NoPhantomAlways == Spec => []NoPhantom
<1>1. IInv => NoPhantom
  BY DEF IInv
<1> QED BY <1>1, Inductive, PTL

\* A node's own numbers never have a gap.
THEOREM OwnContiguousAlways == Spec => []OwnContiguous
<1>1. IInv => OwnContiguous
  BY DEF IInv
<1> QED BY <1>1, Inductive, PTL

\* No SVEC under way claims a message its sender lacks.
THEOREM SvecTruthfulAlways == Spec => []SvecTruthful
<1>1. IInv => SvecTruthful
  BY DEF IInv
<1> QED BY <1>1, Inductive, PTL

LEMMA Agreement ==
  ASSUME DisjointIds, IInv
  PROVE  SameMessage
<1> SUFFICES ASSUME NEW n \in Node, NEW o \in Node,
                    NEW m \in Handled(n), NEW x \in Handled(o), Conflict(m, x)
             PROVE  m = x
  BY DEF SameMessage
<1>1. m \in store[m.from] /\ x \in store[x.from]
  BY DEF IInv, NoPhantom
<1>2. m \in Message /\ x \in Message
  BY DEF IInv, Handled, TypeOK, SendState, RxState, Idle
<1>3. m.id \in IdsOf[m.from] /\ x.id \in IdsOf[x.from]
  BY <1>1, <1>2 DEF IInv, IdsOfOrigin, Message
<1>4. m.from = x.from
  BY <1>2, <1>3 DEF Conflict, DisjointIds, Message
<1> QED BY <1>1, <1>2, <1>4 DEF IInv, UniqueRows, Message

\* An id, and a pair (from_node, seq), name one message in the network, if no
\* two nodes make the same id.
THEOREM SameMessageAlways ==
  ASSUME DisjointIds
  PROVE  Spec => []SameMessage
<1>1. IInv => SameMessage
  BY Agreement
<1> QED BY <1>1, Inductive, PTL

\* The vector clock of a node never goes back.
THEOREM ClockNeverDropsAlways == Spec => ClockNeverDrops
<1>1. IInv /\ [Next]_vars
        => [\A n, o \in Node : VectorClock(n)[o] <= VectorClock(n)'[o]]_vars
  <2> SUFFICES ASSUME IInv, [Next]_vars, NEW n \in Node, NEW o \in Node
               PROVE  VectorClock(n)[o] <= VectorClock(n)'[o]
    OBVIOUS
  <2>1. TypeOK /\ TypeOK'
    BY TypeStep DEF IInv
  <2>2. SeqsOf(n, o) \subseteq SeqsOf(n, o)'
    BY <2>1, SeqsGrow
  <2>3. SeqsOf(n, o)' \subseteq 1..MaxSeq
    BY <2>1 DEF TypeOK, SeqsOf, Message, Seq
  <2>4. HighestContiguous(SeqsOf(n, o)) <= HighestContiguous(SeqsOf(n, o)')
    BY <2>2, <2>3, ContiguousMonotone
  <2> QED BY <2>4 DEF VectorClock
<1> QED BY <1>1, Inductive, PTL DEF Spec, ClockNeverDrops

-----------------------------------------------------------------------------
(* The seen cache never hides a lost message, if no INSERT fails.           *)

\* The strengthening: what is being forwarded is stored.
ForwardIsStored == \A n \in Node :
  rx[n].pc = "forward" => \E x \in store[n] : x.id = rx[n].msg.id

SeenInv == SeenIsStored /\ ForwardIsStored

LEMMA SeenStep ==
  ASSUME DisjointIds, \A n \in Node : "saveError" \notin Faults[n], IInv, SeenInv, [Next]_vars
  PROVE  SeenInv'
<1> USE DEF SeenInv, SeenIsStored, ForwardIsStored
<1>a. TypeOK
  BY DEF IInv
<1> USE DEF TypeOK
<1>0. CASE UNCHANGED vars
  BY <1>0 DEF vars
<1>1. ASSUME NEW n \in Node, NEW id \in MsgId, SendMessage(n, id) PROVE SeenInv'
  BY <1>1, <1>a DEF SendMessage
<1>2. ASSUME NEW n \in Node, SendQueue(n) PROVE SeenInv'
  BY <1>2, <1>a DEF SendQueue
<1>3. ASSUME NEW n \in Node, SendMarkSeen(n) PROVE SeenInv'
  <2>1. PICK s \in sending[n] : seen' = [seen EXCEPT ![n] = @ \cup {s.msg.id}]
    BY <1>3 DEF SendMarkSeen
  <2>2. s.msg \in store[n]
    <3>1. s.msg.from = n
      BY DEF IInv, SendsOwn
    <3>2. s.msg \in Handled(n)
      BY DEF Handled
    <3> QED BY <3>1, <3>2 DEF IInv, NoPhantom
  <2>3. UNCHANGED <<store, rx>>
    BY <1>3 DEF SendMarkSeen
  <2>4. \A o \in Node : seen'[o] = IF o = n THEN seen[n] \cup {s.msg.id} ELSE seen[o]
    BY <2>1, <1>a
  <2> QED BY <2>2, <2>3, <2>4
<1>4. ASSUME NEW n \in Node, NEW from \in Hears[n], NEW m \in msgq[from], HearMsg(n, from, m)
      PROVE  SeenInv'
  BY <1>4, <1>a DEF HearMsg
<1>5. ASSUME NEW n \in Node, SaveMessage(n) PROVE SeenInv'
  <2> DEFINE m == rx[n].msg
  <2>1. \E x \in store'[n] : x.id = m.id
    <3>1. CASE \A x \in store[n] : ~Conflict(m, x)
      BY <1>5, <1>a, <3>1 DEF SaveMessage
    <3>2. CASE \E x \in store[n] : Conflict(m, x)
      <4>1. PICK x \in store[n] : Conflict(m, x)
        BY <3>2
      <4>2. m \in Handled(n) /\ x \in Handled(n)
        BY <1>5 DEF SaveMessage, Handled
      <4>3. m = x
        BY <4>1, <4>2, Agreement DEF SameMessage
      <4> QED BY <4>1, <4>3, StoreGrows, <1>a
    <3> QED BY <3>1, <3>2
  <2>2. \A o \in Node : store[o] \subseteq store'[o]
    BY <1>a, StoreGrows
  <2>3. seen' = seen /\ rx' = [rx EXCEPT ![n] = [pc |-> "forward", msg |-> m]] /\ rx[n].pc = "save"
    BY <1>5 DEF SaveMessage
  <2>4. SeenIsStored'
    <3> SUFFICES ASSUME NEW o \in Node, NEW id \in seen[o]
                 PROVE  \/ \E x \in store'[o] : x.id = id
                        \/ rx'[o].pc = "save" /\ rx'[o].msg.id = id
      BY <2>3
    <3>1. CASE o = n /\ id = m.id
      BY <2>1, <3>1
    <3>2. CASE o = n /\ id # m.id
      BY <2>2, <3>2
    <3>3. CASE o # n
      BY <2>2, <2>3, <3>3, <1>a
    <3> QED BY <3>1, <3>2, <3>3
  <2>5. ForwardIsStored'
    <3> SUFFICES ASSUME NEW o \in Node, rx'[o].pc = "forward"
                 PROVE  \E x \in store'[o] : x.id = rx'[o].msg.id
      OBVIOUS
    <3>1. CASE o = n
      BY <2>1, <2>3, <3>1, <1>a
    <3>2. CASE o # n
      BY <2>2, <2>3, <3>2, <1>a
    <3> QED BY <3>1, <3>2
  <2> QED BY <2>4, <2>5
<1>6. ASSUME NEW n \in Node, Forward(n) PROVE SeenInv'
  BY <1>6, <1>a DEF Forward, Idle
<1>7. ASSUME NEW n \in Node, NEW rxn, rxn.pc \notin {"save", "forward"},
             rx[n].pc \notin {"save", "forward"},
             rx' = [rx EXCEPT ![n] = rxn], UNCHANGED <<store, seen>>
      PROVE  SeenInv'
  BY <1>7, <1>a
<1>8. ASSUME NEW v, NEW todo PROVE CheckingFrom(v, todo).pc \notin {"save", "forward"}
  BY DEF CheckingFrom, Idle
<1>9. ASSUME NEW n \in Node, NEW from \in Hears[n], NEW v \in svecq[from], HearSvec(n, from, v)
      PROVE  SeenInv'
  BY <1>7, <1>8, <1>9 DEF HearSvec
<1>10. ASSUME NEW n \in Node, PushOrigin(n) PROVE SeenInv'
  BY <1>7, <1>8, <1>10 DEF PushOrigin
<1>11. ASSUME NEW n \in Node, BroadcastSVEC(n) PROVE SeenInv'
  BY <1>11 DEF BroadcastSVEC
<1>12. ASSUME NEW n \in Node, NEW m \in msgq[n], MsgGone(n, m) PROVE SeenInv'
  BY <1>12 DEF MsgGone
<1>13. ASSUME NEW n \in Node, NEW v \in svecq[n], SvecGone(n, v) PROVE SeenInv'
  BY <1>13 DEF SvecGone
<1>14. ASSUME NEW n \in Node, NEW id \in MsgId, ExpireSeen(n, id) PROVE SeenInv'
  BY <1>14, <1>a DEF ExpireSeen
<1>15. ASSUME NEW n \in Node, Crash(n) PROVE SeenInv'
  BY <1>15, <1>a DEF Crash, Idle
<1> QED
  BY <1>0, <1>1, <1>2, <1>3, <1>4, <1>5, <1>6, <1>9, <1>10, <1>11, <1>12, <1>13,
     <1>14, <1>15 DEF Next, Step, SaveMessageFails

\* Crashes and expiry included, an id that MarkSeenIfNew will drop is stored
\* or just being saved.
THEOREM SeenIsStoredAlways ==
  ASSUME DisjointIds, \A n \in Node : "saveError" \notin Faults[n]
  PROVE  Spec => []SeenIsStored
<1>1. Init => SeenInv
  BY DEF Init, SeenInv, SeenIsStored, ForwardIsStored, Idle
<1>2. IInv /\ SeenInv /\ [Next]_vars => SeenInv'
  BY SeenStep
<1>3. SeenInv => SeenIsStored
  BY DEF SeenInv
<1> QED BY <1>1, <1>2, <1>3, Inductive, PTL DEF Spec

-----------------------------------------------------------------------------
(* The stores implement Microblog.                                          *)

\* Crashes, loss and caches leave the users' view a Microblog.
THEOREM Refinement == Spec => ImplementsMicroblog
<1>1. Init => Log!Init
  BY DEF Init, Log!Init
<1>2. IInv /\ [Next]_vars => [Log!Next]_store
  <2> SUFFICES ASSUME IInv, [Next]_vars PROVE [Log!Next]_store
    OBVIOUS
  <2>0. TypeOK
    BY DEF IInv
  <2>1. ASSUME NEW n \in Node, NEW id \in MsgId, SendMessage(n, id) PROVE Log!Post(n)
    <3>1. PICK k \in 0..MaxSeq : SeqsOf(n, n) = 1..k
      BY DEF IInv, OwnContiguous
    <3>2. NextSeq(n) = k + 1
      BY <3>1, NextAfter
    <3>3. k \in 0..(MaxSeq - 1)
      <4>1. k + 1 <= MaxSeq
        BY <2>1, <3>2 DEF SendMessage
      <4> QED BY <4>1, SyncAssumption
    <3>4. Log!SeqsOf(store[n], n) = 1..k
      BY <3>1 DEF SeqsOf, Log!SeqsOf
    <3> QED BY <2>1, <3>2, <3>3, <3>4 DEF SendMessage, Log!Post
  <2>2. ASSUME NEW n \in Node, SaveMessage(n) PROVE (\E o \in Node : Log!Learn(n, o)) \/ UNCHANGED store
    <3>1. rx[n].msg \in Handled(n) /\ rx[n].msg.from \in Node
      BY <2>0, <2>2 DEF SaveMessage, Handled, TypeOK, RxState, Idle, Message
    <3>2. rx[n].msg \in store[rx[n].msg.from]
      BY <3>1 DEF IInv, NoPhantom
    <3>3. CASE \A x \in store[n] : ~Conflict(rx[n].msg, x)
      BY <2>2, <3>1, <3>2, <3>3 DEF SaveMessage, Log!Learn
    <3>4. CASE ~(\A x \in store[n] : ~Conflict(rx[n].msg, x))
      BY <2>0, <2>2, <3>4 DEF SaveMessage, TypeOK
    <3> QED BY <3>3, <3>4
  <2> QED BY <2>0, <2>1, <2>2, StoreStep DEF Log!Next
<1> QED BY <1>1, <1>2, Inductive, PTL DEF Spec, ImplementsMicroblog, Log!Spec
=============================================================================
