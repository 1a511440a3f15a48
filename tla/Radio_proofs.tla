----------------------------- MODULE Radio_proofs -----------------------------
(* Both directions of the radio.  First what the daemon sends: proofs about *)
(* TransmissionQueue, for every set of rows and any bounds.  Then what it   *)
(* hears: proofs about TncLink, for every set of frames, any FENDs between  *)
(* them and any bounds.  The argument of the second has three parts: Encode *)
(* and DecodeFrames undo each other (EncodeDecodes); decoding does not care *)
(* where the stream is cut (CutAnywhere); so each step of the link adds a   *)
(* frame to the queue under way, takes some off its head, or cuts it off.   *)
EXTENDS TransmissionQueue, TncLink,
        FiniteSetTheorems, SequenceTheorems, WellFoundedInduction, TLAPS

-----------------------------------------------------------------------------
(* The transmission queue.                                                  *)

\* A row in hand or still to be sent was written at most once per fault; only
\* the row just sent and the settled ones may have one write more.
WriteBound == \A r \in Row :
  writes[r] <= faults + (IF tx = Sent(r) \/ Settled(r) THEN 1 ELSE 0)

\* The row that was just sent has been written.
SentIsWritten == \A r \in Row : tx = Sent(r) => writes[r] > 0

\* Every conjunct leans on another: WriteBound on HeldIsLive, HeldIsLive on
\* the types, SettledHonestly on SentIsWritten and HeldIsLive.
IInv ==
  /\ TypeOK
  /\ WriteBound
  /\ SentIsWritten
  /\ SettledHonestly
  /\ HeldIsLive
  /\ NoneForgotten

-----------------------------------------------------------------------------
\* The three shapes of tx are told apart, and name their row.
LEMMA Hands ==
  ASSUME NEW r \in Row, NEW s \in Row
  PROVE  /\ Idle # Held(r) /\ Idle # Sent(r) /\ Held(r) # Sent(s)
         /\ Held(r) = Held(s) => r = s
         /\ Sent(r) = Sent(s) => r = s
<1>1. Idle.pc = "idle" /\ Held(r).pc = "held" /\ Sent(s).pc = "sent" /\ Sent(r).pc = "sent"
  BY DEF Idle, Held, Sent
<1>2. Held(r).row = r /\ Held(s).row = s /\ Sent(r).row = r /\ Sent(s).row = s
  BY DEF Held, Sent
<1> QED BY <1>1, <1>2

\* The initial state satisfies the invariant.
LEMMA InitIInv == Init => IInv
<1> SUFFICES ASSUME Init PROVE IInv
  OBVIOUS
<1> USE QueueAssumption DEF Init
<1>1. TypeOK
  BY DEF TypeOK
<1>2. \A r \in Row : tx # Held(r) /\ tx # Sent(r)
  BY Hands
<1>3. WriteBound /\ SentIsWritten /\ HeldIsLive /\ NoneForgotten
  BY <1>2 DEF WriteBound, SentIsWritten, HeldIsLive, NoneForgotten, Settled
<1>4. SettledHonestly
  <2>1. \A r \in Row : status[r] = "none" /\ attempts[r] = 0 /\ ~Settled(r)
    BY DEF Settled
  <2>2. 0 < MaxRetries + faults + 0
    OBVIOUS
  <2> QED BY <2>1, <2>2 DEF SettledHonestly
<1> QED BY <1>1, <1>3, <1>4 DEF IInv

-----------------------------------------------------------------------------
\* The actions that touch neither the hands of the loop nor a settled row.
LEMMA WaitingStep ==
  ASSUME IInv, NEW q \in Row, QueueTransmission(q) \/ TimePasses(q)
  PROVE  IInv'
<1> USE QueueAssumption DEF IInv, TypeOK
<1>1. CASE QueueTransmission(q)
  <2> USE <1>1 DEF QueueTransmission
  <2>1. TypeOK'
    OBVIOUS
  <2>2. (WriteBound /\ SentIsWritten /\ NoneForgotten)'
    BY DEF WriteBound, SentIsWritten, NoneForgotten, Settled
  <2>3. SettledHonestly' /\ HeldIsLive'
    BY DEF SettledHonestly, HeldIsLive, Live, Settled
  <2> QED BY <2>1, <2>2, <2>3
<1>2. CASE TimePasses(q)
  BY <1>2 DEF TimePasses, WriteBound, SentIsWritten, SettledHonestly,
              HeldIsLive, NoneForgotten, Live, Settled
<1> QED BY <1>1, <1>2

\* Taking a row: it was pending, so it is live.
LEMMA TakeStep ==
  ASSUME IInv, NEW q \in Row, GetNextTransmission(q) \/ GetNextUnmarked(q)
  PROVE  IInv'
<1> USE QueueAssumption DEF IInv, TypeOK
<1>1. tx = Idle /\ tx' = Held(q) /\ status[q] = "pending"
  BY DEF GetNextTransmission, GetNextUnmarked
<1>2. \A r \in Row : /\ tx # Held(r) /\ tx # Sent(r) /\ tx' # Sent(r)
                     /\ tx' = Held(r) => r = q
  BY <1>1, Hands
<1>3. CASE GetNextTransmission(q)
  <2> USE <1>3 DEF GetNextTransmission
  <2>1. TypeOK'
    BY <1>1
  <2>2. WriteBound' /\ SentIsWritten'
    BY <1>2 DEF WriteBound, SentIsWritten, Settled
  <2>3. SettledHonestly' /\ HeldIsLive' /\ NoneForgotten'
    BY <1>1, <1>2 DEF SettledHonestly, HeldIsLive, NoneForgotten, Live, Settled
  <2> QED BY <2>1, <2>2, <2>3
<1>4. CASE GetNextUnmarked(q)
  <2> USE <1>4 DEF GetNextUnmarked
  <2>1. TypeOK'
    BY <1>1
  <2>2. WriteBound' /\ SentIsWritten'
    BY <1>2 DEF WriteBound, SentIsWritten, Settled
  <2>3. SettledHonestly' /\ HeldIsLive' /\ NoneForgotten'
    BY <1>1, <1>2 DEF SettledHonestly, HeldIsLive, NoneForgotten, Live
  <2> QED BY <2>1, <2>2, <2>3
<1> QED BY <1>3, <1>4

\* Writing the frame spends the one write that a live row has left.
LEMMA SendStep ==
  ASSUME IInv, NEW q \in Row, SendFrame(q)
  PROVE  IInv'
<1> USE QueueAssumption DEF IInv, TypeOK, SendFrame
<1>1. Live(q) /\ ~Settled(q) /\ writes[q] <= faults
  BY Hands DEF HeldIsLive, WriteBound, Live, Settled
<1>2. \A r \in Row : /\ tx' # Held(r) /\ tx # Sent(r)
                     /\ tx' = Sent(r) <=> r = q
                     /\ tx = Held(r) <=> r = q
  BY Hands
<1>3. TypeOK'
  OBVIOUS
<1>4. WriteBound' /\ SentIsWritten'
  BY <1>1, <1>2 DEF WriteBound, SentIsWritten, Settled
<1>5. SettledHonestly' /\ HeldIsLive' /\ NoneForgotten'
  BY <1>1, <1>2 DEF SettledHonestly, HeldIsLive, NoneForgotten, Live, Settled
<1> QED BY <1>3, <1>4, <1>5

(* The loop lets go of the row it held or sent: it is settled, it waits     *)
(* again, or a fault is on record (or the row is unbuildable).              *)
LEMMA ReleaseStep ==
  ASSUME IInv, NEW q \in Row,
         \/ MarkTransmissionFailed(q) \/ MarkFailedUnread(q) \/ MarkTransmitted(q)
         \/ MarkFails(q) \/ PanicOnUnbuildable(q)
  PROVE  IInv'
<1> USE QueueAssumption DEF IInv, TypeOK
<1>1. tx \in {Held(q), Sent(q)} /\ tx' = Idle
  BY DEF MarkTransmissionFailed, MarkFailedUnread, MarkTransmitted, MarkFails, PanicOnUnbuildable
<1>2. \A r \in Row : /\ tx' # Held(r) /\ tx' # Sent(r)
                     /\ tx = Held(r) \/ tx = Sent(r) => r = q
  BY <1>1, Hands
<1>3. Live(q) /\ ~Settled(q) /\ attempts[q] < MaxRetries + faults
  BY <1>1 DEF HeldIsLive, SettledHonestly, Live, Settled
<1>4. SentIsWritten' /\ HeldIsLive'
  BY <1>2 DEF SentIsWritten, HeldIsLive
<1>5. CASE MarkTransmissionFailed(q)
  <2> USE <1>5 DEF MarkTransmissionFailed, RetryAfter
  <2>1. TypeOK'
    BY <1>3
  <2>2. WriteBound'
    BY <1>2, <1>3, Hands DEF WriteBound, Settled, Live
  <2>3. SettledHonestly' /\ NoneForgotten'
    BY <1>2, <1>3 DEF SettledHonestly, NoneForgotten, Live, Settled
  <2> QED BY <1>4, <2>1, <2>2, <2>3
<1>9. CASE MarkFailedUnread(q)
  <2> USE <1>9 DEF MarkFailedUnread, RetryAfter
  <2>1. TypeOK'
    BY <1>3
  <2>2. WriteBound'
    BY <1>2, <1>3, Hands DEF WriteBound, Settled, Live
  <2>3. SettledHonestly' /\ NoneForgotten'
    BY <1>2, <1>3 DEF SettledHonestly, NoneForgotten, Live, Settled
  <2> QED BY <1>4, <2>1, <2>2, <2>3
<1>6. CASE MarkTransmitted(q)
  <2> USE <1>6 DEF MarkTransmitted
  <2>1. TypeOK'
    OBVIOUS
  <2>2. WriteBound'
    BY <1>2 DEF WriteBound, Settled
  <2>3. SettledHonestly' /\ NoneForgotten'
    BY <1>2, <1>3 DEF SentIsWritten, SettledHonestly, NoneForgotten, Settled
  <2> QED BY <1>4, <2>1, <2>2, <2>3
<1>7. CASE MarkFails(q)
  <2> USE <1>7 DEF MarkFails
  <2>1. TypeOK'
    OBVIOUS
  <2>2. WriteBound'
    BY <1>2 DEF WriteBound, Settled
  <2>3. SettledHonestly' /\ NoneForgotten'
    BY <1>2 DEF SettledHonestly, NoneForgotten
  <2> QED BY <1>4, <2>1, <2>2, <2>3
<1>8. CASE PanicOnUnbuildable(q)
  <2> USE <1>8 DEF PanicOnUnbuildable
  <2>1. TypeOK'
    OBVIOUS
  <2>2. WriteBound'
    BY <1>2, Hands DEF WriteBound, Settled
  <2>3. SettledHonestly' /\ NoneForgotten'
    BY <1>2 DEF SettledHonestly, NoneForgotten, Settled
  <2> QED BY <1>4, <2>1, <2>2, <2>3
<1> QED BY <1>5, <1>6, <1>7, <1>8, <1>9

(* Cleanup deletes settled rows and wakes live ones, so no row changes      *)
(* sides, whatever the loop is doing with it.                               *)
LEMMA CleanupStep ==
  ASSUME IInv, NEW gone \in SUBSET Row,
         CleanupTransmissionQueue(gone) \/ CleanupResetFails(gone)
  PROVE  IInv'
<1> USE QueueAssumption DEF IInv, TypeOK, CleanupTransmissionQueue, CleanupResetFails
<1>1. \A r \in Row : /\ Live(r)' <=> Live(r)
                     /\ Settled(r)' <=> Settled(r)
  BY DEF Live, Settled
<1>2. TypeOK'
  OBVIOUS
<1>3. (WriteBound /\ SentIsWritten /\ HeldIsLive)'
  BY <1>1 DEF WriteBound, SentIsWritten, HeldIsLive
<1>4. SettledHonestly' /\ NoneForgotten'
  BY <1>1 DEF SettledHonestly, NoneForgotten
<1> QED BY <1>2, <1>3, <1>4

\* A crash frees the loop's hands at the price of one fault.
LEMMA CrashStep ==
  ASSUME IInv, Crash
  PROVE  IInv'
<1> USE QueueAssumption DEF IInv, TypeOK, Crash
<1>1. \A r \in Row : tx' # Held(r) /\ tx' # Sent(r)
  BY Hands
<1>2. TypeOK'
  OBVIOUS
<1>3. WriteBound' /\ SentIsWritten' /\ HeldIsLive' /\ NoneForgotten'
  BY <1>1 DEF WriteBound, SentIsWritten, HeldIsLive, NoneForgotten, Settled
<1>4. SettledHonestly'
  BY DEF SettledHonestly, Settled
<1> QED BY <1>2, <1>3, <1>4

-----------------------------------------------------------------------------
\* The invariant is inductive: it holds in every reachable state of the queue.
THEOREM Inductive == Spec => []IInv
<1>1. IInv /\ [Next]_vars => IInv'
  <2> SUFFICES ASSUME IInv, [Next]_vars PROVE IInv'
    OBVIOUS
  <2>1. CASE UNCHANGED vars
    BY <2>1 DEF vars, IInv, TypeOK, WriteBound, SentIsWritten, SettledHonestly,
                HeldIsLive, NoneForgotten, Live, Settled
  <2>2. CASE Next
    BY <2>2, WaitingStep, TakeStep, SendStep, ReleaseStep, CleanupStep, CrashStep
       DEF Next
  <2> QED BY <2>1, <2>2
<1> QED BY InitIInv, <1>1, PTL DEF Spec

\* Every statement on transmission_queue keeps its columns in range.
THEOREM TypeCorrect == Spec => []TypeOK
<1>1. IInv => TypeOK
  BY DEF IInv
<1> QED BY Inductive, <1>1, PTL

\* No row is written to the TNC more often than once plus once per fault.
THEOREM SentOnceAlways == Spec => []SentOnce
<1>1. IInv => SentOnce
  <2> SUFFICES ASSUME IInv, NEW r \in Row PROVE writes[r] <= 1 + faults
    BY DEF SentOnce
  <2>1. writes[r] \in Nat /\ faults \in Nat
    BY QueueAssumption DEF IInv, TypeOK
  <2>2. writes[r] <= faults \/ writes[r] <= faults + 1
    BY <2>1 DEF IInv, WriteBound
  <2> QED BY <2>1, <2>2
<1> QED BY Inductive, <1>1, PTL

\* 'sent' means written, 'failed' means that every attempt was made, and no
\* row has more than one attempt more for each fault (MarkTransmissionFailed).
THEOREM SettledHonestlyAlways == Spec => []SettledHonestly
<1>1. IInv => SettledHonestly
  BY DEF IInv
<1> QED BY Inductive, <1>1, PTL

\* cleanupLoop never settles or deletes the row transmissionLoop holds.
THEOREM HeldIsLiveAlways == Spec => []HeldIsLive
<1>1. IInv => HeldIsLive
  BY DEF IInv
<1> QED BY Inductive, <1>1, PTL

\* Without a fault, no buildable row stays 'transmitting' in nobody's hands.
THEOREM NoneForgottenAlways == Spec => []NoneForgotten
<1>1. IInv => NoneForgotten
  BY DEF IInv
<1> QED BY Inductive, <1>1, PTL

\* No statement on transmission_queue brings a settled row back; the loop's
\* own rows are live, so its UPDATEs by id never hit a settled one.
THEOREM SettledForGoodAlways == Spec => SettledForGood
<1>1. ASSUME IInv, [Next]_vars
      PROVE  \A r \in Row : Settled(r) => Settled(r)'
  <2> SUFFICES ASSUME NEW r \in Row, Settled(r) PROVE Settled(r)'
    OBVIOUS
  <2>1. status \in [Row -> {"none", "pending", "transmitting", "sent", "failed", "deleted"}]
    BY <1>1 DEF IInv, TypeOK
  <2>2. status[r] # "none" /\ status[r] # "pending" /\ tx # Held(r) /\ tx # Sent(r)
    BY <1>1 DEF IInv, HeldIsLive, Live, Settled
  <2>3. CASE UNCHANGED vars
    BY <2>3 DEF vars, Settled
  <2>4. ASSUME NEW q \in Row,
               \/ QueueTransmission(q) \/ TimePasses(q)
               \/ GetNextTransmission(q) \/ GetNextUnmarked(q)
               \/ SendFrame(q) \/ MarkTransmissionFailed(q) \/ MarkFailedUnread(q)
               \/ MarkTransmitted(q) \/ MarkFails(q)
               \/ PanicOnUnbuildable(q)
        PROVE  Settled(r)'
    BY <2>1, <2>2, <2>4
       DEF Settled, QueueTransmission, TimePasses, GetNextTransmission,
           GetNextUnmarked, SendFrame, RetryAfter, MarkTransmissionFailed, MarkFailedUnread,
           MarkTransmitted, MarkFails, PanicOnUnbuildable
  <2>5. ASSUME NEW gone \in SUBSET Row,
               CleanupTransmissionQueue(gone) \/ CleanupResetFails(gone)
        PROVE  Settled(r)'
    BY <2>5 DEF Settled, CleanupTransmissionQueue, CleanupResetFails
  <2>6. CASE Crash
    BY <2>6 DEF Crash, Settled
  <2> QED BY <1>1, <2>3, <2>4, <2>5, <2>6 DEF Next
<1>2. Spec => []IInv
  BY Inductive
<1> QED BY <1>1, <1>2, PTL DEF Spec, SettledForGood

-----------------------------------------------------------------------------
(* The link.                                                                *)

(* Induction on numbers, from the library's well-founded order on finite    *)
(* sets: 0..x is the smallest of its kind.                                  *)
LEMMA SmallestNumber ==
  ASSUME NEW T, T \subseteq Nat, T # {}
  PROVE  \E x \in T : \A y \in T : x <= y
<1> DEFINE U == {0 .. x : x \in T}
<1>1. U # {} /\ U \subseteq FiniteSubsetsOf(Nat)
  <2>1. \A x \in T : IsFiniteSet(0 .. x) /\ 0 .. x \subseteq Nat
    BY FS_Interval
  <2> QED BY <2>1 DEF FiniteSubsetsOf
<1>2. \E u \in U : \A v \in U : <<v, u>> \notin StrictSubsetOrdering(Nat)
  <2> HIDE DEF U
  <2> QED BY <1>1, WFMin, FS_StrictSubsetOrderingWellFounded
<1>3. PICK x \in T : \A y \in T : <<0 .. y, 0 .. x>> \notin StrictSubsetOrdering(Nat)
  BY <1>2
<1>4. ASSUME NEW y \in T, ~(x <= y)
      PROVE  FALSE
  <2>1. y < x /\ x \in Nat /\ y \in Nat
    BY <1>4
  <2>2. 0 .. y \subseteq 0 .. x /\ x \in 0 .. x /\ x \notin 0 .. y
    BY <2>1
  <2>3. 0 .. y \in SUBSET Nat /\ 0 .. x \in SUBSET Nat
    OBVIOUS
  <2> QED BY <1>3, <2>2, <2>3 DEF StrictSubsetOrdering
<1> QED BY <1>4

\* A set of numbers that has 0 and every successor has them all.
LEMMA NumbersByInduction ==
  ASSUME NEW T, 0 \in T, \A n \in Nat : n \in T => n + 1 \in T
  PROVE  Nat \subseteq T
<1> SUFFICES ASSUME Nat \ T # {} PROVE FALSE
  OBVIOUS
<1>1. PICK x \in Nat \ T : \A y \in Nat \ T : x <= y
  BY SmallestNumber
<1>2. x # 0 /\ x - 1 \in Nat /\ x - 1 \in T
  BY <1>1
<1> QED BY <1>1, <1>2

\* A value computed step by step from 0 to n is there.
Steps(f, V, base, n, g) ==
  f \in [0 .. n -> V] /\ f[0] = base /\ \A k \in 1 .. n : f[k] = g[k][f[k - 1]]

LEMMA StepByStep ==
  ASSUME NEW V, NEW base \in V, NEW n \in Nat, NEW g \in [1 .. n -> [V -> V]]
  PROVE  \E f : Steps(f, V, base, n, g)
<1> DEFINE Is(f, j) == /\ f \in [0 .. j -> V] /\ f[0] = base
                       /\ \A k \in 1 .. j : f[k] = g[k][f[k - 1]]
           T == {j \in Nat : j <= n => \E f : Is(f, j)}
<1>1. 0 \in T
  <2>1. Is([k \in 0 .. 0 |-> base], 0)
    OBVIOUS
  <2> QED BY <2>1
<1>2. ASSUME NEW j \in Nat, j \in T
      PROVE  j + 1 \in T
  <2>1. SUFFICES ASSUME j + 1 <= n PROVE \E h : Is(h, j + 1)
    OBVIOUS
  <2>2. PICK f : Is(f, j)
    BY <1>2, <2>1
  <2> DEFINE h == [k \in 0 .. j + 1 |-> IF k <= j THEN f[k] ELSE g[j + 1][f[j]]]
  <2>3. j + 1 \in 1 .. n /\ f[j] \in V /\ g[j + 1][f[j]] \in V
    BY <2>1, <2>2
  <2>4. h \in [0 .. j + 1 -> V] /\ h[0] = base
    BY <2>2, <2>3
  <2>5. \A k \in 0 .. j : h[k] = f[k]
    OBVIOUS
  <2>6. h[j + 1] = g[j + 1][f[j]]
    OBVIOUS
  <2> HIDE DEF h
  <2>7. ASSUME NEW k \in 1 .. j + 1
        PROVE  h[k] = g[k][h[k - 1]]
    <3>1. CASE k = j + 1
      <4>1. k - 1 = j /\ j \in 0 .. j
        BY <3>1
      <4> QED BY <2>5, <2>6, <3>1, <4>1
    <3>2. CASE k # j + 1
      <4>1. k \in 1 .. j /\ k \in 0 .. j /\ k - 1 \in 0 .. j
        BY <3>2
      <4> QED BY <2>2, <2>5, <4>1
    <3> QED BY <3>1, <3>2
  <2> QED BY <2>4, <2>7
<1>3. n \in T
  <2> HIDE DEF T
  <2> QED BY <1>1, <1>2, NumbersByInduction
<1> QED BY <1>3 DEF Steps

-----------------------------------------------------------------------------
\* A set of sequences that has the empty one and all that are one longer has
\* them all.
LEMMA SequencesByInduction ==
  ASSUME NEW S, NEW T, <<>> \in T,
         \A s \in Seq(S), e \in S : s \in T => Append(s, e) \in T
  PROVE  Seq(S) \subseteq T
<1> DEFINE N == {n \in Nat : \A s \in Seq(S) : Len(s) = n => s \in T}
<1>1. 0 \in N
  BY EmptySeq
<1>2. ASSUME NEW n \in Nat, n \in N
      PROVE  n + 1 \in N
  <2>1. SUFFICES ASSUME NEW s \in Seq(S), Len(s) = n + 1
                 PROVE  s \in T
    OBVIOUS
  <2>2. s # <<>>
    BY <2>1
  <2>3. PICK r \in Seq(S), e \in S : s = Append(r, e)
    BY <2>2, SequenceEmptyOrAppend
  <2>4. Len(r) = n
    BY <2>1, <2>3, AppendProperties
  <2> QED BY <1>2, <2>3, <2>4
<1>3. Nat \subseteq N
  <2> HIDE DEF N
  <2> QED BY <1>1, <1>2, NumbersByInduction
<1> QED BY <1>3

(* FlattenSeq joins its sequences one after the other.                      *)
Joins(f, S, seqs, n) ==
  /\ f \in [0 .. n -> Seq(S)] /\ f[0] = <<>>
  /\ \A i \in 1 .. n : f[i] = f[i - 1] \o seqs[i]

LEMMA FlattenJoins ==
  ASSUME NEW S, NEW seqs \in Seq(Seq(S)), NEW n \in Nat, n = Len(seqs)
  PROVE  \E f : Joins(f, S, seqs, n) /\ FlattenSeq(seqs) = f[n]
<1> DEFINE Step(f, i) == IF i = 1 THEN seqs[i] ELSE f[i - 1] \o seqs[i]
           Solves(f) == f = [i \in 1 .. n |-> Step(f, i)]
           flat == CHOOSE f : Solves(f)
           g == [k \in 1 .. n |-> [v \in Seq(S) |-> v \o seqs[k]]]
<1>1. \A k \in 1 .. n : seqs[k] \in Seq(S)
  OBVIOUS
<1>2. PICK f : Joins(f, S, seqs, n)
  <2>1. g \in [1 .. n -> [Seq(S) -> Seq(S)]]
    BY <1>1
  <2>2. \A k \in 1 .. n : \A v \in Seq(S) : g[k][v] = v \o seqs[k]
    OBVIOUS
  <2> HIDE DEF g
  <2>3. PICK f : Steps(f, Seq(S), <<>>, n, g)
    <3>1. <<>> \in Seq(S)
      OBVIOUS
    <3> QED BY <2>1, <3>1, StepByStep
  <2>4. f \in [0 .. n -> Seq(S)] /\ f[0] = <<>> /\ \A k \in 1 .. n : f[k] = g[k][f[k - 1]]
    BY <2>3 DEF Steps
  <2>5. \A k \in 1 .. n : k - 1 \in 0 .. n
    OBVIOUS
  <2>6. \A k \in 1 .. n : f[k] = f[k - 1] \o seqs[k]
    BY <2>2, <2>4, <2>5
  <2> QED BY <2>4, <2>6 DEF Joins
<1>3. f \in [0 .. n -> Seq(S)] /\ f[0] = <<>> /\ \A i \in 1 .. n : f[i] = f[i - 1] \o seqs[i]
  BY <1>2 DEF Joins
<1>4. CASE n = 0
  <2>1. seqs = <<>>
    BY <1>4, EmptySeq
  <2>2. FlattenSeq(seqs) = <<>>
    BY <1>4, <2>1 DEF FlattenSeq
  <2> QED BY <1>2, <1>3, <1>4, <2>2
<1>5. CASE n # 0
  <2> DEFINE h == [i \in 1 .. n |-> f[i]]
  <2>1. \A i \in 1 .. n : h[i] = f[i]
    OBVIOUS
  <2>2. ASSUME NEW i \in 1 .. n
        PROVE  f[i] = Step(h, i)
    <3>1. PICK p : p = i - 1 /\ p \in 0 .. n
      OBVIOUS
    <3>2. f[i] = f[p] \o seqs[i]
      BY <1>3, <3>1
    <3>3. CASE i = 1
      <4>1. f[p] = <<>>
        BY <1>3, <3>1, <3>3
      <4>2. <<>> \o seqs[i] = seqs[i]
        BY <1>1, ConcatEmptySeq
      <4> QED BY <3>2, <3>3, <4>1, <4>2
    <3>4. CASE i # 1
      <4>1. p \in 1 .. n
        BY <3>1, <3>4
      <4>2. h[p] = f[p]
        BY <2>1, <4>1
      <4> HIDE DEF h
      <4> QED BY <3>1, <3>2, <3>4, <4>2
    <3> QED BY <3>3, <3>4
  <2>3. h = [i \in 1 .. n |-> Step(h, i)]
    <3> HIDE DEF Step
    <3> QED BY <2>2
  <2> HIDE DEF h
  <2>4. Solves(h)
    BY <2>3
  <2>5. Solves(flat)
    <3> HIDE DEF Solves
    <3> QED BY <2>4
  <2>6. FlattenSeq(seqs) = flat[n]
    BY <1>5 DEF FlattenSeq
  <2> HIDE DEF flat
  <2>7. \A i \in 1 .. n : flat[i] = Step(flat, i)
    <3> HIDE DEF Step
    <3> QED BY <2>5
  <2> DEFINE T == {k \in Nat : k + 1 <= n => flat[k + 1] = f[k + 1]}
  <2>8. 0 \in T
    <3>1. 1 \in 1 .. n /\ 0 + 1 = 1
      BY <1>5
    <3>2. flat[1] = seqs[1]
      BY <2>7, <3>1
    <3>3. f[1] = h[1] /\ h[1] = seqs[1]
      BY <2>1, <2>3, <3>1
    <3> QED BY <3>1, <3>2, <3>3
  <2>9. ASSUME NEW k \in Nat, k \in T
        PROVE  k + 1 \in T
    <3>1. SUFFICES ASSUME (k + 1) + 1 <= n PROVE flat[(k + 1) + 1] = f[(k + 1) + 1]
      OBVIOUS
    <3>2. PICK j : j = (k + 1) + 1 /\ j \in 1 .. n /\ j # 1 /\ j - 1 = k + 1
      BY <3>1
    <3>3. flat[j] = flat[j - 1] \o seqs[j]
      BY <2>7, <3>2
    <3>4. f[j] = f[j - 1] \o seqs[j]
      BY <1>3, <3>2
    <3>5. flat[j - 1] = f[j - 1]
      BY <2>9, <3>2
    <3> QED BY <3>2, <3>3, <3>4, <3>5
  <2>10. Nat \subseteq T
    <3> HIDE DEF T
    <3> QED BY <2>8, <2>9, NumbersByInduction
  <2>11. PICK m : m = n - 1 /\ m \in Nat /\ m + 1 = n
    BY <1>5
  <2>12. flat[n] = f[n]
    <3>1. m \in T
      BY <2>10, <2>11
    <3>2. flat[m + 1] = f[m + 1]
      BY <2>11, <3>1
    <3> QED BY <2>11, <3>2
  <2> QED BY <1>2, <2>6, <2>12
<1> QED BY <1>4, <1>5

\* One more sequence is joined at the end.
LEMMA FlattenGrows ==
  ASSUME NEW S, NEW ss \in Seq(Seq(S)), NEW tt \in Seq(Seq(S)), NEW n \in Nat,
         Len(ss) = n, Len(tt) = n + 1, \A i \in 1 .. n : tt[i] = ss[i]
  PROVE  /\ FlattenSeq(ss) \in Seq(S)
         /\ FlattenSeq(tt) = FlattenSeq(ss) \o tt[n + 1]
<1>1. PICK f : Joins(f, S, ss, n) /\ FlattenSeq(ss) = f[n]
  BY FlattenJoins
<1>2. PICK m : m = n + 1 /\ m \in Nat /\ m - 1 = n /\ m \in 1 .. m
  OBVIOUS
<1>3. PICK g : Joins(g, S, tt, m) /\ FlattenSeq(tt) = g[m]
  BY <1>2, FlattenJoins
<1>4. f \in [0 .. n -> Seq(S)] /\ f[0] = <<>> /\ \A i \in 1 .. n : f[i] = f[i - 1] \o ss[i]
  BY <1>1 DEF Joins
<1>5. g \in [0 .. m -> Seq(S)] /\ g[0] = <<>> /\ \A i \in 1 .. m : g[i] = g[i - 1] \o tt[i]
  BY <1>3 DEF Joins
<1> DEFINE T == {k \in Nat : k <= n => f[k] = g[k]}
<1>6. 0 \in T
  BY <1>4, <1>5
<1>7. ASSUME NEW k \in Nat, k \in T
      PROVE  k + 1 \in T
  <2>1. SUFFICES ASSUME k + 1 <= n PROVE f[k + 1] = g[k + 1]
    OBVIOUS
  <2>2. PICK j : j = k + 1 /\ j \in 1 .. n /\ j \in 1 .. m /\ j - 1 = k
    BY <1>2, <2>1
  <2>3. f[j] = f[k] \o ss[j] /\ g[j] = g[k] \o tt[j]
    BY <1>4, <1>5, <2>2
  <2>4. f[k] = g[k]
    BY <1>7, <2>1
  <2> QED BY <2>2, <2>3, <2>4
<1>8. Nat \subseteq T
  <2> HIDE DEF T
  <2> QED BY <1>6, <1>7, NumbersByInduction
<1>9. f[n] = g[n] /\ f[n] \in Seq(S)
  BY <1>4, <1>8
<1>10. g[m] = g[n] \o tt[m]
  BY <1>2, <1>5
<1> QED BY <1>1, <1>2, <1>3, <1>9, <1>10
-----------------------------------------------------------------------------
\* A sequence of pieces of which the last one is new.
LEMMA PiecesOfBytes ==
  ASSUME NEW ss \in Seq(Seq(Byte)), NEW tt \in Seq(Seq(Byte)), NEW n \in Nat,
         Len(ss) = n, Len(tt) = n + 1, \A i \in 1 .. n : tt[i] = ss[i]
  PROVE  /\ FlattenSeq(ss) \in Seq(Byte)
         /\ FlattenSeq(tt) = FlattenSeq(ss) \o tt[n + 1]
BY FlattenGrows

LEMMA PiecesOfFrames ==
  ASSUME NEW ss \in Seq(Seq(Seq(Byte))), NEW tt \in Seq(Seq(Seq(Byte))), NEW n \in Nat,
         Len(ss) = n, Len(tt) = n + 1, \A i \in 1 .. n : tt[i] = ss[i]
  PROVE  /\ FlattenSeq(ss) \in Seq(Seq(Byte))
         /\ FlattenSeq(tt) = FlattenSeq(ss) \o tt[n + 1]
BY FlattenGrows

LEMMA NothingToFlatten == FlattenSeq(<<>>) = <<>>
BY DEF FlattenSeq

LEMMA NoPieces ==
  ASSUME NEW e
  PROVE  [i \in DOMAIN <<>> |-> e] = <<>>
OBVIOUS

\* The bytes are told apart.
LEMMA Bytes ==
  /\ FEND \in Byte /\ FESC \in Byte /\ TFEND \in Byte /\ TFESC \in Byte
  /\ KISSDataFrame \in Byte
  /\ FEND # FESC /\ FEND # TFEND /\ FEND # TFESC /\ FEND # KISSDataFrame
  /\ FESC # TFEND /\ FESC # TFESC /\ FESC # KISSDataFrame /\ TFEND # TFESC
BY DEF Byte, FEND, FESC, TFEND, TFESC, KISSDataFrame

\* Sequences of bytes, as the lemmas below use them.
LEMMA MoreBytes ==
  ASSUME NEW s \in Seq(Byte), NEW e \in Byte, NEW n \in Nat, Len(s) = n
  PROVE  /\ Append(s, e) \in Seq(Byte) /\ Append(s, e) # <<>>
         /\ Len(Append(s, e)) = n + 1
         /\ \A i \in 1 .. n : Append(s, e)[i] = s[i]
         /\ Append(s, e)[n + 1] = e
         /\ Append(s, e) = s \o <<e>>
BY AppendProperties, AppendIsConcat

-----------------------------------------------------------------------------
(* Encode.                                                                  *)
Escaped(c) == FlattenSeq([i \in DOMAIN c |-> Escape(c[i])])

LEMMA EscapeIsBytes ==
  ASSUME NEW b \in Byte
  PROVE  /\ Escape(b) \in Seq(Byte)
         /\ b = FEND => Escape(b) = <<FESC, TFEND>>
         /\ b = FESC => Escape(b) = <<FESC, TFESC>>
         /\ b \notin {FEND, FESC} => Escape(b) = <<b>>
<1>1. b = FEND => Escape(b) = <<FESC, TFEND>>
  BY Bytes DEF Escape
<1>2. b = FESC => Escape(b) = <<FESC, TFESC>>
  BY Bytes DEF Escape
<1>3. b \notin {FEND, FESC} => Escape(b) = <<b>>
  BY DEF Escape
<1>4. <<FESC, TFEND>> \in Seq(Byte) /\ <<FESC, TFESC>> \in Seq(Byte) /\ <<b>> \in Seq(Byte)
  BY Bytes
<1> QED BY <1>1, <1>2, <1>3, <1>4

LEMMA EscapedGrows ==
  ASSUME NEW c \in Seq(Byte), NEW e \in Byte
  PROVE  /\ Escaped(<<>>) = <<>>
         /\ Escaped(c) \in Seq(Byte)
         /\ Escaped(Append(c, e)) = Escaped(c) \o Escape(e)
<1> DEFINE P(s) == [i \in DOMAIN s |-> Escape(s[i])]
<1>1. PICK n \in Nat : n = Len(c)
  OBVIOUS
<1>2. ASSUME NEW s \in Seq(Byte), NEW k \in Nat, Len(s) = k
      PROVE  P(s) \in Seq(Seq(Byte)) /\ Len(P(s)) = k /\ \A i \in 1 .. k : P(s)[i] = Escape(s[i])
  <2>1. DOMAIN s = 1 .. k /\ \A i \in 1 .. k : s[i] \in Byte
    BY <1>2
  <2>2. \A i \in 1 .. k : Escape(s[i]) \in Seq(Byte)
    BY <2>1, EscapeIsBytes
  <2> QED BY <2>1, <2>2
<1>3. P(<<>>) = <<>>
  OBVIOUS
<1> HIDE DEF P
<1>d. PICK d : d = Append(c, e)
  OBVIOUS
<1>m. PICK m : m = n + 1 /\ m \in Nat
  OBVIOUS
<1>4. /\ d \in Seq(Byte) /\ Len(d) = m
      /\ d[m] = e /\ \A i \in 1 .. n : d[i] = c[i]
  BY <1>1, <1>d, <1>m, MoreBytes
<1>5. P(c) \in Seq(Seq(Byte)) /\ Len(P(c)) = n /\ \A i \in 1 .. n : P(c)[i] = Escape(c[i])
  BY <1>1, <1>2
<1>6. P(d) \in Seq(Seq(Byte)) /\ Len(P(d)) = m /\ \A i \in 1 .. m : P(d)[i] = Escape(d[i])
  BY <1>2, <1>4, <1>m
<1>7. \A i \in 1 .. n : P(d)[i] = P(c)[i]
  BY <1>4, <1>m, <1>5, <1>6
<1>8. P(d)[m] = Escape(e)
  BY <1>4, <1>6, <1>m
<1>9. /\ FlattenSeq(P(c)) \in Seq(Byte)
      /\ FlattenSeq(P(d)) = FlattenSeq(P(c)) \o P(d)[n + 1]
  BY <1>m, <1>5, <1>6, <1>7, PiecesOfBytes
<1>10. FlattenSeq(P(<<>>)) = <<>>
  BY <1>3, NothingToFlatten
<1> QED BY <1>d, <1>m, <1>8, <1>9, <1>10 DEF P, Escaped
-----------------------------------------------------------------------------
(* DecodeKISSFrame.                                                         *)
LEMMA UnescapedIsBytes ==
  ASSUME NEW s \in Seq(Byte), NEW n \in Nat, Len(s) = n, NEW i \in 1 .. n
  PROVE  Unescaped(s, i) \in Seq(Byte)
<1>1. s[i] \in Byte
  OBVIOUS
<1>2. <<>> \in Seq(Byte) /\ <<s[i]>> \in Seq(Byte) /\ <<FEND>> \in Seq(Byte) /\ <<FESC>> \in Seq(Byte)
  BY <1>1, Bytes
<1>3. \/ Unescaped(s, i) = <<>> \/ Unescaped(s, i) = <<s[i]>>
      \/ Unescaped(s, i) = <<FEND>> \/ Unescaped(s, i) = <<FESC>>
  BY Zenon DEF Unescaped
<1> QED BY <1>2, <1>3

\* The byte that e stands for behind s.
Meant(s, e) ==
  IF e = FESC THEN <<>>
  ELSE IF s # <<>> /\ s[Len(s)] = FESC THEN <<IF e = TFEND THEN FEND ELSE FESC>>
  ELSE <<e>>

LEMMA UnescapeGrows ==
  ASSUME NEW c \in Seq(Byte), NEW e \in Byte
  PROVE  /\ Unescape[<<>>] = <<>>
         /\ Unescape[c] \in Seq(Byte)
         /\ Unescape[Append(c, e)] = Unescape[c] \o Meant(c, e)
<1> DEFINE P(s) == [i \in DOMAIN s |-> Unescaped(s, i)]
<1>0. \A s \in Seq(Byte) : Unescape[s] = FlattenSeq(P(s))
  BY DEF Unescape
<1>1. PICK n \in Nat : n = Len(c)
  OBVIOUS
<1>2. ASSUME NEW s \in Seq(Byte), NEW k \in Nat, Len(s) = k
      PROVE  P(s) \in Seq(Seq(Byte)) /\ Len(P(s)) = k /\ \A i \in 1 .. k : P(s)[i] = Unescaped(s, i)
  <2>1. DOMAIN s = 1 .. k
    BY <1>2
  <2>2. \A i \in 1 .. k : Unescaped(s, i) \in Seq(Byte)
    BY <1>2, UnescapedIsBytes
  <2> QED BY <2>1, <2>2
<1>3. P(<<>>) = <<>>
  OBVIOUS
<1> HIDE DEF P
<1>d. PICK d : d = Append(c, e)
  OBVIOUS
<1>m. PICK m : m = n + 1 /\ m \in Nat /\ m - 1 = n /\ m \in 1 .. m
  OBVIOUS
<1>4. /\ d \in Seq(Byte) /\ Len(d) = m
      /\ d[m] = e /\ \A i \in 1 .. n : d[i] = c[i]
  BY <1>1, <1>d, <1>m, MoreBytes
<1>5. P(c) \in Seq(Seq(Byte)) /\ Len(P(c)) = n /\ \A i \in 1 .. n : P(c)[i] = Unescaped(c, i)
  BY <1>1, <1>2
<1>6. P(d) \in Seq(Seq(Byte)) /\ Len(P(d)) = m /\ \A i \in 1 .. m : P(d)[i] = Unescaped(d, i)
  BY <1>2, <1>4, <1>m
<1>7. ASSUME NEW i \in 1 .. n
      PROVE  P(d)[i] = P(c)[i]
  <2>1. d[i] = c[i] /\ i \in 1 .. m
    BY <1>4, <1>m
  <2>2. i > 1 => d[i - 1] = c[i - 1]
    BY <1>4
  <2>3. Unescaped(d, i) = Unescaped(c, i)
    BY <2>1, <2>2 DEF Unescaped
  <2> QED BY <1>5, <1>6, <2>1, <2>3
<1>8. P(d)[m] = Meant(c, e)
  <2>1. P(d)[m] = Unescaped(d, m)
    BY <1>6, <1>m
  <2>2. (m > 1 /\ d[m - 1] = FESC) <=> (c # <<>> /\ c[Len(c)] = FESC)
    <3>1. c # <<>> <=> n >= 1
      BY <1>1, EmptySeq
    <3>2. n >= 1 => d[n] = c[n]
      BY <1>4
    <3> QED BY <1>1, <1>m, <3>1, <3>2
  <2>3. d[m] = e
    BY <1>4
  <2> QED BY <2>1, <2>2, <2>3 DEF Unescaped, Meant
<1>9. /\ FlattenSeq(P(c)) \in Seq(Byte)
      /\ FlattenSeq(P(d)) = FlattenSeq(P(c)) \o P(d)[n + 1]
  BY <1>m, <1>5, <1>6, <1>7, PiecesOfBytes
<1>10. FlattenSeq(P(<<>>)) = <<>> /\ <<>> \in Seq(Byte)
  BY <1>3, NothingToFlatten
<1> QED BY <1>0, <1>d, <1>m, <1>4, <1>8, <1>9, <1>10

-----------------------------------------------------------------------------
(* DecodeFrames: where the frame begins that has not ended.                 *)
Scans(f, b, n) ==
  /\ f \in [0 .. n -> Nat] /\ f[0] = 0
  /\ \A i \in 1 .. n :
       f[i] = IF b[i] # FEND THEN f[i - 1] ELSE IF f[i - 1] = 0 THEN i ELSE 0

LEMMA StartIdxScans ==
  ASSUME NEW b \in Seq(Byte), NEW n \in Nat, n = Len(b)
  PROVE  \E f : Scans(f, b, n) /\ StartIdx[b] = f[n]
<1> DEFINE Step(f, i) == IF i = 0 THEN 0
                         ELSE IF b[i] # FEND THEN f[i - 1]
                         ELSE IF f[i - 1] = 0 THEN i ELSE 0
           Solves(f) == f = [i \in 0 .. n |-> Step(f, i)]
           start == CHOOSE f : Solves(f)
           g == [k \in 1 .. n |-> [v \in Nat |->
                  IF b[k] # FEND THEN v ELSE IF v = 0 THEN k ELSE 0]]
<1>1. g \in [1 .. n -> [Nat -> Nat]]
  OBVIOUS
<1>2. \A k \in 1 .. n : \A v \in Nat :
        g[k][v] = IF b[k] # FEND THEN v ELSE IF v = 0 THEN k ELSE 0
  OBVIOUS
<1> HIDE DEF g
<1>3. PICK h : Steps(h, Nat, 0, n, g)
  BY <1>1, StepByStep
<1>4. h \in [0 .. n -> Nat] /\ h[0] = 0 /\ \A k \in 1 .. n : h[k] = g[k][h[k - 1]]
  BY <1>3 DEF Steps
<1>5. ASSUME NEW i \in 0 .. n
      PROVE  h[i] = Step(h, i)
  <2>1. CASE i = 0
    BY <1>4, <2>1
  <2>2. CASE i # 0
    <3>1. i \in 1 .. n /\ h[i - 1] \in Nat
      <4>1. i \in 1 .. n /\ i - 1 \in 0 .. n
        BY <2>2
      <4> QED BY <1>4, <4>1
    <3> QED BY <1>2, <1>4, <2>2, <3>1
  <2> QED BY <2>1, <2>2
<1>6. Solves(h)
  <2>1. h = [i \in 0 .. n |-> h[i]]
    BY <1>4
  <2> HIDE DEF Step
  <2> QED BY <1>5, <2>1
<1>7. Solves(start)
  <2> HIDE DEF Solves
  <2> QED BY <1>6
<1>8. StartIdx[b] = start[n]
  BY DEF StartIdx
<1> HIDE DEF start
<1>9. \A i \in 0 .. n : start[i] = Step(start, i)
  <2> HIDE DEF Step
  <2> QED BY <1>7
<1>10. start[0] = 0
  BY <1>9
<1>11. \A i \in 1 .. n :
         start[i] = IF b[i] # FEND THEN start[i - 1] ELSE IF start[i - 1] = 0 THEN i ELSE 0
  BY <1>9
<1> DEFINE T == {k \in Nat : k <= n => start[k] \in Nat}
<1>12. 0 \in T
  BY <1>10
<1>13. ASSUME NEW k \in Nat, k \in T
       PROVE  k + 1 \in T
  BY <1>11, <1>13
<1>14. Nat \subseteq T
  <2> HIDE DEF T
  <2> QED BY <1>12, <1>13, NumbersByInduction
<1>15. start \in [0 .. n -> Nat]
  <2>1. \A i \in 0 .. n : start[i] \in Nat
    BY <1>14
  <2>2. start = [i \in 0 .. n |-> start[i]]
    <3> HIDE DEF Step
    <3> QED BY <1>7
  <2> QED BY <2>1, <2>2
<1> QED BY <1>8, <1>10, <1>11, <1>15 DEF Scans

LEMMA StartIdxGrows ==
  ASSUME NEW c \in Seq(Byte), NEW e \in Byte
  PROVE  /\ StartIdx[<<>>] = 0
         /\ StartIdx[c] \in Nat
         /\ StartIdx[Append(c, e)] =
              IF e # FEND THEN StartIdx[c] ELSE IF StartIdx[c] = 0 THEN Len(c) + 1 ELSE 0
<1>0. StartIdx[<<>>] = 0
  <2>1. <<>> \in Seq(Byte) /\ Len(<<>>) = 0
    OBVIOUS
  <2>2. PICK f : Scans(f, <<>>, 0) /\ StartIdx[<<>>] = f[0]
    BY <2>1, StartIdxScans
  <2> QED BY <2>2 DEF Scans
<1>1. PICK n \in Nat : n = Len(c)
  OBVIOUS
<1>d. PICK d : d = Append(c, e)
  OBVIOUS
<1>m. PICK m : m = n + 1 /\ m \in Nat /\ m - 1 = n /\ m \in 1 .. m
  OBVIOUS
<1>4. /\ d \in Seq(Byte) /\ Len(d) = m
      /\ d[m] = e /\ \A i \in 1 .. n : d[i] = c[i]
  BY <1>1, <1>d, <1>m, MoreBytes
<1>5. PICK f : Scans(f, c, n) /\ StartIdx[c] = f[n]
  BY <1>1, StartIdxScans
<1>6. PICK g : Scans(g, d, m) /\ StartIdx[d] = g[m]
  BY <1>4, <1>m, StartIdxScans
<1> DEFINE T == {k \in Nat : k <= n => f[k] = g[k]}
<1>7. 0 \in T
  BY <1>5, <1>6 DEF Scans
<1>8. ASSUME NEW k \in Nat, k \in T
      PROVE  k + 1 \in T
  <2>1. SUFFICES ASSUME k + 1 <= n PROVE f[k + 1] = g[k + 1]
    OBVIOUS
  <2>2. PICK j : j = k + 1 /\ j \in 1 .. n /\ j \in 1 .. m /\ j - 1 = k
    BY <1>m, <2>1
  <2>3. f[k] = g[k] /\ d[j] = c[j]
    BY <1>4, <1>8, <2>1, <2>2
  <2>4. /\ f[j] = IF c[j] # FEND THEN f[k] ELSE IF f[k] = 0 THEN j ELSE 0
        /\ g[j] = IF d[j] # FEND THEN g[k] ELSE IF g[k] = 0 THEN j ELSE 0
    BY <1>5, <1>6, <2>2 DEF Scans
  <2> QED BY <2>2, <2>3, <2>4
<1>9. Nat \subseteq T
  <2> HIDE DEF T
  <2> QED BY <1>7, <1>8, NumbersByInduction
<1>10. f[n] = g[n] /\ f[n] \in Nat
  BY <1>5, <1>9 DEF Scans
<1>11. g[m] = IF e # FEND THEN g[n] ELSE IF g[n] = 0 THEN m ELSE 0
  BY <1>4, <1>6, <1>m DEF Scans
<1> QED BY <1>0, <1>1, <1>d, <1>m, <1>5, <1>6, <1>10, <1>11

\* A part of a sequence depends on that part only.
LEMMA SamePart ==
  ASSUME NEW c \in Seq(Byte), NEW d \in Seq(Byte), NEW lo \in Nat \ {0}, NEW hi \in Nat,
         hi <= Len(c), hi <= Len(d), \A i \in 1 .. hi : d[i] = c[i]
  PROVE  SubSeq(c, lo, hi) \in Seq(Byte) /\ SubSeq(d, lo, hi) = SubSeq(c, lo, hi)
<1>1. \A i \in lo .. hi : c[i] \in Byte /\ d[i] \in Byte /\ d[i] = c[i]
  OBVIOUS
<1>2. /\ SubSeq(c, lo, hi) \in Seq(Byte)
      /\ Len(SubSeq(c, lo, hi)) = IF lo <= hi THEN hi - lo + 1 ELSE 0
      /\ \A i \in 1 .. hi - lo + 1 : SubSeq(c, lo, hi)[i] = c[lo + i - 1]
  BY <1>1, SubSeqProperties
<1>3. /\ SubSeq(d, lo, hi) \in Seq(Byte)
      /\ Len(SubSeq(d, lo, hi)) = IF lo <= hi THEN hi - lo + 1 ELSE 0
      /\ \A i \in 1 .. hi - lo + 1 : SubSeq(d, lo, hi)[i] = d[lo + i - 1]
  BY <1>1, SubSeqProperties
<1>4. CASE lo <= hi
  <2>1. \A i \in 1 .. hi - lo + 1 : lo + i - 1 \in lo .. hi
    BY <1>4
  <2>2. \A i \in 1 .. hi - lo + 1 : SubSeq(d, lo, hi)[i] = SubSeq(c, lo, hi)[i]
    BY <1>1, <1>2, <1>3, <2>1
  <2>3. Len(SubSeq(c, lo, hi)) = hi - lo + 1 /\ Len(SubSeq(d, lo, hi)) = hi - lo + 1
    BY <1>2, <1>3, <1>4
  <2> QED BY <1>2, <1>3, <2>2, <2>3, SeqEqual
<1>5. CASE ~(lo <= hi)
  BY <1>2, <1>5, SubSeqEmpty
<1> QED BY <1>4, <1>5

\* A frame begins with a FEND of the stream.
LEMMA StartWithin ==
  ASSUME NEW b \in Seq(Byte)
  PROVE  StartIdx[b] \in 0 .. Len(b)
<1> DEFINE T == {s \in Seq(Byte) : StartIdx[s] \in 0 .. Len(s)}
<1>1. <<>> \in T
  BY Bytes, StartIdxGrows
<1>2. ASSUME NEW s \in Seq(Byte), NEW e \in Byte, s \in T
      PROVE  Append(s, e) \in T
  <2>1. Len(Append(s, e)) = Len(s) + 1 /\ Append(s, e) \in Seq(Byte)
    BY MoreBytes
  <2>2. StartIdx[Append(s, e)] =
          IF e # FEND THEN StartIdx[s] ELSE IF StartIdx[s] = 0 THEN Len(s) + 1 ELSE 0
    BY StartIdxGrows
  <2> QED BY <1>2, <2>1, <2>2
<1>3. Seq(Byte) \subseteq T
  <2> HIDE DEF T
  <2> QED BY <1>1, <1>2, SequencesByInduction
<1> QED BY <1>3

LEMMA RestGrows ==
  ASSUME NEW c \in Seq(Byte), NEW e \in Byte
  PROVE  /\ Rest(<<>>) = <<>>
         /\ Rest(c) \in Seq(Byte)
         /\ Rest(c) = <<>> <=> StartIdx[c] = 0
         /\ Rest(Append(c, e)) =
              IF (Rest(c) = <<>>) <=> (e = FEND) THEN Append(Rest(c), e) ELSE <<>>
<1>0. Rest(<<>>) = <<>>
  BY Bytes, StartIdxGrows DEF Rest
<1>1. PICK n \in Nat : n = Len(c)
  OBVIOUS
<1>d. PICK d : d = Append(c, e)
  OBVIOUS
<1>m. PICK m : m = n + 1 /\ m \in Nat /\ m - 1 = n /\ m \in 1 .. m
  OBVIOUS
<1>4. /\ d \in Seq(Byte) /\ Len(d) = m
      /\ d[m] = e /\ \A i \in 1 .. n : d[i] = c[i]
  BY <1>1, <1>d, <1>m, MoreBytes
<1>5. PICK k \in 0 .. n : k = StartIdx[c]
  BY <1>1, StartWithin
<1>6. StartIdx[d] = IF e # FEND THEN k ELSE IF k = 0 THEN m ELSE 0
  BY <1>1, <1>d, <1>m, <1>5, StartIdxGrows
<1>7. ASSUME k # 0
      PROVE  /\ Rest(c) = SubSeq(c, k, n) /\ Rest(c) \in Seq(Byte)
             /\ Rest(c) # <<>>
             /\ SubSeq(d, k, m) = Append(Rest(c), e)
  <2>1. Rest(c) = SubSeq(c, k, n)
    BY <1>1, <1>5, <1>7 DEF Rest
  <2>2. k \in Nat \ {0} /\ k \in 1 .. m /\ m \in k .. m /\ k <= n /\ n <= m /\ n <= n
    BY <1>m, <1>7
  <2>3. SubSeq(c, k, n) \in Seq(Byte) /\ SubSeq(d, k, n) = SubSeq(c, k, n)
    BY <1>1, <1>4, <2>2, SamePart
  <2>4. SubSeq(d, k, m) = SubSeq(d, k, m - 1) \o <<d[m]>>
    BY <1>4, <2>2, SubSeqRecursiveSecond
  <2>5. SubSeq(d, k, m) = SubSeq(c, k, n) \o <<e>>
    BY <1>m, <1>4, <2>3, <2>4
  <2>6. SubSeq(c, k, n) \o <<e>> = Append(SubSeq(c, k, n), e)
    BY <2>3, MoreBytes
  <2>7. Len(SubSeq(c, k, n)) = n - k + 1
    <3>1. \A i \in k .. n : c[i] \in Byte
      BY <1>1, <2>2
    <3> QED BY <2>2, <3>1, SubSeqProperties
  <2>8. SubSeq(c, k, n) # <<>>
    <3>1. n - k + 1 # 0
      BY <2>2
    <3>2. Len(<<>>) = 0
      OBVIOUS
    <3> QED BY Zenon, <2>7, <3>1, <3>2
  <2> QED BY <2>1, <2>3, <2>5, <2>6, <2>8
<1>8. k = 0 => Rest(c) = <<>>
  BY <1>5 DEF Rest
<1>9. SubSeq(d, m, m) = <<e>>
  <2>1. m \in 1 .. Len(d) /\ m \in m .. Len(d)
    BY <1>4, <1>m
  <2>2. SubSeq(d, m, m) = SubSeq(d, m, m - 1) \o <<d[m]>>
    BY <1>4, <2>1, SubSeqRecursiveSecond
  <2>3. SubSeq(d, m, m - 1) = <<>>
    BY <1>m, SubSeqEmpty
  <2>4. <<d[m]>> \in Seq(Byte)
    BY <1>4
  <2>5. <<>> \o <<d[m]>> = <<d[m]>>
    BY <2>4, ConcatEmptySeq
  <2> QED BY <1>4, <2>2, <2>3, <2>5
<1>10. Append(<<>>, e) = <<e>>
  OBVIOUS
<1>11. Rest(d) = IF StartIdx[d] = 0 THEN <<>> ELSE SubSeq(d, StartIdx[d], m)
  BY <1>4 DEF Rest
<1>12. Rest(d) = IF (Rest(c) = <<>>) <=> (e = FEND) THEN Append(Rest(c), e) ELSE <<>>
  <2>1. CASE e = FEND /\ k = 0
    <3>1. Rest(d) = SubSeq(d, m, m)
      BY <1>m, <1>6, <1>11, <2>1
    <3> QED BY <1>8, <1>9, <1>10, <2>1, <3>1
  <2>2. CASE e = FEND /\ k # 0
    BY <1>6, <1>7, <1>11, <2>2
  <2>3. CASE e # FEND /\ k = 0
    BY <1>6, <1>8, <1>11, <2>3
  <2>4. CASE e # FEND /\ k # 0
    <3>1. Rest(d) = SubSeq(d, k, m)
      BY <1>6, <1>11, <2>4
    <3> QED BY <1>7, <2>4, <3>1
  <2> QED BY <2>1, <2>2, <2>3, <2>4
<1>13. Rest(c) \in Seq(Byte) /\ (Rest(c) = <<>> <=> k = 0)
  BY <1>7, <1>8, EmptySeq
<1> QED BY <1>0, <1>d, <1>5, <1>12, <1>13

\* DecodeKISSFrame returns one frame of bytes, or none.
LEMMA KissFrameIsBytes ==
  ASSUME NEW data \in Seq(Byte)
  PROVE  DecodeKISSFrame[data] \in Seq(Seq(Byte))
<1> DEFINE Good == /\ data # <<>> /\ ValidEscapes(data)
                   /\ Unescape[data][1] \in {KISSDataFrame, FEND}
<1>1. DecodeKISSFrame[data] = IF Good THEN <<Tail(Unescape[data])>> ELSE <<>>
  BY DEF DecodeKISSFrame
<1>2. CASE Good
  <2>1. PICK c \in Seq(Byte), e \in Byte : data = Append(c, e)
    BY <1>2, SequenceEmptyOrAppend
  <2>2. PICK n \in Nat : n = Len(c)
    OBVIOUS
  <2>3. Len(data) = n + 1 /\ data[n + 1] = e /\ n + 1 \in DOMAIN data
    BY <2>1, <2>2, MoreBytes
  <2>4. e # FESC
    BY <1>2, <2>2, <2>3 DEF ValidEscapes
  <2>5. /\ Unescape[c] \in Seq(Byte) /\ Unescape[data] \in Seq(Byte)
        /\ Unescape[data] = Unescape[c] \o Meant(c, e)
    BY <2>1, UnescapeGrows
  <2>6. Meant(c, e) = <<e>> \/ Meant(c, e) = <<FEND>> \/ Meant(c, e) = <<FESC>>
    BY Zenon, <2>4 DEF Meant
  <2>7. PICK x \in Byte : Unescape[data] = Unescape[c] \o <<x>>
    BY <2>5, <2>6, Bytes
  <2>8. Unescape[c] \o <<x>> = Append(Unescape[c], x) /\ Append(Unescape[c], x) # <<>>
    <3>1. \A u \in Seq(Byte) : u \o <<x>> = Append(u, x) /\ Append(u, x) # <<>>
      BY AppendProperties, AppendIsConcat
    <3> QED BY <2>5, <3>1
  <2>9. Tail(Unescape[data]) \in Seq(Byte)
    BY <2>5, <2>7, <2>8, HeadTailProperties
  <2>10. <<Tail(Unescape[data])>> \in Seq(Seq(Byte))
    BY <2>9
  <2> QED BY <1>1, <1>2, <2>10
<1>3. CASE ~Good
  BY <1>1, <1>3
<1> QED BY <1>2, <1>3

\* The frame that byte e ends behind rest.
Completed(rest, e) ==
  IF e = FEND /\ rest # <<>> THEN DecodeKISSFrame[Tail(rest)] ELSE <<>>

LEMMA EndedIsFrames ==
  ASSUME NEW s \in Seq(Byte), NEW n \in Nat, Len(s) = n, NEW i \in 1 .. n
  PROVE  Ended(s, i) \in Seq(Seq(Byte))
<1>1. PICK j : j = i - 1 /\ j \in Nat /\ j <= n
  OBVIOUS
<1>2. SubSeq(s, 1, j) \in Seq(Byte)
  BY <1>1, SamePart
<1>3. PICK k \in Nat : k = StartIdx[SubSeq(s, 1, j)]
  BY <1>2, Bytes, StartIdxGrows
<1>4. SubSeq(s, k + 1, j) \in Seq(Byte)
  <2>1. k + 1 \in Nat \ {0}
    OBVIOUS
  <2> QED BY <1>1, <2>1, SamePart
<1>5. DecodeKISSFrame[SubSeq(s, k + 1, j)] \in Seq(Seq(Byte)) /\ <<>> \in Seq(Seq(Byte))
  <2>1. \A u \in Seq(Byte) : DecodeKISSFrame[u] \in Seq(Seq(Byte))
    BY KissFrameIsBytes
  <2>2. <<>> \in Seq(Seq(Byte))
    OBVIOUS
  <2> QED BY Zenon, <1>4, <2>1, <2>2
<1>6. Ended(s, i) = DecodeKISSFrame[SubSeq(s, k + 1, j)] \/ Ended(s, i) = <<>>
  BY <1>1, <1>3 DEF Ended
<1> QED BY <1>5, <1>6

LEMMA DecodeGrows ==
  ASSUME NEW c \in Seq(Byte), NEW e \in Byte
  PROVE  /\ DecodeFrames[<<>>] = <<>>
         /\ DecodeFrames[c] \in Seq(Seq(Byte))
         /\ DecodeFrames[Append(c, e)] = DecodeFrames[c] \o Completed(Rest(c), e)
<1> DEFINE P(s) == [i \in DOMAIN s |-> Ended(s, i)]
<1>0. \A s \in Seq(Byte) : DecodeFrames[s] = FlattenSeq(P(s))
  BY DEF DecodeFrames
<1>1. PICK n \in Nat : n = Len(c)
  OBVIOUS
<1>2. ASSUME NEW s \in Seq(Byte), NEW k \in Nat, Len(s) = k
      PROVE  P(s) \in Seq(Seq(Seq(Byte))) /\ Len(P(s)) = k /\ \A i \in 1 .. k : P(s)[i] = Ended(s, i)
  <2>1. DOMAIN s = 1 .. k
    BY <1>2
  <2>2. \A i \in 1 .. k : Ended(s, i) \in Seq(Seq(Byte))
    BY <1>2, EndedIsFrames
  <2> QED BY <2>1, <2>2
<1>3. P(<<>>) = <<>>
  OBVIOUS
<1> HIDE DEF P
<1>d. PICK d : d = Append(c, e)
  OBVIOUS
<1>m. PICK m : m = n + 1 /\ m \in Nat /\ m - 1 = n /\ m \in 1 .. m
  OBVIOUS
<1>4. /\ d \in Seq(Byte) /\ Len(d) = m
      /\ d[m] = e /\ \A i \in 1 .. n : d[i] = c[i]
  BY <1>1, <1>d, <1>m, MoreBytes
<1>5. P(c) \in Seq(Seq(Seq(Byte))) /\ Len(P(c)) = n /\ \A i \in 1 .. n : P(c)[i] = Ended(c, i)
  BY <1>1, <1>2
<1>6. P(d) \in Seq(Seq(Seq(Byte))) /\ Len(P(d)) = m /\ \A i \in 1 .. m : P(d)[i] = Ended(d, i)
  BY <1>2, <1>4, <1>m
<1>x. ASSUME NEW lo \in Nat \ {0}, NEW hi \in Nat, hi <= n
      PROVE  SubSeq(c, lo, hi) \in Seq(Byte) /\ SubSeq(d, lo, hi) = SubSeq(c, lo, hi)
  <2>1. hi <= Len(c) /\ hi <= Len(d) /\ \A i \in 1 .. hi : d[i] = c[i]
    BY <1>1, <1>m, <1>4, <1>x
  <2> QED BY <1>4, <2>1, SamePart
<1>7. ASSUME NEW i \in 1 .. n
      PROVE  P(d)[i] = P(c)[i]
  <2>1. d[i] = c[i] /\ i \in 1 .. m
    BY <1>4, <1>m
  <2>2. PICK j : j = i - 1 /\ j \in Nat /\ j <= n
    OBVIOUS
  <2>3. SubSeq(c, 1, j) \in Seq(Byte) /\ SubSeq(d, 1, j) = SubSeq(c, 1, j)
    <3>1. 1 \in Nat \ {0}
      OBVIOUS
    <3> QED BY <1>x, <2>2, <3>1
  <2>4. PICK k \in Nat : k = StartIdx[SubSeq(c, 1, j)]
    BY <2>3, Bytes, StartIdxGrows
  <2>5. SubSeq(d, k + 1, j) = SubSeq(c, k + 1, j)
    <3>1. k + 1 \in Nat \ {0}
      OBVIOUS
    <3> QED BY <1>x, <2>2, <3>1
  <2>6. Ended(c, i) = IF c[i] = FEND /\ k # 0 THEN DecodeKISSFrame[SubSeq(c, k + 1, j)] ELSE <<>>
    BY <2>2, <2>4 DEF Ended
  <2>7. Ended(d, i) = IF d[i] = FEND /\ k # 0 THEN DecodeKISSFrame[SubSeq(d, k + 1, j)] ELSE <<>>
    BY <2>2, <2>3, <2>4 DEF Ended
  <2>8. Ended(d, i) = Ended(c, i)
    <3>1. CASE c[i] = FEND /\ k # 0
      BY Zenon, <2>1, <2>5, <2>6, <2>7, <3>1
    <3>2. CASE ~(c[i] = FEND /\ k # 0)
      BY Zenon, <2>1, <2>6, <2>7, <3>2
    <3> QED BY <3>1, <3>2
  <2> QED BY <1>5, <1>6, <2>1, <2>8
<1>8. P(d)[m] = Completed(Rest(c), e)
  <2>1. P(d)[m] = Ended(d, m)
    BY <1>6, <1>m
  <2>2. SubSeq(d, 1, n) = c
    <3>1. SubSeq(d, 1, n) = SubSeq(c, 1, n)
      <4>1. 1 \in Nat \ {0} /\ n \in Nat /\ n <= n
        OBVIOUS
      <4> QED BY <1>x, <4>1
    <3> QED BY <1>1, <3>1, SubSeqFull
  <2>3. PICK k \in 0 .. n : k = StartIdx[c]
    BY <1>1, StartWithin
  <2>4. Ended(d, m) = IF e = FEND /\ k # 0 THEN DecodeKISSFrame[SubSeq(d, k + 1, n)] ELSE <<>>
    BY <1>m, <1>4, <2>2, <2>3 DEF Ended
  <2>5. Rest(c) = <<>> <=> k = 0
    BY <2>3, RestGrows
  <2>6. ASSUME k # 0
        PROVE  SubSeq(d, k + 1, n) = Tail(Rest(c))
    <3>1. SubSeq(d, k + 1, n) = SubSeq(c, k + 1, n)
      <4>1. k + 1 \in Nat \ {0} /\ n \in Nat /\ n <= n
        BY <2>3
      <4> QED BY <1>x, <4>1
    <3>2. Rest(c) = SubSeq(c, k, n)
      BY <1>1, <2>3, <2>6 DEF Rest
    <3>3. k \in 1 .. Len(c) /\ n \in k .. Len(c)
      BY <1>1, <2>3, <2>6
    <3>4. Tail(SubSeq(c, k, n)) = SubSeq(c, k + 1, n)
      BY <3>3, HeadTailOfSubSeq
    <3> QED BY <3>1, <3>2, <3>4
  <2>7. CASE e = FEND /\ k # 0
    <3>1. Ended(d, m) = DecodeKISSFrame[Tail(Rest(c))]
      BY <2>4, <2>6, <2>7
    <3>2. Completed(Rest(c), e) = DecodeKISSFrame[Tail(Rest(c))]
      BY <2>5, <2>7 DEF Completed
    <3> QED BY <2>1, <3>1, <3>2
  <2>8. CASE ~(e = FEND /\ k # 0)
    <3>1. Ended(d, m) = <<>>
      BY <2>4, <2>8
    <3>2. Completed(Rest(c), e) = <<>>
      BY <2>5, <2>8 DEF Completed
    <3> QED BY <2>1, <3>1, <3>2
  <2> QED BY <2>7, <2>8
<1>9. /\ FlattenSeq(P(c)) \in Seq(Seq(Byte))
      /\ FlattenSeq(P(d)) = FlattenSeq(P(c)) \o P(d)[n + 1]
  BY <1>m, <1>5, <1>6, <1>7, PiecesOfFrames
<1>10. FlattenSeq(P(<<>>)) = <<>> /\ <<>> \in Seq(Byte)
  BY <1>3, NothingToFlatten
<1> QED BY <1>0, <1>d, <1>m, <1>4, <1>8, <1>9, <1>10

-----------------------------------------------------------------------------
(* However the stream is cut: what has been read up to the cut is decoded   *)
(* and its rest kept, and the rest and what follows it decode to what       *)
(* follows.                                                                 *)

\* The joining of sequences of bytes, and of frames.
LEMMA JoinedBytes ==
  ASSUME NEW s \in Seq(Byte), NEW t \in Seq(Byte), NEW u \in Seq(Byte)
  PROVE  /\ s \o t \in Seq(Byte) /\ (s \o t) \o u = s \o (t \o u)
         /\ s \o <<>> = s /\ <<>> \o s = s
BY ConcatProperties, ConcatAssociative, ConcatEmptySeq

LEMMA JoinedFrames ==
  ASSUME NEW s \in Seq(Seq(Byte)), NEW t \in Seq(Seq(Byte)), NEW u \in Seq(Seq(Byte))
  PROVE  /\ s \o t \in Seq(Seq(Byte)) /\ (s \o t) \o u = s \o (t \o u)
         /\ s \o <<>> = s /\ <<>> \o s = s
BY ConcatProperties, ConcatAssociative, ConcatEmptySeq

LEMMA BytesJoin == \A f, g \in Seq(Byte) : f \o g \in Seq(Byte)
BY ConcatProperties

LEMMA BytesAssociate ==
  \A f, g, h \in Seq(Byte) : (f \o g) \o h = f \o (g \o h)
BY Z3, ConcatAssociative

LEMMA FramesAssociate ==
  \A f, g, h \in Seq(Seq(Byte)) : (f \o g) \o h = f \o (g \o h)
BY Z3, ConcatAssociative

LEMMA JoinedAppend ==
  ASSUME NEW s \in Seq(Byte), NEW t \in Seq(Byte), NEW e \in Byte
  PROVE  s \o Append(t, e) = Append(s \o t, e)
<1>1. <<e>> \in Seq(Byte)
  OBVIOUS
<1>2. Append(t, e) = t \o <<e>>
  BY MoreBytes
<1>3. s \o t \in Seq(Byte) /\ (s \o t) \o <<e>> = s \o (t \o <<e>>)
  BY <1>1, JoinedBytes
<1>4. Append(s \o t, e) = (s \o t) \o <<e>>
  BY <1>3, MoreBytes
<1> QED BY <1>2, <1>3, <1>4

LEMMA TwoBytes ==
  ASSUME NEW y \in Byte, NEW z \in Byte
  PROVE  <<y>> \o <<z>> = <<y, z>>
<1> DEFINE p == <<y>>
           q == <<z>>
           w == <<y, z>>
<1>1. p \in Seq(Byte) /\ Len(p) = 1 /\ p[1] = y
  OBVIOUS
<1>2. q \in Seq(Byte) /\ Len(q) = 1 /\ q[1] = z
  OBVIOUS
<1>3. w \in Seq(Byte) /\ Len(w) = 2 /\ w[1] = y /\ w[2] = z
  OBVIOUS
<1> HIDE DEF p, q, w
<1>4. /\ p \o q \in Seq(Byte) /\ Len(p \o q) = 2
      /\ (p \o q)[1] = y /\ (p \o q)[2] = z
  <2>1. /\ p \o q \in Seq(Byte) /\ Len(p \o q) = Len(p) + Len(q)
        /\ \A i \in 1 .. Len(p) + Len(q) : (p \o q)[i] = IF i <= Len(p) THEN p[i] ELSE q[i - Len(p)]
    BY <1>1, <1>2, ConcatProperties
  <2>2. \A i \in 1 .. 2 : (p \o q)[i] = IF i <= 1 THEN p[i] ELSE q[i - 1]
    BY <1>1, <1>2, <2>1
  <2> QED BY <1>1, <1>2, <2>1, <2>2
<1>5. \A i \in 1 .. 2 : (p \o q)[i] = w[i]
  BY <1>3, <1>4
<1>6. p \o q = w
  BY <1>3, <1>4, <1>5, SeqEqual
<1> QED BY Zenon, <1>6 DEF p, q, w

LEMMA CompletedIsFrames ==
  ASSUME NEW r \in Seq(Byte), NEW e \in Byte
  PROVE  Completed(r, e) \in Seq(Seq(Byte))
<1>1. CASE r = <<>>
  BY <1>1 DEF Completed
<1>2. CASE r # <<>>
  <2>1. Tail(r) \in Seq(Byte)
    BY <1>2, HeadTailProperties
  <2>2. DecodeKISSFrame[Tail(r)] \in Seq(Seq(Byte)) /\ <<>> \in Seq(Seq(Byte))
    <3>1. \A u \in Seq(Byte) : DecodeKISSFrame[u] \in Seq(Seq(Byte))
      BY KissFrameIsBytes
    <3>2. <<>> \in Seq(Seq(Byte))
      OBVIOUS
    <3> QED BY Zenon, <2>1, <3>1, <3>2
  <2>3. Completed(r, e) = DecodeKISSFrame[Tail(r)] \/ Completed(r, e) = <<>>
    BY DEF Completed
  <2> QED BY Zenon, <2>2, <2>3
<1> QED BY <1>1, <1>2

\* What is kept of a stream begins with a FEND and has no other, and to scan
\* it again changes nothing.
LEMMA RestIsBeginning ==
  ASSUME NEW b \in Seq(Byte)
  PROVE  /\ Rest(b) \in Seq(Byte)
         /\ \A i \in DOMAIN Rest(b) : Rest(b)[i] = FEND <=> i = 1
         /\ Rest(Rest(b)) = Rest(b)
         /\ DecodeFrames[Rest(b)] = <<>>
<1> DEFINE Begins(r) == \A i \in DOMAIN r : r[i] = FEND <=> i = 1
           Keeps(r) == r \in Seq(Byte) /\ Begins(r) /\ Rest(r) = r /\ DecodeFrames[r] = <<>>
           T == {s \in Seq(Byte) : Keeps(Rest(s))}
<1>1. Keeps(<<>>)
  <2>1. Rest(<<>>) = <<>> /\ DecodeFrames[<<>>] = <<>>
    BY Bytes, RestGrows, DecodeGrows
  <2> QED BY <2>1
<1>2. <<>> \in T
  <2>1. Rest(<<>>) = <<>>
    BY Bytes, RestGrows
  <2> HIDE DEF Keeps
  <2> QED BY <1>1, <2>1
<1>3. ASSUME NEW s \in Seq(Byte), NEW e \in Byte, s \in T
      PROVE  Append(s, e) \in T
  <2>1. PICK r : r = Rest(s)
    OBVIOUS
  <2>2. Keeps(r) /\ r \in Seq(Byte) /\ Begins(r) /\ Rest(r) = r /\ DecodeFrames[r] = <<>>
    BY <1>3, <2>1
  <2>3. Append(s, e) \in Seq(Byte)
    BY MoreBytes
  <2>4. Rest(Append(s, e)) = IF (r = <<>>) <=> (e = FEND) THEN Append(r, e) ELSE <<>>
    BY <2>1, RestGrows
  <2>5. CASE ~((r = <<>>) <=> (e = FEND))
    <3>1. Rest(Append(s, e)) = <<>>
      BY <2>4, <2>5
    <3> HIDE DEF Keeps
    <3> QED BY <1>1, <2>3, <3>1
  <2>6. CASE (r = <<>>) <=> (e = FEND)
    <3>1. Rest(Append(s, e)) = Append(r, e)
      BY <2>4, <2>6
    <3>2. PICK n \in Nat : n = Len(r)
      BY <2>2
    <3>3. /\ Append(r, e) \in Seq(Byte) /\ Len(Append(r, e)) = n + 1
          /\ Append(r, e)[n + 1] = e /\ \A i \in 1 .. n : Append(r, e)[i] = r[i]
      BY <2>2, <3>2, MoreBytes
    <3>4. r = <<>> <=> n = 0
      BY <2>2, <3>2, EmptySeq
    <3>5. Begins(Append(r, e))
      <4>1. SUFFICES ASSUME NEW i \in 1 .. n + 1
                     PROVE  Append(r, e)[i] = FEND <=> i = 1
        BY <3>3
      <4>2. CASE i = n + 1
        BY <2>6, <3>3, <3>4, <4>2
      <4>3. CASE i # n + 1
        <5>1. i \in 1 .. n /\ i \in DOMAIN r
          BY <2>2, <3>2, <4>3
        <5> QED BY <2>2, <3>3, <5>1
      <4> QED BY <4>2, <4>3
    <3>6. Rest(Append(r, e)) = Append(r, e)
      <4>1. Rest(Append(r, e)) =
              IF (Rest(r) = <<>>) <=> (e = FEND) THEN Append(Rest(r), e) ELSE <<>>
        BY <2>2, RestGrows
      <4> QED BY <2>2, <2>6, <4>1
    <3>7. DecodeFrames[Append(r, e)] = <<>>
      <4>1. DecodeFrames[Append(r, e)] = DecodeFrames[r] \o Completed(Rest(r), e)
        BY <2>2, DecodeGrows
      <4>2. Completed(Rest(r), e) = <<>>
        BY <2>2, <2>6 DEF Completed
      <4>3. <<>> \o <<>> = <<>>
        OBVIOUS
      <4> QED BY <2>2, <4>1, <4>2, <4>3
    <3> QED BY <2>3, <3>1, <3>3, <3>5, <3>6, <3>7
  <2> QED BY <2>5, <2>6
<1>4. Seq(Byte) \subseteq T
  <2> HIDE DEF T
  <2> QED BY <1>2, <1>3, SequencesByInduction
<1> QED BY <1>4

\* Wherever TCP cuts the stream into reads, DecodeFrames, called once for each
\* with what it has kept of those before, returns the frames of the whole.
THEOREM CutAnywhere ==
  ASSUME NEW a \in Seq(Byte), NEW c \in Seq(Byte)
  PROVE  /\ Rest(a \o c) = Rest(Rest(a) \o c)
         /\ DecodeFrames[a \o c] = DecodeFrames[a] \o DecodeFrames[Rest(a) \o c]
<1>1. PICK r : r = Rest(a)
  OBVIOUS
<1>2. r \in Seq(Byte) /\ Rest(r) = r /\ DecodeFrames[r] = <<>>
  BY <1>1, RestIsBeginning
<1>3. PICK F : F = DecodeFrames[a] /\ F \in Seq(Seq(Byte))
  BY Bytes, DecodeGrows
<1> DEFINE Cut(s) == /\ Rest(a \o s) = Rest(r \o s)
                     /\ DecodeFrames[a \o s] = F \o DecodeFrames[r \o s]
           T == {s \in Seq(Byte) : Cut(s)}
<1>4. <<>> \in T
  <2>1. a \o <<>> = a /\ r \o <<>> = r /\ F \o <<>> = F
    BY <1>2, <1>3, JoinedBytes, JoinedFrames
  <2>2. Rest(a \o <<>>) = Rest(r \o <<>>)
    BY Zenon, <1>1, <1>2, <2>1
  <2>3. DecodeFrames[a \o <<>>] = F \o DecodeFrames[r \o <<>>]
    BY Zenon, <1>2, <1>3, <2>1
  <2>4. <<>> \in Seq(Byte)
    OBVIOUS
  <2> QED BY Zenon, <2>2, <2>3, <2>4
<1>5. ASSUME NEW s \in Seq(Byte), NEW e \in Byte, s \in T
      PROVE  Append(s, e) \in T
  <2>1. Append(s, e) \in Seq(Byte)
    BY MoreBytes
  <2>2. PICK x : x = a \o s /\ x \in Seq(Byte)
    BY JoinedBytes
  <2>3. PICK y : y = r \o s /\ y \in Seq(Byte)
    BY <1>2, JoinedBytes
  <2>4. a \o Append(s, e) = Append(x, e) /\ r \o Append(s, e) = Append(y, e)
    BY <1>2, <2>2, <2>3, JoinedAppend
  <2>5. Rest(x) = Rest(y) /\ DecodeFrames[x] = F \o DecodeFrames[y]
    BY <1>5, <2>2, <2>3
  <2>6. Rest(Append(x, e)) = Rest(Append(y, e))
    <3>1. /\ Rest(Append(x, e)) = IF (Rest(x) = <<>>) <=> (e = FEND) THEN Append(Rest(x), e) ELSE <<>>
          /\ Rest(Append(y, e)) = IF (Rest(y) = <<>>) <=> (e = FEND) THEN Append(Rest(y), e) ELSE <<>>
      BY <2>2, <2>3, RestGrows
    <3> QED BY <2>5, <3>1
  <2>7. PICK C : C = Completed(Rest(y), e)
    OBVIOUS
  <2>8. /\ DecodeFrames[Append(x, e)] = DecodeFrames[x] \o C
        /\ DecodeFrames[Append(y, e)] = DecodeFrames[y] \o C
        /\ DecodeFrames[y] \in Seq(Seq(Byte))
    <3>1. /\ DecodeFrames[Append(x, e)] = DecodeFrames[x] \o Completed(Rest(x), e)
          /\ DecodeFrames[Append(y, e)] = DecodeFrames[y] \o Completed(Rest(y), e)
          /\ DecodeFrames[y] \in Seq(Seq(Byte))
      BY <2>2, <2>3, DecodeGrows
    <3> QED BY <2>5, <2>7, <3>1
  <2>9. C \in Seq(Seq(Byte))
    <3>1. Rest(y) \in Seq(Byte)
      BY <2>3, RestIsBeginning
    <3> QED BY <2>7, <3>1, CompletedIsFrames
  <2>10. (F \o DecodeFrames[y]) \o C = F \o (DecodeFrames[y] \o C)
    <3>1. PICK G : G = DecodeFrames[y] /\ G \in Seq(Seq(Byte))
      BY <2>8
    <3>2. (F \o G) \o C = F \o (G \o C)
      <4>1. F \in Seq(Seq(Byte)) /\ G \in Seq(Seq(Byte)) /\ C \in Seq(Seq(Byte))
        BY <1>3, <2>9, <3>1
      <4> QED BY <4>1, FramesAssociate
    <3> QED BY Zenon, <3>1, <3>2
  <2>11. DecodeFrames[Append(x, e)] = F \o DecodeFrames[Append(y, e)]
    BY <2>5, <2>8, <2>10
  <2> QED BY <2>1, <2>4, <2>6, <2>11
<1>6. Seq(Byte) \subseteq T
  <2> HIDE DEF T
  <2> QED BY <1>4, <1>5, SequencesByInduction
<1> QED BY <1>1, <1>3, <1>6

-----------------------------------------------------------------------------
(* What Encode makes of a frame, DecodeFrames makes into the frame again.   *)

\* Escaped bytes hold no FEND and only whole escapes, and stand for the bytes.
LEMMA EscapedIsRead ==
  ASSUME NEW c \in Seq(Byte)
  PROVE  /\ Escaped(c) \in Seq(Byte \ {FEND})
         /\ ValidEscapes(Escaped(c))
         /\ Unescape[Escaped(c)] = c
<1> DEFINE Ok(s, t) == s \in Seq(Byte \ {FEND}) /\ ValidEscapes(s) /\ Unescape[s] = t
           T == {t \in Seq(Byte) : Ok(Escaped(t), t)}
<1>1. <<>> \in T
  <2>1. Escaped(<<>>) = <<>> /\ Unescape[<<>>] = <<>>
    BY Bytes, EscapedGrows, UnescapeGrows
  <2>2. ValidEscapes(<<>>)
    BY DEF ValidEscapes
  <2>3. <<>> \in Seq(Byte) /\ <<>> \in Seq(Byte \ {FEND})
    OBVIOUS
  <2> QED BY Zenon, <2>1, <2>2, <2>3
<1>2. ASSUME NEW t \in Seq(Byte), NEW e \in Byte, t \in T
      PROVE  Append(t, e) \in T
  <2>1. PICK s : s = Escaped(t)
    OBVIOUS
  <2>2. s \in Seq(Byte \ {FEND}) /\ ValidEscapes(s) /\ Unescape[s] = t /\ s \in Seq(Byte)
    BY <1>2, <2>1, EscapedGrows
  <2>3. Escaped(Append(t, e)) = s \o Escape(e)
    BY <2>1, EscapedGrows
  <2>4. Append(t, e) \in Seq(Byte) /\ Append(t, e) = t \o <<e>>
    BY MoreBytes
  <2>5. PICK n \in Nat : n = Len(s) /\ DOMAIN s = 1 .. n
    BY <2>2
  <2>6. ~(s # <<>> /\ s[Len(s)] = FESC)
    <3>1. s # <<>> => n \in 1 .. n
      BY <2>2, <2>5, EmptySeq
    <3> QED BY <2>2, <2>5, <3>1 DEF ValidEscapes
  <2>7. CASE e \notin {FEND, FESC}
    <3>1. PICK d : d = Append(s, e)
      OBVIOUS
    <3>2. /\ d \in Seq(Byte) /\ Len(d) = n + 1 /\ d[n + 1] = e
          /\ \A i \in 1 .. n : d[i] = s[i]
      BY <2>2, <2>5, <3>1, MoreBytes
    <3>3. Escaped(Append(t, e)) = d
      <4>1. Escape(e) = <<e>>
        BY <2>7, EscapeIsBytes
      <4>2. d = s \o <<e>>
        BY <2>2, <3>1, MoreBytes
      <4> QED BY Zenon, <2>3, <4>1, <4>2
    <3>4. d \in Seq(Byte \ {FEND})
      BY <2>2, <2>7, <3>1
    <3>5. ValidEscapes(d)
      <4>1. SUFFICES ASSUME NEW i \in 1 .. n + 1, d[i] = FESC
                     PROVE  i < n + 1 /\ d[i + 1] \in {TFEND, TFESC}
        BY <3>2 DEF ValidEscapes
      <4>2. i \in 1 .. n /\ s[i] = FESC
        BY <2>7, <3>2, <4>1
      <4>3. i < n /\ s[i + 1] \in {TFEND, TFESC}
        BY <2>2, <2>5, <4>2 DEF ValidEscapes
      <4> QED BY <3>2, <4>2, <4>3
    <3>6. Unescape[d] = Append(t, e)
      <4>1. Unescape[d] = Unescape[s] \o Meant(s, e)
        BY <2>2, <3>1, UnescapeGrows
      <4>2. Meant(s, e) = <<e>>
        BY Zenon, <2>6, <2>7 DEF Meant
      <4> QED BY Zenon, <2>2, <2>4, <4>1, <4>2
    <3> QED BY <2>4, <3>3, <3>4, <3>5, <3>6
  <2>8. CASE e \in {FEND, FESC}
    <3>1. PICK x \in {TFEND, TFESC} : Escape(e) = <<FESC, x>> /\ (x = TFEND <=> e = FEND)
      BY <2>8, Bytes, EscapeIsBytes
    <3>2. x \in Byte /\ x # FESC /\ x # FEND /\ FESC \in Byte /\ FESC # FEND
      BY <3>1, Bytes
    <3>3. PICK c1 : c1 = Append(s, FESC)
      OBVIOUS
    <3>4. PICK d : d = Append(c1, x)
      OBVIOUS
    <3>5. /\ c1 \in Seq(Byte) /\ Len(c1) = n + 1 /\ c1[n + 1] = FESC
          /\ \A i \in 1 .. n : c1[i] = s[i]
          /\ c1 = s \o <<FESC>> /\ c1 # <<>>
      BY <2>2, <2>5, <3>2, <3>3, MoreBytes
    <3>6. PICK m : m = n + 1 /\ m \in Nat /\ Len(c1) = m
      BY <3>5
    <3>7. /\ d \in Seq(Byte) /\ Len(d) = m + 1 /\ d[m + 1] = x
          /\ \A i \in 1 .. m : d[i] = c1[i]
          /\ d = c1 \o <<x>>
      BY <3>2, <3>4, <3>5, <3>6, MoreBytes
    <3>8. Escaped(Append(t, e)) = d
      <4>1. <<FESC>> \in Seq(Byte) /\ <<x>> \in Seq(Byte)
        BY <3>2
      <4>2. <<FESC>> \o <<x>> = <<FESC, x>>
        BY <3>2, TwoBytes
      <4>3. (s \o <<FESC>>) \o <<x>> = s \o (<<FESC>> \o <<x>>)
        BY <2>2, <4>1, JoinedBytes
      <4> QED BY Zenon, <2>3, <3>1, <3>5, <3>7, <4>2, <4>3
    <3>9. d \in Seq(Byte \ {FEND})
      BY <2>2, <3>2, <3>3, <3>4
    <3>10. ValidEscapes(d)
      <4>1. SUFFICES ASSUME NEW i \in 1 .. m + 1, d[i] = FESC
                     PROVE  i < m + 1 /\ d[i + 1] \in {TFEND, TFESC}
        BY <3>7 DEF ValidEscapes
      <4>2. i \in 1 .. m
        <5>1. i # m + 1
          BY Zenon, <3>2, <3>7, <4>1
        <5> QED BY <3>6, <5>1
      <4>3. CASE i = m
        BY <3>1, <3>7, <4>3
      <4>4. CASE i # m
        <5>1. i \in 1 .. n /\ s[i] = FESC
          BY <3>5, <3>6, <3>7, <4>1, <4>2, <4>4
        <5>2. i < n /\ s[i + 1] \in {TFEND, TFESC}
          BY <2>2, <2>5, <5>1 DEF ValidEscapes
        <5>3. d[i + 1] = s[i + 1]
          BY <3>5, <3>6, <3>7, <5>1, <5>2
        <5> QED BY <3>6, <5>1, <5>2, <5>3
      <4> QED BY <4>3, <4>4
    <3>11. Unescape[d] = Append(t, e)
      <4>1. Unescape[c1] = Unescape[s] \o Meant(s, FESC)
        BY <2>2, <3>2, <3>3, UnescapeGrows
      <4>2. Meant(s, FESC) = <<>> /\ t \o <<>> = t
        BY JoinedBytes DEF Meant
      <4>3. Unescape[d] = Unescape[c1] \o Meant(c1, x)
        BY <3>2, <3>4, <3>5, UnescapeGrows
      <4>4. Meant(c1, x) = <<e>>
        <5>1. c1 # <<>> /\ c1[Len(c1)] = FESC
          BY <3>5
        <5>2. (IF x = TFEND THEN FEND ELSE FESC) = e
          BY <2>8, <3>1
        <5> QED BY Zenon, <3>2, <5>1, <5>2 DEF Meant
      <4> QED BY Zenon, <2>2, <2>4, <4>1, <4>2, <4>3, <4>4
    <3> QED BY <2>4, <3>8, <3>9, <3>10, <3>11
  <2> QED BY <2>7, <2>8
<1>3. Seq(Byte) \subseteq T
  <2> HIDE DEF T
  <2> QED BY <1>1, <1>2, SequencesByInduction
<1> QED BY <1>3

\* Bytes other than FEND neither begin a frame nor end one.
LEMMA NoFend ==
  ASSUME NEW s \in Seq(Byte \ {FEND}), NEW r \in Seq(Byte), Rest(r) = r, DecodeFrames[r] = <<>>
  PROVE  /\ s \in Seq(Byte)
         /\ Rest(r \o s) = IF r = <<>> THEN <<>> ELSE r \o s
         /\ DecodeFrames[r \o s] = <<>>
<1> DEFINE Quiet(t) == /\ Rest(r \o t) = IF r = <<>> THEN <<>> ELSE r \o t
                       /\ DecodeFrames[r \o t] = <<>>
           T == {t \in Seq(Byte \ {FEND}) : t \in Seq(Byte) /\ Quiet(t)}
<1>1. <<>> \in T
  <2>1. r \o <<>> = r
    BY JoinedBytes
  <2>2. <<>> \in Seq(Byte) /\ <<>> \in Seq(Byte \ {FEND})
    OBVIOUS
  <2>3. Quiet(<<>>)
    BY <2>1
  <2> HIDE DEF Quiet
  <2> QED BY <2>2, <2>3
<1>2. ASSUME NEW t \in Seq(Byte \ {FEND}), NEW e \in Byte \ {FEND}, t \in T
      PROVE  Append(t, e) \in T
  <2>1. t \in Seq(Byte) /\ Append(t, e) \in Seq(Byte) /\ Append(t, e) \in Seq(Byte \ {FEND})
    BY <1>2
  <2>2. PICK x : x = r \o t /\ x \in Seq(Byte)
    BY Zenon, <2>1, BytesJoin
  <2>3. r \o Append(t, e) = Append(x, e)
    BY <2>1, <2>2, JoinedAppend
  <2>4. /\ Rest(Append(x, e)) = IF (Rest(x) = <<>>) <=> (e = FEND) THEN Append(Rest(x), e) ELSE <<>>
        /\ DecodeFrames[Append(x, e)] = DecodeFrames[x] \o Completed(Rest(x), e)
    BY <2>2, RestGrows, DecodeGrows
  <2>5. Rest(x) = (IF r = <<>> THEN <<>> ELSE x) /\ DecodeFrames[x] = <<>>
    BY <1>2, <2>2
  <2>6. Completed(Rest(x), e) = <<>> /\ <<>> \o <<>> = <<>>
    BY DEF Completed
  <2>7. DecodeFrames[Append(x, e)] = <<>>
    BY <2>4, <2>5, <2>6
  <2>8. r # <<>> => x # <<>>
    BY <2>1, <2>2, ConcatEqualIffEmpty
  <2>9. Rest(Append(x, e)) = IF r = <<>> THEN <<>> ELSE Append(x, e)
    <3>1. CASE r = <<>>
      BY <2>4, <2>5, <3>1
    <3>2. CASE r # <<>>
      BY <2>4, <2>5, <2>8, <3>2
    <3> QED BY <3>1, <3>2
  <2> QED BY <2>1, <2>3, <2>7, <2>9
<1>3. Seq(Byte \ {FEND}) \subseteq T
  <2> HIDE DEF T
  <2> QED BY <1>1, <1>2, SequencesByInduction
<1> QED BY <1>3

LEMMA FirstByte ==
  ASSUME NEW y \in Byte, NEW s \in Seq(Byte)
  PROVE  /\ <<y>> \o s \in Seq(Byte) /\ <<y>> \o s # <<>>
         /\ (<<y>> \o s)[1] = y /\ Tail(<<y>> \o s) = s
<1> DEFINE p == <<y>>
<1>1. p \in Seq(Byte) /\ Len(p) = 1 /\ p[1] = y
  OBVIOUS
<1> HIDE DEF p
<1>2. PICK n \in Nat : n = Len(s)
  OBVIOUS
<1>3. PICK w : w = p \o s
  OBVIOUS
<1>4. /\ w \in Seq(Byte) /\ Len(w) = 1 + n
      /\ \A i \in 1 .. 1 + n : w[i] = IF i <= 1 THEN p[i] ELSE s[i - 1]
  <2>1. /\ w \in Seq(Byte) /\ Len(w) = Len(p) + Len(s)
        /\ \A i \in 1 .. Len(p) + Len(s) : w[i] = IF i <= Len(p) THEN p[i] ELSE s[i - Len(p)]
    BY <1>1, <1>3, ConcatProperties
  <2> QED BY <1>1, <1>2, <2>1
<1>5. w # <<>> /\ w[1] = y
  BY <1>1, <1>4
<1>6. /\ Tail(w) \in Seq(Byte) /\ Len(Tail(w)) = n
      /\ \A i \in 1 .. n : Tail(w)[i] = w[i + 1]
  BY <1>4, <1>5, HeadTailProperties
<1>7. ASSUME NEW i \in 1 .. n
      PROVE  Tail(w)[i] = s[i]
  <2>1. PICK j : j = i + 1 /\ j \in 1 .. 1 + n /\ ~(j <= 1) /\ j - 1 = i
    OBVIOUS
  <2>2. w[j] = s[i]
    BY <1>4, <2>1
  <2> QED BY <1>6, <2>1, <2>2
<1>8. Tail(w) = s
  BY <1>2, <1>6, <1>7, SeqEqual
<1> QED BY <1>3, <1>4, <1>5, <1>8 DEF p

\* A frame has begun with a FEND, or none has.
Between == {<<>>, <<FEND>>}

LEMMA LoneFend ==
  /\ <<>> \in Seq(Byte) /\ <<FEND>> \in Seq(Byte) /\ <<FEND>> # <<>>
  /\ Rest(<<>>) = <<>> /\ DecodeFrames[<<>>] = <<>>
  /\ Rest(<<FEND>>) = <<FEND>> /\ DecodeFrames[<<FEND>>] = <<>>
  /\ DecodeKISSFrame[Tail(<<FEND>>)] = <<>>
<1>1. <<>> \in Seq(Byte) /\ <<FEND>> \in Seq(Byte) /\ <<FEND>> # <<>>
  BY Bytes
<1>2. Rest(<<>>) = <<>> /\ DecodeFrames[<<>>] = <<>>
  BY <1>1, Bytes, RestGrows, DecodeGrows
<1>3. Append(<<>>, FEND) = <<FEND>>
  OBVIOUS
<1>4. /\ Rest(Append(<<>>, FEND)) =
           IF (Rest(<<>>) = <<>>) <=> (FEND = FEND) THEN Append(Rest(<<>>), FEND) ELSE <<>>
      /\ DecodeFrames[Append(<<>>, FEND)] = DecodeFrames[<<>>] \o Completed(Rest(<<>>), FEND)
  BY <1>1, Bytes, RestGrows, DecodeGrows
<1>5. Completed(Rest(<<>>), FEND) = <<>> /\ <<>> \o <<>> = <<>>
  BY <1>2 DEF Completed
<1>6. Rest(<<FEND>>) = <<FEND>>
  BY <1>2, <1>3, <1>4
<1>7. DecodeFrames[<<FEND>>] = <<>>
  BY Zenon, <1>2, <1>3, <1>4, <1>5
<1>8. Tail(<<FEND>>) = <<>>
  OBVIOUS
<1>9. DecodeKISSFrame[<<>>] = <<>>
  BY <1>1 DEF DecodeKISSFrame
<1> QED BY Zenon, <1>1, <1>2, <1>6, <1>7, <1>8, <1>9

\* One more FEND between frames.
LEMMA OneMoreFend ==
  ASSUME NEW x \in Seq(Byte), Rest(x) \in Between
  PROVE  Rest(Append(x, FEND)) \in Between /\ DecodeFrames[Append(x, FEND)] = DecodeFrames[x]
<1>1. /\ Rest(Append(x, FEND)) =
           IF (Rest(x) = <<>>) <=> (FEND = FEND) THEN Append(Rest(x), FEND) ELSE <<>>
      /\ DecodeFrames[Append(x, FEND)] = DecodeFrames[x] \o Completed(Rest(x), FEND)
      /\ DecodeFrames[x] \in Seq(Seq(Byte))
  BY Bytes, RestGrows, DecodeGrows
<1>2. Append(<<>>, FEND) = <<FEND>>
  OBVIOUS
<1>3. Rest(Append(x, FEND)) \in Between
  BY <1>1, <1>2 DEF Between
<1>4. Completed(Rest(x), FEND) = <<>>
  <2>1. CASE Rest(x) = <<>>
    BY <2>1 DEF Completed
  <2>2. CASE Rest(x) = <<FEND>>
    <3>1. Completed(Rest(x), FEND) = DecodeKISSFrame[Tail(<<FEND>>)]
      BY <2>2, LoneFend DEF Completed
    <3> QED BY Zenon, <3>1, LoneFend
  <2> QED BY <2>1, <2>2 DEF Between
<1>5. DecodeFrames[x] \o <<>> = DecodeFrames[x]
  <2>1. \A f \in Seq(Seq(Byte)) : f \o <<>> = f
    BY JoinedFrames
  <2> QED BY Zenon, <1>1, <2>1
<1> QED BY Zenon, <1>1, <1>3, <1>4, <1>5

Fends(n) == [i \in 1 .. n |-> FEND]

LEMMA FendsMakeNoFrame ==
  ASSUME NEW b \in Seq(Byte), Rest(b) \in Between, NEW k \in Nat
  PROVE  /\ Fends(k) \in Seq(Byte)
         /\ Rest(b \o Fends(k)) \in Between
         /\ DecodeFrames[b \o Fends(k)] = DecodeFrames[b]
<1> DEFINE Quiet(s) == s \in Seq(Byte) /\ Rest(b \o s) \in Between /\ DecodeFrames[b \o s] = DecodeFrames[b]
           T == {n \in Nat : Quiet(Fends(n))}
<1>1. 0 \in T
  <2>1. Fends(0) = <<>>
    BY DEF Fends
  <2>2. b \o <<>> = b /\ <<>> \in Seq(Byte)
    BY JoinedBytes
  <2> QED BY Zenon, <2>1, <2>2
<1>2. ASSUME NEW n \in Nat, n \in T
      PROVE  n + 1 \in T
  <2>1. PICK s : s = Fends(n)
    OBVIOUS
  <2>2. s \in Seq(Byte) /\ Rest(b \o s) \in Between /\ DecodeFrames[b \o s] = DecodeFrames[b]
    BY <1>2, <2>1
  <2>3. Fends(n + 1) = Append(s, FEND)
    <3>1. Len(s) = n /\ \A i \in 1 .. n : s[i] = FEND
      BY <2>1 DEF Fends
    <3>2. /\ Append(s, FEND) \in Seq(Byte) /\ Len(Append(s, FEND)) = n + 1
          /\ Append(s, FEND)[n + 1] = FEND /\ \A i \in 1 .. n : Append(s, FEND)[i] = s[i]
      BY <2>2, <3>1, Bytes, MoreBytes
    <3>3. \A i \in 1 .. n + 1 : Append(s, FEND)[i] = FEND
      BY <3>1, <3>2
    <3>4. Fends(n + 1) \in Seq(Byte) /\ Len(Fends(n + 1)) = n + 1 /\ \A i \in 1 .. n + 1 : Fends(n + 1)[i] = FEND
      BY Bytes DEF Fends
    <3> QED BY <3>2, <3>3, <3>4, SeqEqual
  <2>4. PICK x : x = b \o s /\ x \in Seq(Byte)
    BY <2>2, JoinedBytes
  <2>5. b \o Append(s, FEND) = Append(x, FEND)
    BY <2>2, <2>4, Bytes, JoinedAppend
  <2>6. Rest(Append(x, FEND)) \in Between /\ DecodeFrames[Append(x, FEND)] = DecodeFrames[x]
    BY <2>2, <2>4, OneMoreFend
  <2>7. Append(s, FEND) \in Seq(Byte)
    BY <2>2, Bytes, MoreBytes
  <2>8. Quiet(Fends(n + 1))
    BY Zenon, <2>2, <2>3, <2>4, <2>5, <2>6, <2>7
  <2> QED BY <2>8
<1>3. Nat \subseteq T
  <2> HIDE DEF T
  <2> QED BY <1>1, <1>2, NumbersByInduction
<1> QED BY <1>3

\* For every frame, whatever its bytes, DecodeFrames makes of what Encode made
\* of it that frame and keeps nothing; behind a FEND that has begun a frame it
\* makes nothing of it and keeps the last FEND.
THEOREM EncodeDecodes ==
  ASSUME NEW f \in Seq(Byte)
  PROVE  /\ Encode(f) \in Seq(Byte)
         /\ DecodeFrames[Encode(f)] = <<f>> /\ Rest(Encode(f)) = <<>>
         /\ DecodeFrames[<<FEND>> \o Encode(f)] = <<>> /\ Rest(<<FEND>> \o Encode(f)) = <<FEND>>
<1>1. PICK c : c = <<KISSDataFrame>> \o f
  OBVIOUS
<1>2. c \in Seq(Byte) /\ c # <<>> /\ c[1] = KISSDataFrame /\ Tail(c) = f
  BY <1>1, Bytes, FirstByte
<1>3. PICK E : E = Escaped(c)
  OBVIOUS
<1>4. E \in Seq(Byte \ {FEND}) /\ ValidEscapes(E) /\ Unescape[E] = c /\ E \in Seq(Byte)
  BY <1>2, <1>3, EscapedIsRead, EscapedGrows, Bytes
<1>5. E # <<>>
  <2>1. Unescape[<<>>] = <<>>
    BY Bytes, UnescapeGrows
  <2> QED BY Zenon, <1>2, <1>4, <2>1
<1>6. PICK x : x = <<FEND>> \o E
  OBVIOUS
<1>7. x \in Seq(Byte) /\ x # <<>> /\ Tail(x) = E
  BY <1>4, <1>6, Bytes, FirstByte
<1>8. Encode(f) = Append(x, FEND) /\ Encode(f) \in Seq(Byte)
  <2>1. Encode(f) = (<<FEND>> \o E) \o <<FEND>>
    BY Zenon, <1>1, <1>3 DEF Encode, Escaped
  <2>2. Append(x, FEND) = x \o <<FEND>> /\ Append(x, FEND) \in Seq(Byte)
    BY <1>7, Bytes, MoreBytes
  <2> QED BY Zenon, <1>6, <2>1, <2>2
<1>9. Rest(x) = x /\ DecodeFrames[x] = <<>>
  BY <1>4, <1>6, LoneFend, NoFend
<1>10. /\ Rest(Append(x, FEND)) =
            IF (Rest(x) = <<>>) <=> (FEND = FEND) THEN Append(Rest(x), FEND) ELSE <<>>
       /\ DecodeFrames[Append(x, FEND)] = DecodeFrames[x] \o Completed(Rest(x), FEND)
  BY <1>7, Bytes, RestGrows, DecodeGrows
<1>11. Completed(x, FEND) = <<f>>
  <2>1. Completed(x, FEND) = DecodeKISSFrame[E]
    BY <1>7 DEF Completed
  <2>2. DecodeKISSFrame[E] = <<Tail(Unescape[E])>>
    BY <1>2, <1>4, <1>5 DEF DecodeKISSFrame
  <2> QED BY Zenon, <1>2, <1>4, <2>1, <2>2
<1>12. DecodeFrames[Encode(f)] = <<f>>
  <2>1. <<f>> \in Seq(Seq(Byte))
    OBVIOUS
  <2>2. <<>> \o <<f>> = <<f>>
    BY <2>1, JoinedFrames
  <2> QED BY Zenon, <1>8, <1>9, <1>10, <1>11, <2>2
<1>13. Rest(Encode(f)) = <<>>
  BY <1>7, <1>8, <1>9, <1>10
<1>14. PICK z : z = <<FEND>> \o x /\ z \in Seq(Byte)
  BY <1>7, LoneFend, JoinedBytes
<1>15. <<FEND>> \o Encode(f) = Append(z, FEND)
  BY <1>7, <1>8, <1>14, Bytes, LoneFend, JoinedAppend
<1>16. PICK w : w = Append(<<FEND>>, FEND) /\ w \in Seq(Byte)
  <2>1. \A s \in Seq(Byte) : Append(s, FEND) \in Seq(Byte)
    BY Bytes, MoreBytes
  <2> QED BY Zenon, <2>1, LoneFend
<1>17. Rest(w) = <<>> /\ DecodeFrames[w] = <<>>
  <2>1. /\ Rest(w) = IF (Rest(<<FEND>>) = <<>>) <=> (FEND = FEND) THEN Append(Rest(<<FEND>>), FEND) ELSE <<>>
    BY <1>16, Bytes, LoneFend, RestGrows
  <2>2. Rest(<<FEND>>) \in Between
    BY LoneFend DEF Between
  <2>3. DecodeFrames[w] = DecodeFrames[<<FEND>>]
    BY <1>16, <2>2, LoneFend, OneMoreFend
  <2> QED BY <2>1, <2>3, LoneFend
<1>18. z = w \o E
  <2>1. w = <<FEND>> \o <<FEND>>
    BY <1>16, Bytes, LoneFend, MoreBytes
  <2>2. (<<FEND>> \o <<FEND>>) \o E = <<FEND>> \o (<<FEND>> \o E)
    BY <1>4, LoneFend, JoinedBytes
  <2> QED BY Zenon, <1>6, <1>14, <2>1, <2>2
<1>19. Rest(<<>> \o E) = <<>> /\ DecodeFrames[<<>> \o E] = <<>>
  BY <1>4, LoneFend, NoFend
<1>20. Rest(z) = <<>> /\ DecodeFrames[z] = <<>>
  <2>1. Rest(w \o E) = Rest(Rest(w) \o E) /\ DecodeFrames[w \o E] = DecodeFrames[w] \o DecodeFrames[Rest(w) \o E]
    BY <1>4, <1>16, CutAnywhere
  <2>2. <<>> \o <<>> = <<>>
    OBVIOUS
  <2> QED BY Zenon, <1>17, <1>18, <1>19, <2>1, <2>2
<1>21. /\ Rest(Append(z, FEND)) =
            IF (Rest(z) = <<>>) <=> (FEND = FEND) THEN Append(Rest(z), FEND) ELSE <<>>
  BY <1>14, Bytes, RestGrows
<1>22. DecodeFrames[Append(z, FEND)] = <<>>
  <2>1. Rest(z) \in Between
    BY <1>20 DEF Between
  <2> QED BY <1>14, <1>20, <2>1, OneMoreFend
<1>23. Rest(Append(z, FEND)) = <<FEND>>
  <2>1. Append(<<>>, FEND) = <<FEND>>
    OBVIOUS
  <2> QED BY <1>20, <1>21, <2>1
<1> QED BY <1>8, <1>12, <1>13, <1>15, <1>22, <1>23

-----------------------------------------------------------------------------
(* What receiveLoop hands on of the frames.                                 *)
LEMMA MoreFrames ==
  ASSUME NEW s \in Seq(Seq(Byte)), NEW e \in Seq(Byte), NEW n \in Nat, Len(s) = n
  PROVE  /\ Append(s, e) \in Seq(Seq(Byte))
         /\ Len(Append(s, e)) = n + 1
         /\ \A i \in 1 .. n : Append(s, e)[i] = s[i]
         /\ Append(s, e)[n + 1] = e
         /\ Append(s, e) = s \o <<e>>
BY AppendProperties, AppendIsConcat

Kept(f) == IF f \in Ignored THEN <<>> ELSE <<f>>

LEMMA KeptIsFrames ==
  ASSUME NEW f \in Seq(Byte)
  PROVE  Kept(f) \in Seq(Seq(Byte))
<1>1. <<>> \in Seq(Seq(Byte)) /\ <<f>> \in Seq(Seq(Byte))
  OBVIOUS
<1> QED BY Zenon, <1>1 DEF Kept

LEMMA HandedGrows ==
  ASSUME NEW c \in Seq(Seq(Byte)), NEW e \in Seq(Byte)
  PROVE  /\ Handed[<<>>] = <<>>
         /\ Handed[c] \in Seq(Seq(Byte))
         /\ Handed[Append(c, e)] = Handed[c] \o Kept(e)
<1> DEFINE P(s) == [i \in DOMAIN s |-> Kept(s[i])]
<1>0. \A s \in Seq(Seq(Byte)) : Handed[s] = FlattenSeq(P(s))
  BY DEF Handed, Kept
<1>1. PICK n \in Nat : n = Len(c)
  OBVIOUS
<1>2. ASSUME NEW s \in Seq(Seq(Byte)), NEW k \in Nat, Len(s) = k
      PROVE  P(s) \in Seq(Seq(Seq(Byte))) /\ Len(P(s)) = k /\ \A i \in 1 .. k : P(s)[i] = Kept(s[i])
  <2>1. DOMAIN s = 1 .. k /\ \A i \in 1 .. k : s[i] \in Seq(Byte)
    BY <1>2
  <2>2. \A i \in 1 .. k : Kept(s[i]) \in Seq(Seq(Byte))
    BY <2>1, KeptIsFrames
  <2> QED BY <2>1, <2>2
<1>3. P(<<>>) = <<>>
  OBVIOUS
<1> HIDE DEF P
<1>d. PICK d : d = Append(c, e)
  OBVIOUS
<1>m. PICK m : m = n + 1 /\ m \in Nat /\ m \in 1 .. m
  OBVIOUS
<1>4. /\ d \in Seq(Seq(Byte)) /\ Len(d) = m
      /\ d[m] = e /\ \A i \in 1 .. n : d[i] = c[i]
  BY <1>1, <1>d, <1>m, MoreFrames
<1>5. P(c) \in Seq(Seq(Seq(Byte))) /\ Len(P(c)) = n /\ \A i \in 1 .. n : P(c)[i] = Kept(c[i])
  BY <1>1, <1>2
<1>6. P(d) \in Seq(Seq(Seq(Byte))) /\ Len(P(d)) = m /\ \A i \in 1 .. m : P(d)[i] = Kept(d[i])
  BY <1>2, <1>4, <1>m
<1>7. \A i \in 1 .. n : P(d)[i] = P(c)[i]
  BY <1>4, <1>m, <1>5, <1>6
<1>8. P(d)[m] = Kept(e)
  BY <1>4, <1>6, <1>m
<1>9. /\ FlattenSeq(P(c)) \in Seq(Seq(Byte))
      /\ FlattenSeq(P(d)) = FlattenSeq(P(c)) \o P(d)[n + 1]
  BY <1>m, <1>5, <1>6, <1>7, PiecesOfFrames
<1>10. FlattenSeq(P(<<>>)) = <<>> /\ <<>> \in Seq(Seq(Byte))
  BY <1>3, NothingToFlatten
<1> QED BY <1>0, <1>d, <1>m, <1>4, <1>8, <1>9, <1>10

LEMMA HandedJoins ==
  ASSUME NEW a \in Seq(Seq(Byte)), NEW c \in Seq(Seq(Byte))
  PROVE  Handed[a \o c] = Handed[a] \o Handed[c]
<1>1. PICK H : H = Handed[a] /\ H \in Seq(Seq(Byte))
  <2>1. <<>> \in Seq(Byte)
    OBVIOUS
  <2> QED BY <2>1, HandedGrows
<1> DEFINE T == {s \in Seq(Seq(Byte)) : Handed[a \o s] = H \o Handed[s]}
<1>2. <<>> \in T
  <2>1. <<>> \in Seq(Seq(Byte)) /\ <<>> \in Seq(Byte)
    OBVIOUS
  <2>2. a \o <<>> = a /\ H \o <<>> = H
    BY <1>1, JoinedFrames
  <2>3. Handed[<<>>] = <<>>
    BY <2>1, HandedGrows
  <2>4. Handed[a \o <<>>] = H \o Handed[<<>>]
    BY Zenon, <1>1, <2>2, <2>3
  <2> QED BY Zenon, <2>1, <2>4
<1>3. ASSUME NEW s \in Seq(Seq(Byte)), NEW e \in Seq(Byte), s \in T
      PROVE  Append(s, e) \in T
  <2>1. <<e>> \in Seq(Seq(Byte))
    OBVIOUS
  <2>2. PICK x : x = a \o s /\ x \in Seq(Seq(Byte))
    BY JoinedFrames
  <2>3. a \o Append(s, e) = Append(x, e)
    <3>1. Append(s, e) = s \o <<e>> /\ Append(x, e) = x \o <<e>>
      BY <2>2, MoreFrames
    <3>2. (a \o s) \o <<e>> = a \o (s \o <<e>>)
      BY Zenon, <2>1, FramesAssociate
    <3> QED BY Zenon, <2>2, <3>1, <3>2
  <2>4. /\ Handed[Append(x, e)] = Handed[x] \o Kept(e)
        /\ Handed[Append(s, e)] = Handed[s] \o Kept(e)
        /\ Handed[s] \in Seq(Seq(Byte))
    BY <2>2, HandedGrows
  <2>5. Kept(e) \in Seq(Seq(Byte))
    BY KeptIsFrames
  <2>6. (H \o Handed[s]) \o Kept(e) = H \o (Handed[s] \o Kept(e))
    <3>1. PICK G : G = Handed[s] /\ G \in Seq(Seq(Byte))
      BY <2>4
    <3>2. PICK K : K = Kept(e) /\ K \in Seq(Seq(Byte))
      BY <2>5
    <3>3. (H \o G) \o K = H \o (G \o K)
      <4>1. H \in Seq(Seq(Byte)) /\ G \in Seq(Seq(Byte)) /\ K \in Seq(Seq(Byte))
        BY <1>1, <3>1, <3>2
      <4>2. \A g, h \in Seq(Seq(Byte)) : (H \o g) \o h = H \o (g \o h)
        BY Zenon, <4>1, FramesAssociate
      <4>3. \A h \in Seq(Seq(Byte)) : (H \o G) \o h = H \o (G \o h)
        BY Zenon, <4>1, <4>2
      <4> QED BY Zenon, <4>1, <4>3
    <3> QED BY Zenon, <3>1, <3>2, <3>3
  <2>7. Handed[x] = H \o Handed[s]
    BY <1>3, <2>2
  <2>8. Append(s, e) \in Seq(Seq(Byte))
    BY MoreFrames
  <2>9. Handed[a \o Append(s, e)] = H \o Handed[Append(s, e)]
    BY Zenon, <2>3, <2>4, <2>6, <2>7
  <2> QED BY Zenon, <2>8, <2>9
<1>4. Seq(Seq(Byte)) \subseteq T
  <2> HIDE DEF T
  <2> QED BY <1>2, <1>3, SequencesByInduction
<1> QED BY <1>1, <1>4

\* The frames in a stream that will be handed on.
Underway(b) == Handed[DecodeFrames[b]]

LEMMA UnderwayIsFrames ==
  ASSUME NEW b \in Seq(Byte)
  PROVE  Underway(b) \in Seq(Seq(Byte)) /\ Underway(<<>>) = <<>>
<1>1. <<>> \in Seq(Byte) /\ <<>> \in Seq(Seq(Byte))
  OBVIOUS
<1>2. DecodeFrames[b] \in Seq(Seq(Byte)) /\ DecodeFrames[<<>>] = <<>>
  BY Bytes, DecodeGrows
<1>3. \A s \in Seq(Seq(Byte)) : Handed[s] \in Seq(Seq(Byte)) /\ Handed[<<>>] = <<>>
  BY <1>1, HandedGrows
<1> QED BY Zenon, <1>1, <1>2, <1>3 DEF Underway

\* Cut anywhere, the frames are those before the cut and those behind it.
LEMMA UnderwayCut ==
  ASSUME NEW a \in Seq(Byte), NEW c \in Seq(Byte)
  PROVE  Underway(a \o c) = Underway(a) \o Underway(Rest(a) \o c)
<1>1. DecodeFrames[a \o c] = DecodeFrames[a] \o DecodeFrames[Rest(a) \o c]
  BY CutAnywhere
<1>2. Rest(a) \in Seq(Byte)
  BY RestIsBeginning
<1>3. Rest(a) \o c \in Seq(Byte)
  BY <1>2, JoinedBytes
<1>4. \A s \in Seq(Byte) : DecodeFrames[s] \in Seq(Seq(Byte))
  BY Bytes, DecodeGrows
<1>5. \A s, t \in Seq(Seq(Byte)) : Handed[s \o t] = Handed[s] \o Handed[t]
  BY HandedJoins
<1> QED BY Zenon, <1>1, <1>3, <1>4, <1>5 DEF Underway

\* A frame that the TNC sends is one more, or none when it is ignored or its
\* first FEND ends what a FEND has begun.
LEMMA UnderwaySends ==
  ASSUME NEW b \in Seq(Byte), Rest(b) \in Between, NEW f \in Seq(Byte)
  PROVE  /\ b \o Encode(f) \in Seq(Byte)
         /\ Rest(b \o Encode(f)) \in Between
         /\ \/ Underway(b \o Encode(f)) = Underway(b)
            \/ f \notin Ignored /\ Underway(b \o Encode(f)) = Append(Underway(b), f)
         /\ Rest(b) = <<>> /\ f \notin Ignored =>
              Underway(b \o Encode(f)) = Append(Underway(b), f)
<1>1. /\ Encode(f) \in Seq(Byte)
      /\ DecodeFrames[Encode(f)] = <<f>> /\ Rest(Encode(f)) = <<>>
      /\ DecodeFrames[<<FEND>> \o Encode(f)] = <<>> /\ Rest(<<FEND>> \o Encode(f)) = <<FEND>>
  BY EncodeDecodes
<1>2. b \o Encode(f) \in Seq(Byte) /\ <<>> \o Encode(f) = Encode(f)
  BY <1>1, JoinedBytes
<1>3. /\ Rest(b \o Encode(f)) = Rest(Rest(b) \o Encode(f))
      /\ Underway(b \o Encode(f)) = Underway(b) \o Underway(Rest(b) \o Encode(f))
  BY <1>1, CutAnywhere, UnderwayCut
<1>4. Rest(b \o Encode(f)) \in Between
  BY Zenon, <1>1, <1>2, <1>3 DEF Between
<1>5. PICK U : U = Underway(b) /\ U \in Seq(Seq(Byte))
  BY UnderwayIsFrames
<1>6. U \o <<>> = U /\ U \o <<f>> = Append(U, f)
  BY <1>5, JoinedFrames, MoreFrames
<1>7. Handed[<<>>] = <<>> /\ Handed[<<f>>] = Kept(f)
  <2>1. <<>> \in Seq(Seq(Byte)) /\ Append(<<>>, f) = <<f>>
    OBVIOUS
  <2>2. Handed[<<>>] = <<>> /\ Handed[Append(<<>>, f)] = Handed[<<>>] \o Kept(f)
    BY <2>1, HandedGrows
  <2>3. <<>> \o Kept(f) = Kept(f)
    BY KeptIsFrames, JoinedFrames
  <2> QED BY Zenon, <2>1, <2>2, <2>3
<1>8. CASE Rest(b) = <<FEND>>
  <2>1. Underway(b \o Encode(f)) = Underway(b)
    BY Zenon, <1>1, <1>3, <1>5, <1>6, <1>7, <1>8 DEF Underway
  <2> QED BY Zenon, <1>2, <1>4, <1>8, <2>1, LoneFend
<1>9. CASE Rest(b) = <<>>
  <2>1. Underway(b \o Encode(f)) = U \o Kept(f)
    BY Zenon, <1>1, <1>2, <1>3, <1>5, <1>7, <1>9 DEF Underway
  <2>2. CASE f \in Ignored
    BY Zenon, <1>2, <1>4, <1>5, <1>6, <2>1, <2>2 DEF Kept
  <2>3. CASE f \notin Ignored
    BY Zenon, <1>2, <1>4, <1>5, <1>6, <2>1, <2>3 DEF Kept
  <2> QED BY <2>2, <2>3
<1> QED BY <1>8, <1>9 DEF Between

-----------------------------------------------------------------------------
(* The invariant of the link: the frames under way are those worth handing  *)
(* on, and on a connection that stands, what the TNC has sent so far ends   *)
(* between two frames, or with the FEND that begins one.                    *)
LinkInv ==
  /\ BufferIsOneBeginning
  /\ Queue \in Seq(Worth)
  /\ conn = "open" => Rest(buffer \o wire) \in Between

\* Sequences that are cut in two.
LEMMA TwoParts ==
  ASSUME NEW w \in Seq(Byte), NEW k \in 0 .. Len(w)
  PROVE  /\ SubSeq(w, 1, k) \in Seq(Byte) /\ SubSeq(w, k + 1, Len(w)) \in Seq(Byte)
         /\ SubSeq(w, 1, k) \o SubSeq(w, k + 1, Len(w)) = w
<1>1. PICK n \in Nat : n = Len(w)
  OBVIOUS
<1>2. /\ 1 \in Nat \ {0} /\ k \in Nat /\ k <= n /\ k + 1 \in Nat \ {0} /\ n <= n
      /\ 1 \in 1 .. n + 1 /\ k \in 1 - 1 .. n /\ n \in k .. n
  BY <1>1
<1>3. SubSeq(w, 1, k) \in Seq(Byte) /\ SubSeq(w, k + 1, n) \in Seq(Byte)
  BY <1>1, <1>2, SamePart
<1>4. SubSeq(w, 1, k) \o SubSeq(w, k + 1, n) = SubSeq(w, 1, n)
  BY <1>1, <1>2, ConcatAdjacentSubSeq
<1> QED BY <1>1, <1>3, <1>4, SubSeqFull

LEMMA JoinedParts ==
  ASSUME NEW u \in Seq(Seq(Byte)), NEW v \in Seq(Seq(Byte))
  PROVE  /\ Len(u) \in 0 .. Len(u \o v)
         /\ SubSeq(u \o v, 1, Len(u)) = u
         /\ SubSeq(u \o v, Len(u) + 1, Len(u \o v)) = v
<1>1. PICK n \in Nat : n = Len(u)
  OBVIOUS
<1>2. PICK m \in Nat : m = Len(v)
  OBVIOUS
<1>3. PICK w : w = u \o v
  OBVIOUS
<1>4. /\ w \in Seq(Seq(Byte)) /\ Len(w) = n + m
      /\ \A i \in 1 .. n + m : w[i] = IF i <= n THEN u[i] ELSE v[i - n]
  BY <1>1, <1>2, <1>3, ConcatProperties
<1>5. SubSeq(w, 1, n) = u
  <2>1. \A i \in 1 .. n : w[i] \in Seq(Byte)
    BY <1>4
  <2>2. /\ SubSeq(w, 1, n) \in Seq(Seq(Byte)) /\ Len(SubSeq(w, 1, n)) = n
        /\ \A i \in 1 .. n : SubSeq(w, 1, n)[i] = w[i]
    BY <2>1, SubSeqProperties
  <2>3. \A i \in 1 .. n : SubSeq(w, 1, n)[i] = u[i]
    BY <1>4, <2>2
  <2> QED BY <1>1, <2>2, <2>3, SeqEqual
<1>6. SubSeq(w, n + 1, n + m) = v
  <2>1. \A i \in n + 1 .. n + m : w[i] \in Seq(Byte)
    BY <1>4
  <2>2. /\ SubSeq(w, n + 1, n + m) \in Seq(Seq(Byte)) /\ Len(SubSeq(w, n + 1, n + m)) = m
        /\ \A i \in 1 .. m : SubSeq(w, n + 1, n + m)[i] = w[n + i]
    <3>1. PICK lo : lo = n + 1 /\ lo \in Int
      OBVIOUS
    <3>2. PICK hi : hi = n + m /\ hi \in Int
      OBVIOUS
    <3>3. /\ SubSeq(w, lo, hi) \in Seq(Seq(Byte))
          /\ Len(SubSeq(w, lo, hi)) = IF lo <= hi THEN hi - lo + 1 ELSE 0
          /\ \A i \in 1 .. hi - lo + 1 : SubSeq(w, lo, hi)[i] = w[lo + i - 1]
      BY <2>1, <3>1, <3>2, SubSeqProperties
    <3>4. (IF lo <= hi THEN hi - lo + 1 ELSE 0) = m /\ hi - lo + 1 = m
      BY <3>1, <3>2
    <3>5. \A i \in 1 .. m : lo + i - 1 = n + i
      BY <3>1
    <3> QED BY <3>1, <3>2, <3>3, <3>4, <3>5
  <2>3. ASSUME NEW i \in 1 .. m
        PROVE  w[n + i] = v[i]
    <3>1. PICK j : j = n + i /\ j \in 1 .. n + m /\ ~(j <= n) /\ j - n = i
      OBVIOUS
    <3> QED BY <1>4, <3>1
  <2>4. \A i \in 1 .. m : SubSeq(w, n + 1, n + m)[i] = v[i]
    BY <2>2, <2>3
  <2> QED BY <1>2, <2>2, <2>4, SeqEqual
<1>7. n \in 0 .. Len(w) /\ SubSeq(w, n + 1, Len(w)) = v
  BY <1>4, <1>6
<1> QED BY Zenon, <1>1, <1>3, <1>5, <1>7

LEMMA PartsAreFrames ==
  ASSUME NEW S, S \subseteq Seq(Byte), NEW u \in Seq(Seq(Byte)), NEW v \in Seq(Seq(Byte)),
         u \o v \in Seq(S)
  PROVE  u \in Seq(S) /\ v \in Seq(S)
<1>1. PICK n \in Nat : n = Len(u)
  OBVIOUS
<1>2. PICK m \in Nat : m = Len(v)
  OBVIOUS
<1>3. PICK w \in Seq(S) : w = u \o v
  OBVIOUS
<1>4. Len(w) = n + m /\ \A i \in 1 .. n + m : w[i] = IF i <= n THEN u[i] ELSE v[i - n]
  BY <1>1, <1>2, <1>3, ConcatProperties
<1>5. \A i \in 1 .. n + m : w[i] \in S
  BY <1>4
<1>6. \A i \in 1 .. n : u[i] \in S
  BY <1>4, <1>5
<1>7. ASSUME NEW i \in 1 .. m
      PROVE  v[i] \in S
  <2>1. PICK j : j = n + i /\ j \in 1 .. n + m /\ ~(j <= n) /\ j - n = i
    OBVIOUS
  <2> QED BY <1>4, <1>5, <2>1
<1>8. u = [i \in 1 .. n |-> u[i]] /\ v = [i \in 1 .. m |-> v[i]]
  BY <1>1, <1>2
<1>9. [i \in 1 .. n |-> u[i]] \in Seq(S)
  BY <1>6
<1>10. [i \in 1 .. m |-> v[i]] \in Seq(S)
  BY <1>7
<1> QED BY Zenon, <1>8, <1>9, <1>10

-----------------------------------------------------------------------------
(* Every step keeps the invariant, and is a step of the frame channel or    *)
(* leaves it as it is.                                                      *)
ChannelStep == Channel!Next \/ UNCHANGED <<Queue, got>>

\* What the invariant says of the streams.
LEMMA LinkFacts ==
  ASSUME LinkInv
  PROVE  /\ wire \in Seq(Byte) /\ buffer \in Seq(Byte) /\ buffer \o wire \in Seq(Byte)
         /\ got \in Seq(Worth) /\ Queue \in Seq(Worth) /\ Queue \in Seq(Seq(Byte))
         /\ Queue = Underway(buffer \o wire)
         /\ Worth \subseteq Seq(Byte) /\ Worth \subseteq Ax25Frame
<1>1. wire \in Seq(Byte) /\ buffer \in Seq(Byte) /\ got \in Seq(Worth) /\ Queue \in Seq(Worth)
  BY DEF LinkInv, BufferIsOneBeginning, LinkTypeOK, Worth
<1>2. buffer \o wire \in Seq(Byte)
  BY <1>1, JoinedBytes
<1>3. Queue = Underway(buffer \o wire)
  BY DEF Queue, Underway
<1>4. Worth \subseteq Seq(Byte) /\ Worth \subseteq Ax25Frame
  BY LinkAssumption DEF Worth
<1>5. Queue \in Seq(Seq(Byte))
  <2>1. \A b \in Seq(Byte) : Underway(b) \in Seq(Seq(Byte))
    BY UnderwayIsFrames
  <2> QED BY Zenon, <1>2, <1>3, <2>1
<1> QED BY <1>1, <1>2, <1>3, <1>4, <1>5

\* A stream of which the queue stays as it is, or is a beginning of the old.
LEMMA LosesTail ==
  ASSUME NEW a \in Seq(Byte), NEW c \in Seq(Byte)
  PROVE  /\ Len(Underway(a)) \in 0 .. Len(Underway(a \o c))
         /\ Underway(a) = SubSeq(Underway(a \o c), 1, Len(Underway(a)))
<1>1. Underway(a \o c) = Underway(a) \o Underway(Rest(a) \o c)
  BY UnderwayCut
<1>2. Rest(a) \in Seq(Byte)
  BY RestIsBeginning
<1>3. Rest(a) \o c \in Seq(Byte)
  BY <1>2, JoinedBytes
<1>4. \A b \in Seq(Byte) : Underway(b) \in Seq(Seq(Byte))
  BY UnderwayIsFrames
<1>5. \A u, v \in Seq(Seq(Byte)) : Len(u) \in 0 .. Len(u \o v) /\ SubSeq(u \o v, 1, Len(u)) = u
  BY JoinedParts
<1> QED BY Zenon, <1>1, <1>3, <1>4, <1>5

\* A frame channel that has lost its last frames.
LEMMA IsLose ==
  ASSUME NEW k \in 0 .. Len(Queue), Queue' = SubSeq(Queue, 1, k), got' = got
  PROVE  ChannelStep
<1>1. Channel!Lose
  BY DEF Channel!Lose, Queue
<1> QED BY <1>1 DEF ChannelStep, Channel!Next

LEMMA InitLinkInv ==
  LinkInit => LinkInv /\ Channel!Init
<1> SUFFICES ASSUME LinkInit PROVE LinkInv /\ Channel!Init
  OBVIOUS
<1>1. <<>> \o <<>> = <<>> /\ <<>> \in Seq(Byte)
  OBVIOUS
<1>2. buffer \o wire = <<>> /\ got = <<>>
  BY <1>1 DEF LinkInit
<1>3. Underway(<<>>) = <<>>
  BY <1>1, UnderwayIsFrames
<1>4. Queue = <<>>
  BY Zenon, <1>2, <1>3 DEF Queue, Underway
<1>5. Channel!Init
  BY Zenon, <1>2, <1>4 DEF Channel!Init, Queue
<1>6. BufferIsOneBeginning
  BY LinkAssumption DEF LinkInit, BufferIsOneBeginning, LinkTypeOK
<1>7. <<>> \in Seq(Worth)
  OBVIOUS
<1> QED BY <1>4, <1>5, <1>6, <1>7 DEF LinkInv, LinkInit

LEMMA ConnectStep ==
  ASSUME LinkInv, Connect
  PROVE  LinkInv' /\ ChannelStep
<1>1. <<>> \o <<>> = <<>> /\ <<>> \in Seq(Byte)
  OBVIOUS
<1>2. (buffer \o wire)' = <<>> /\ got' = got
  BY <1>1 DEF Connect
<1>3. Underway(<<>>) = <<>>
  BY <1>1, UnderwayIsFrames
<1>4. Queue' = <<>>
  BY Zenon, <1>2, <1>3 DEF Queue, Underway
<1>5. 0 \in 0 .. Len(Queue) /\ SubSeq(Queue, 1, 0) = <<>>
  BY LinkFacts, SubSeqEmpty
<1>6. ChannelStep
  BY <1>2, <1>4, <1>5, IsLose
<1>7. BufferIsOneBeginning'
  BY DEF LinkInv, BufferIsOneBeginning, LinkTypeOK, Connect
<1>8. Rest(<<>>) = <<>> /\ <<>> \in Seq(Worth)
  BY LoneFend
<1>9. Rest(buffer \o wire)' \in Between
  BY Zenon, <1>2, <1>8 DEF Between
<1> QED BY <1>4, <1>6, <1>7, <1>8, <1>9 DEF LinkInv, Between

\* What a frame, FENDs and a read do to the streams and to the queue.
LEMMA SendMoves ==
  ASSUME LinkInv, NEW f \in Ax25Frame, TncSends(f)
  PROVE  /\ wire' \in Seq(Byte) /\ (buffer \o wire)' = (buffer \o wire) \o Encode(f)
         /\ Queue' = Underway((buffer \o wire) \o Encode(f)) /\ got' = got
<1>1. Encode(f) \in Seq(Byte)
  <2>1. f \in Seq(Byte)
    BY LinkAssumption
  <2> QED BY <2>1, EncodeDecodes
<1>2. buffer' = buffer /\ wire' = wire \o Encode(f) /\ got' = got
  BY DEF TncSends
<1>3. (buffer \o wire) \o Encode(f) = buffer \o (wire \o Encode(f)) /\ wire \o Encode(f) \in Seq(Byte)
  BY <1>1, LinkFacts, JoinedBytes
<1> QED BY Zenon, <1>2, <1>3 DEF Queue, Underway

LEMMA FendsMove ==
  ASSUME LinkInv, NEW n \in IdleFends, TncSendsFends(n)
  PROVE  /\ wire' \in Seq(Byte) /\ Rest(buffer \o wire)' \in Between
         /\ Queue' = Queue /\ got' = got
<1>1. PICK b : b = buffer \o wire /\ b \in Seq(Byte)
  BY LinkFacts
<1>2. Rest(b) \in Between /\ n \in Nat
  BY <1>1, LinkAssumption DEF LinkInv, TncSendsFends
<1>3. /\ Fends(n) \in Seq(Byte) /\ Rest(b \o Fends(n)) \in Between
      /\ DecodeFrames[b \o Fends(n)] = DecodeFrames[b]
  BY <1>1, <1>2, FendsMakeNoFrame
<1>4. (buffer \o wire)' = b \o Fends(n) /\ wire' \in Seq(Byte)
  <2>1. buffer' = buffer /\ wire' = wire \o Fends(n)
    BY DEF TncSendsFends, Fends
  <2>2. (buffer \o wire) \o Fends(n) = buffer \o (wire \o Fends(n)) /\ wire \o Fends(n) \in Seq(Byte)
    BY <1>3, LinkFacts, JoinedBytes
  <2> QED BY Zenon, <1>1, <2>1, <2>2
<1>5. Queue' = Queue /\ got' = got
  BY Zenon, <1>1, <1>3, <1>4 DEF Queue, TncSendsFends
<1>6. Rest(buffer \o wire)' \in Between
  BY Zenon, <1>3, <1>4
<1> QED BY <1>4, <1>5, <1>6

LEMMA SendsStep ==
  ASSUME LinkInv, NEW f \in Ax25Frame, TncSends(f)
  PROVE  LinkInv' /\ ChannelStep
<1>1. PICK b : b = buffer \o wire /\ b \in Seq(Byte)
  BY LinkFacts
<1>2. Rest(b) \in Between /\ f \in Seq(Byte) /\ conn' = "open"
  BY <1>1, LinkAssumption DEF LinkInv, TncSends
<1>3. /\ b \o Encode(f) \in Seq(Byte) /\ Rest(b \o Encode(f)) \in Between
      /\ \/ Underway(b \o Encode(f)) = Underway(b)
         \/ f \notin Ignored /\ Underway(b \o Encode(f)) = Append(Underway(b), f)
  BY <1>1, <1>2, UnderwaySends
<1>4. wire' \in Seq(Byte) /\ (buffer \o wire)' = (buffer \o wire) \o Encode(f)
  BY SendMoves
<1>5. (buffer \o wire)' = b \o Encode(f) /\ wire' \in Seq(Byte)
  BY Zenon, <1>1, <1>4
<1>6. Queue' = Underway(b \o Encode(f)) /\ Queue = Underway(b) /\ got' = got
  BY Zenon, <1>1, <1>5 DEF Queue, Underway, TncSends
<1>7. Rest(buffer \o wire)' \in Between
  BY Zenon, <1>3, <1>5
<1>8. BufferIsOneBeginning'
  BY <1>5, LinkAssumption DEF LinkInv, BufferIsOneBeginning, LinkTypeOK, TncSends
<1>9. CASE Queue' = Queue
  <2>1. Queue' \in Seq(Worth)
    BY <1>9 DEF LinkInv
  <2>2. ChannelStep
    BY <1>6, <1>9 DEF ChannelStep
  <2> QED BY <1>7, <1>8, <2>1, <2>2 DEF LinkInv
<1>10. CASE f \notin Ignored /\ Queue' = Append(Queue, f)
  <2>1. f \in Worth
    BY <1>10 DEF Worth
  <2>2. Queue' \in Seq(Worth)
    BY <1>10, <2>1 DEF LinkInv
  <2>3. Channel!Send
    BY <1>6, <1>10, <2>1 DEF Channel!Send, Queue
  <2>4. ChannelStep
    BY <2>3 DEF ChannelStep, Channel!Next
  <2> QED BY <1>7, <1>8, <2>2, <2>4 DEF LinkInv
<1> QED BY <1>3, <1>6, <1>9, <1>10

LEMMA FendsStep ==
  ASSUME LinkInv, NEW n \in IdleFends, TncSendsFends(n)
  PROVE  LinkInv' /\ ChannelStep
<1>1. /\ wire' \in Seq(Byte) /\ Rest(buffer \o wire)' \in Between
      /\ Queue' = Queue /\ got' = got
  BY FendsMove
<1>2. BufferIsOneBeginning'
  BY <1>1, LinkAssumption DEF LinkInv, BufferIsOneBeginning, LinkTypeOK, TncSendsFends
<1> QED BY <1>1, <1>2 DEF LinkInv, ChannelStep

LEMMA BreakStep ==
  ASSUME LinkInv, Break
  PROVE  LinkInv' /\ ChannelStep
<1>1. PICK k \in 0 .. Len(wire) : wire' = SubSeq(wire, 1, k)
  BY DEF Break
<1>2. PICK w : w = SubSeq(wire, k + 1, Len(wire))
  OBVIOUS
<1>3. wire' \in Seq(Byte) /\ w \in Seq(Byte) /\ wire' \o w = wire
  BY <1>1, <1>2, LinkFacts, TwoParts
<1>4. PICK a : a = buffer \o wire' /\ a \in Seq(Byte)
  BY <1>3, LinkFacts, JoinedBytes
<1>5. a \o w = buffer \o wire
  <2>1. (buffer \o wire') \o w = buffer \o (wire' \o w)
    <3>1. buffer \in Seq(Byte)
      BY LinkFacts
    <3> QED BY Zenon, <1>3, <3>1, BytesAssociate
  <2> QED BY Zenon, <1>3, <1>4, <2>1
<1>6. (buffer \o wire)' = a /\ got' = got /\ conn' # "open"
  BY <1>4 DEF Break
<1>7. Queue' = Underway(a) /\ Queue = Underway(a \o w)
  BY Zenon, <1>5, <1>6 DEF Queue, Underway
<1>8. Len(Queue') \in 0 .. Len(Queue) /\ Queue' = SubSeq(Queue, 1, Len(Queue'))
  <2>1. \A c \in Seq(Byte) : /\ Len(Underway(a)) \in 0 .. Len(Underway(a \o c))
                             /\ Underway(a) = SubSeq(Underway(a \o c), 1, Len(Underway(a)))
    BY <1>4, LosesTail
  <2> QED BY Zenon, <1>3, <1>7, <2>1
<1>9. ChannelStep
  <2>1. PICK j \in 0 .. Len(Queue) : j = Len(Queue')
    BY <1>8
  <2>2. Queue' = SubSeq(Queue, 1, j)
    BY Zenon, <1>8, <2>1
  <2> QED BY <1>6, <2>1, <2>2, IsLose
<1>10. Queue' \in Seq(Worth)
  <2>1. Underway(a \o w) = Underway(a) \o Underway(Rest(a) \o w)
    BY <1>3, <1>4, UnderwayCut
  <2>2. Rest(a) \in Seq(Byte)
    BY <1>4, RestIsBeginning
  <2>3. Rest(a) \o w \in Seq(Byte)
    BY <1>3, <2>2, JoinedBytes
  <2>4. Underway(a) \in Seq(Seq(Byte)) /\ Underway(Rest(a) \o w) \in Seq(Seq(Byte))
    BY <1>4, <2>3, UnderwayIsFrames
  <2>5. \A u, v \in Seq(Seq(Byte)) : u \o v \in Seq(Worth) => u \in Seq(Worth)
    BY LinkFacts, PartsAreFrames
  <2>6. Queue \in Seq(Worth)
    BY LinkFacts
  <2>7. Queue' \in Seq(Worth)
    BY Zenon, <1>7, <2>1, <2>4, <2>5, <2>6
  <2> QED BY <2>7 DEF Worth
<1>11. BufferIsOneBeginning'
  BY <1>3, LinkAssumption DEF LinkInv, BufferIsOneBeginning, LinkTypeOK, Break
<1> QED BY <1>6, <1>9, <1>10, <1>11 DEF LinkInv

LEMMA ReadMoves ==
  ASSUME LinkInv, NEW k \in 1 .. Len(wire), Read(k)
  PROVE  /\ \E a \in Seq(Byte) : buffer' = Rest(a)
         /\ wire' \in Seq(Byte) /\ conn' = conn
         /\ Rest(buffer \o wire)' = Rest(buffer \o wire)
         /\ \E D : /\ D \in Seq(Seq(Byte)) /\ D \in Seq(Worth) /\ got' = got \o D
                  /\ Queue = D \o Queue' /\ Queue' \in Seq(Seq(Byte)) /\ Queue' \in Seq(Worth)
<1>1. k \in 0 .. Len(wire)
  BY LinkFacts
<1>2. PICK v : v = SubSeq(wire, 1, k)
  OBVIOUS
<1>3. wire' = SubSeq(wire, k + 1, Len(wire)) /\ buffer' = Rest(buffer \o v)
  BY <1>2 DEF Read
<1>4. v \in Seq(Byte) /\ wire' \in Seq(Byte) /\ v \o wire' = wire
  BY <1>1, <1>2, <1>3, LinkFacts, TwoParts
<1>5. PICK a : a = buffer \o v /\ a \in Seq(Byte)
  BY <1>4, LinkFacts, JoinedBytes
<1>6. a \o wire' = buffer \o wire
  <2>1. (buffer \o v) \o wire' = buffer \o (v \o wire')
    <3>1. buffer \in Seq(Byte)
      BY LinkFacts
    <3> QED BY Zenon, <1>4, <3>1, BytesAssociate
  <2> QED BY Zenon, <1>4, <1>5, <2>1
<1>7. /\ buffer' = Rest(a) /\ (buffer \o wire)' = Rest(a) \o wire' /\ conn' = conn
      /\ got' = got \o Underway(a)
  BY <1>2, <1>3, <1>5 DEF Read, Underway
<1>8. Rest(a) \in Seq(Byte)
  BY <1>5, RestIsBeginning
<1>9. Queue = Underway(a) \o Queue'
  <2>1. Underway(a \o wire') = Underway(a) \o Underway(Rest(a) \o wire')
    BY <1>4, <1>5, UnderwayCut
  <2> QED BY Zenon, <1>6, <1>7, <2>1 DEF Queue, Underway
<1>10. Rest(buffer \o wire)' = Rest(buffer \o wire)
  <2>1. Rest(a \o wire') = Rest(Rest(a) \o wire')
    BY <1>4, <1>5, CutAnywhere
  <2> QED BY Zenon, <1>6, <1>7, <2>1
<1>11. PICK D : D = Underway(a) /\ D \in Seq(Seq(Byte))
  BY <1>5, UnderwayIsFrames
<1>12. Queue' \in Seq(Seq(Byte))
  <2>1. Rest(a) \o wire' \in Seq(Byte)
    BY <1>4, <1>8, JoinedBytes
  <2>2. \A b \in Seq(Byte) : Underway(b) \in Seq(Seq(Byte))
    BY UnderwayIsFrames
  <2> QED BY Zenon, <1>7, <2>1, <2>2 DEF Queue, Underway
<1>13. PICK R : R = Queue'
  OBVIOUS
<1>14. Queue = D \o R /\ R \in Seq(Seq(Byte)) /\ got' = got \o D
  BY Zenon, <1>7, <1>9, <1>11, <1>12, <1>13
<1>15. D \in Seq(Worth) /\ R \in Seq(Worth)
  <2>1. \A u, w \in Seq(Seq(Byte)) : u \o w \in Seq(Worth) => u \in Seq(Worth) /\ w \in Seq(Worth)
    BY LinkFacts, PartsAreFrames
  <2>2. Queue \in Seq(Worth)
    BY LinkFacts
  <2> QED BY Zenon, <1>11, <1>14, <2>1, <2>2
<1>16. /\ D \in Seq(Seq(Byte)) /\ D \in Seq(Worth) /\ got' = got \o D
       /\ Queue = D \o Queue' /\ Queue' \in Seq(Seq(Byte)) /\ Queue' \in Seq(Worth)
  BY Zenon, <1>11, <1>13, <1>14, <1>15
<1>17. (\E c \in Seq(Byte) : buffer' = Rest(c)) /\ wire' \in Seq(Byte) /\ conn' = conn
  BY Zenon, <1>4, <1>5, <1>7
<1> QED BY Zenon, <1>10, <1>16, <1>17

LEMMA ReadStep ==
  ASSUME LinkInv, NEW k \in 1 .. Len(wire), Read(k)
  PROVE  LinkInv' /\ ChannelStep
<1>1. PICK a \in Seq(Byte) : buffer' = Rest(a)
  BY ReadMoves
<1>2. wire' \in Seq(Byte) /\ conn' = conn /\ Rest(buffer \o wire)' = Rest(buffer \o wire)
  BY ReadMoves
<1>3. PICK D : /\ D \in Seq(Seq(Byte)) /\ D \in Seq(Worth) /\ got' = got \o D
               /\ Queue = D \o Queue' /\ Queue' \in Seq(Seq(Byte)) /\ Queue' \in Seq(Worth)
  BY ReadMoves
<1>4. D \in Seq(Seq(Byte))
  BY <1>3
<1>5. PICK R : R = Queue'
  OBVIOUS
<1>6. Queue = D \o R /\ R \in Seq(Seq(Byte)) /\ got' = got \o D
  BY Zenon, <1>3, <1>5
<1>7. got' \in Seq(Worth)
  BY <1>3, LinkFacts, ConcatProperties
<1>8. BufferIsOneBeginning'
  <2>1. buffer' \in Seq(Byte) /\ \A i \in DOMAIN buffer' : buffer'[i] = FEND <=> i = 1
    BY <1>1, RestIsBeginning
  <2> QED BY <1>2, <1>7, <2>1 DEF LinkInv, BufferIsOneBeginning, LinkTypeOK, Read
<1>9. LinkInv'
  BY <1>2, <1>3, <1>8 DEF LinkInv
<1>10. /\ Len(D) \in 0 .. Len(D \o R) /\ SubSeq(D \o R, 1, Len(D)) = D
       /\ SubSeq(D \o R, Len(D) + 1, Len(D \o R)) = R
  BY <1>4, <1>6, JoinedParts
<1>11. ChannelStep
  <2>1. CASE D = <<>>
    <3>1. D \o R = R /\ got \o D = got
      BY <1>6, <2>1, JoinedFrames, LinkFacts, ConcatEmptySeq
    <3> QED BY Zenon, <1>5, <1>6, <3>1 DEF ChannelStep
  <2>2. CASE D # <<>>
    <3>1. PICK j : j = Len(D) /\ j \in 1 .. Len(Queue)
      <4>1. Len(D) # 0 /\ Len(D) \in Nat
        BY <1>4, <2>2, EmptySeq
      <4>2. Len(D) \in 0 .. Len(Queue)
        BY Zenon, <1>6, <1>10
      <4>3. Len(Queue) \in Nat
        BY LinkFacts
      <4> QED BY <4>1, <4>2, <4>3
    <3>2. got' = got \o SubSeq(Queue, 1, j) /\ Queue' = SubSeq(Queue, j + 1, Len(Queue))
      BY Zenon, <1>5, <1>6, <1>10, <3>1
    <3>3. Channel!Deliver
      BY <3>1, <3>2 DEF Channel!Deliver, Queue
    <3> QED BY <3>3 DEF ChannelStep, Channel!Next
  <2> QED BY <2>1, <2>2
<1> QED BY <1>9, <1>11

LEMMA OtherSteps ==
  ASSUME LinkInv, WriteTimesOut \/ ReadTimeout \/ ReadError \/ UNCHANGED linkVars
  PROVE  LinkInv' /\ ChannelStep
<1>1. /\ wire' = wire /\ buffer' = buffer /\ got' = got
      /\ frames' = frames /\ idles' = idles /\ breaks' = breaks
      /\ conn' = "open" => conn = "open"
      /\ conn' \in {"none", "open", "silent", "broken"}
  BY DEF LinkInv, BufferIsOneBeginning, LinkTypeOK, WriteTimesOut, ReadTimeout, ReadError, linkVars
<1>2. Queue' = Queue /\ Rest(buffer \o wire)' = Rest(buffer \o wire)
  BY Zenon, <1>1 DEF Queue
<1>3. BufferIsOneBeginning'
  BY <1>1 DEF LinkInv, BufferIsOneBeginning, LinkTypeOK
<1> QED BY <1>1, <1>2, <1>3 DEF LinkInv, ChannelStep

LEMMA LinkNextStep ==
  LinkInv /\ [LinkNext]_linkVars => LinkInv' /\ ChannelStep
BY ConnectStep, SendsStep, FendsStep, BreakStep, ReadStep, OtherSteps DEF LinkNext

\* As long as a connection lasts no frame disappears, and a UI frame that is
\* sent when no frame has begun is one more to be handed on.
LEMMA HeardStep ==
  ASSUME LinkInv, [LinkNext]_linkVars
  PROVE  /\ conn' = conn /\ frames' = frames => Heard' = Heard
         /\ \A f \in Worth :
              TncSends(f) /\ Rest(buffer \o wire) = <<>> => Heard' = Append(Heard, f)
<1>1. PICK b : b = buffer \o wire /\ b \in Seq(Byte)
  BY LinkFacts
<1>2. got \in Seq(Seq(Byte)) /\ Queue \in Seq(Seq(Byte)) /\ Queue = Underway(b)
  <2>1. got \in Seq(Worth) /\ Worth \subseteq Seq(Byte)
    BY LinkFacts
  <2>2. got \in Seq(Seq(Byte))
    BY <2>1, SeqMonotonic
  <2> QED BY <1>1, <2>2, LinkFacts
<1>3. ASSUME NEW k \in 1 .. Len(wire), Read(k)
      PROVE  Heard' = Heard
  <2>1. PICK D : D \in Seq(Seq(Byte)) /\ got' = got \o D /\ Queue = D \o Queue' /\ Queue' \in Seq(Seq(Byte))
    BY <1>3, ReadMoves
  <2>2. PICK R : R = Queue' /\ R \in Seq(Seq(Byte))
    BY <2>1
  <2>3. (got \o D) \o R = got \o (D \o R)
    <3>1. \A g, h \in Seq(Seq(Byte)) : (got \o g) \o h = got \o (g \o h)
      BY Zenon, <1>2, FramesAssociate
    <3>2. \A h \in Seq(Seq(Byte)) : (got \o D) \o h = got \o (D \o h)
      BY Zenon, <2>1, <3>1
    <3> QED BY Zenon, <2>2, <3>2
  <2> QED BY Zenon, <2>1, <2>2, <2>3 DEF Heard
<1>4. ASSUME NEW f \in Ax25Frame, TncSends(f)
      PROVE  /\ frames' # frames
             /\ Rest(buffer \o wire) = <<>> /\ f \in Worth => Heard' = Append(Heard, f)
  <2>1. frames' # frames
    BY <1>4 DEF TncSends, LinkInv, BufferIsOneBeginning, LinkTypeOK
  <2>2. Rest(b) \in Between /\ f \in Seq(Byte)
    BY <1>1, <1>4, LinkAssumption DEF LinkInv, TncSends
  <2>3. Rest(b) = <<>> /\ f \notin Ignored => Underway(b \o Encode(f)) = Append(Underway(b), f)
    BY <1>1, <2>2, UnderwaySends
  <2>4. Queue' = Underway(b \o Encode(f)) /\ got' = got
    BY <1>4, SendMoves, <1>1
  <2>5. got \o Append(Queue, f) = Append(got \o Queue, f)
    <3>1. <<f>> \in Seq(Seq(Byte)) /\ got \o Queue \in Seq(Seq(Byte))
      BY <1>2, <2>2, ConcatProperties
    <3>2. Append(Queue, f) = Queue \o <<f>> /\ Append(got \o Queue, f) = (got \o Queue) \o <<f>>
      BY <1>2, <2>2, <3>1, AppendIsConcat
    <3>3. \A g, h \in Seq(Seq(Byte)) : (got \o g) \o h = got \o (g \o h)
      BY Zenon, <1>2, FramesAssociate
    <3>4. \A h \in Seq(Seq(Byte)) : (got \o Queue) \o h = got \o (Queue \o h)
      BY Zenon, <1>2, <3>3
    <3> QED BY Zenon, <3>1, <3>2, <3>4
  <2>6. Rest(buffer \o wire) = <<>> /\ f \in Worth => Heard' = Append(Heard, f)
    <3>1. f \in Worth => f \notin Ignored
      BY DEF Worth
    <3> QED BY Zenon, <1>1, <1>2, <2>3, <2>4, <2>5, <3>1 DEF Heard
  <2> QED BY <2>1, <2>6
<1>5. ASSUME NEW n \in IdleFends, TncSendsFends(n)
      PROVE  Heard' = Heard
  <2>1. Queue' = Queue /\ got' = got
    BY <1>5, FendsMove
  <2> QED BY <2>1 DEF Heard
<1>6. Connect \/ Break => conn' # conn
  BY DEF Connect, Break
<1>7. WriteTimesOut \/ ReadTimeout \/ ReadError \/ UNCHANGED linkVars => Heard' = Heard
  BY DEF WriteTimesOut, ReadTimeout, ReadError, linkVars, Heard, Queue
<1>8. conn' = conn /\ frames' = frames => Heard' = Heard
  BY <1>3, <1>4, <1>5, <1>6, <1>7 DEF LinkNext
<1>9. ASSUME NEW f \in Worth, TncSends(f), Rest(buffer \o wire) = <<>>
      PROVE  Heard' = Append(Heard, f)
  BY <1>4, <1>9, LinkFacts
<1> QED BY <1>8, <1>9

\* After any number of reads, breaks and reconnections, the KISS buffer holds
\* at most one frame that has begun, and OnFrame was given UI frames only.
THEOREM Beginning == LinkSpec => []BufferIsOneBeginning
<1>1. LinkInit => LinkInv
  BY InitLinkInv
<1>2. LinkInv /\ [LinkNext]_linkVars => LinkInv'
  BY LinkNextStep
<1>3. LinkInv => BufferIsOneBeginning
  BY DEF LinkInv
<1> QED BY <1>1, <1>2, <1>3, PTL DEF LinkSpec

\* However the stream is cut into reads and wherever a connection ends, the
\* daemon is given whole frames, in order and each at most once.
THEOREM LinkRefinement == LinkSpec => ImplementsFrameChannel
<1>1. LinkInit => LinkInv /\ Channel!Init
  BY InitLinkInv
<1>2. LinkInv /\ [LinkNext]_linkVars => LinkInv' /\ ChannelStep
  BY LinkNextStep
<1>3. ChannelStep => [Channel!Next]_<<Queue, got>>
  BY DEF ChannelStep
<1>4. ImplementsFrameChannel <=> Channel!Init /\ [][Channel!Next]_<<Queue, got>>
  BY DEF ImplementsFrameChannel, Channel!Spec, Queue
<1> QED BY <1>1, <1>2, <1>3, <1>4, PTL DEF LinkSpec

\* No frame disappears as long as a connection lasts, and what is sent when
\* no frame has begun is handed on in its turn.
THEOREM NothingLost == LinkSpec => NoneLost
<1>1. LinkInit => LinkInv
  BY InitLinkInv
<1>2. LinkInv /\ [LinkNext]_linkVars => LinkInv'
  BY LinkNextStep
<1> DEFINE A == /\ conn' = conn /\ frames' = frames => Heard' = Heard
                /\ \A f \in Worth :
                     TncSends(f) /\ Rest(buffer \o wire) = <<>> => Heard' = Append(Heard, f)
<1>3. LinkInv /\ [LinkNext]_linkVars => [A]_linkVars
  BY HeardStep
<1>4. NoneLost <=> [][A]_linkVars
  BY DEF NoneLost
<1> HIDE DEF A
<1> QED BY <1>1, <1>2, <1>3, <1>4, PTL DEF LinkSpec
=============================================================================
