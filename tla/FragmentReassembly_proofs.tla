---------------------- MODULE FragmentReassembly_proofs ----------------------
(* Proofs about FragmentReassembly, for messages of any length, any         *)
(* thresholds and any timeouts.                                             *)
EXTENDS FragmentReassembly, FiniteSetTheorems, TLAPS

\* Different thresholds make different numbers of fragments.
DistinctTotals == \A c, d \in Threshold : Total(c) = Total(d) => c = d

\* A collector that holds slices of the cut that its total stands for.
OfOneCut(col) ==
  \A d \in Threshold : col.total = Total(d) =>
    \A i \in DOMAIN col.frags : col.frags[i] = Slice(d, i)

(* While a message was put together less than SeenTicks - CollectorTicks - 1 *)
(* ticks ago, its first fragment is still marked, in no collector and not    *)
(* about to be added to one.                                                 *)
FirstIsMarked ==
  since + CollectorTicks + 1 < SeenTicks =>
    /\ seen[0] \in since .. since + CollectorTicks + 1
    /\ hand # Free => hand[2] # 0
    /\ collector # NoCollector => 0 \notin DOMAIN collector.frags

IInv == TypeOK /\ SeenCoversCollector /\ FirstIsMarked

-----------------------------------------------------------------------------
(* FragmentMessage.                                                         *)

\* The fragment size is positive.
LEMMA SizePositive ==
  ASSUME NEW c \in Threshold
  PROVE  Size(c) \in Nat \ {0}
BY FragmentAssumption DEF Size

\* Rounded up: one fragment fewer would not do, and these do.
LEMMA TotalCovers ==
  ASSUME NEW c \in Threshold
  PROVE  /\ Total(c) \in Nat \ {0}
         /\ (Total(c) - 1) * Size(c) < Length
         /\ Length <= Total(c) * Size(c)
<1> DEFINE n == Length + Size(c) - 1
<1>1. Size(c) \in Nat \ {0} /\ Length \in Nat \ {0}
  BY SizePositive, FragmentAssumption
<1>2. n \in Nat /\ n >= Size(c)
  BY <1>1
<1>3. ASSUME NEW a \in Nat, NEW b \in Nat \ {0}
      PROVE  a \div b \in Nat /\ (a \div b) * b <= a /\ a < (a \div b) * b + b
  BY Z3
<1>4. /\ Total(c) \in Nat
      /\ Total(c) * Size(c) <= n
      /\ n < Total(c) * Size(c) + Size(c)
  BY <1>1, <1>2, <1>3 DEF Total
<1>5. Total(c) # 0
  BY <1>1, <1>2, <1>4
<1>6. (Total(c) - 1) * Size(c) = Total(c) * Size(c) - Size(c)
  BY <1>1, <1>4
<1> QED BY <1>1, <1>4, <1>5, <1>6

\* FragmentMessage and Reassemble fit: all slices of one cut, put together in
\* order, are the message, with nothing missing and nothing twice.
THEOREM SlicesMakeTheMessage ==
  ASSUME NEW c \in Threshold
  PROVE  Whole([j \in Index(c) |-> Slice(c, j)], Total(c))
<1> DEFINE f == [j \in Index(c) |-> Slice(c, j)]
<1>1. /\ Size(c) \in Nat \ {0} /\ Length \in Nat
      /\ Total(c) \in Nat \ {0}
      /\ (Total(c) - 1) * Size(c) < Length
      /\ Length <= Total(c) * Size(c)
  BY SizePositive, TotalCovers, FragmentAssumption
<1>2. \A j \in Index(c) : f[j][1] = j * Size(c) /\ f[j][2] = End(c, j)
  BY DEF Slice
<1>3. f[0][1] = 0
  BY <1>1, <1>2 DEF Index
<1>4. f[Total(c) - 1][2] = Length
  <2>1. End(c, Total(c) - 1) = Length
    <3>1. (Total(c) - 1) + 1 = Total(c)
      BY <1>1
    <3>2. Total(c) * Size(c) \in Nat
      BY <1>1
    <3> QED BY <1>1, <3>1, <3>2 DEF End
  <2> QED BY <1>1, <1>2, <2>1 DEF Index
<1>5. ASSUME NEW i \in 1 .. Total(c) - 1 PROVE f[i][1] = f[i - 1][2]
  <2>1. i * Size(c) <= (Total(c) - 1) * Size(c)
    BY <1>1
  <2>2. i * Size(c) \in Nat /\ (i - 1) + 1 = i /\ ~(i * Size(c) > Length)
    BY <1>1, <2>1
  <2>3. End(c, i - 1) = i * Size(c)
    BY <2>2 DEF End
  <2> QED BY <1>1, <1>2, <2>3 DEF Index
<1> QED BY <1>3, <1>4, <1>5 DEF Whole

-----------------------------------------------------------------------------
(* Collectors.                                                              *)

\* A collector is not NoCollector, and its fragments have known indexes.
LEMMA CollectorShape ==
  ASSUME NEW col, IsCollector(col)
  PROVE  /\ col # NoCollector
         /\ DOMAIN col.frags \subseteq AllIndex
         /\ col.age \in 0 .. CollectorTicks - 1
<1>1. PICK d \in Threshold : \E I \in SUBSET Index(d) :
        col \in [total : {Total(d)}, frags : [I -> Slices], age : 0 .. CollectorTicks - 1]
  BY DEF IsCollector
<1>2. PICK I \in SUBSET Index(d) :
        col \in [total : {Total(d)}, frags : [I -> Slices], age : 0 .. CollectorTicks - 1]
  BY <1>1
<1>3. col.total # 0 /\ NoCollector.total = 0
  BY <1>2, TotalCovers DEF NoCollector
<1>4. DOMAIN col.frags = I /\ col.age \in 0 .. CollectorTicks - 1
  BY <1>2
<1> QED BY <1>3, <1>4 DEF AllIndex

\* A complete collector has all its indexes, the first among them.
LEMMA CompleteHasAll ==
  ASSUME NEW col, IsCollector(col), IsComplete(col)
  PROVE  \E d \in Threshold : /\ col.total = Total(d)
                              /\ DOMAIN col.frags = Index(d)
                              /\ 0 \in DOMAIN col.frags
                              /\ \E I : col.frags \in [I -> Slices]
<1>0. PICK d \in Threshold : \E I \in SUBSET Index(d) :
        col \in [total : {Total(d)}, frags : [I -> Slices], age : 0 .. CollectorTicks - 1]
  BY DEF IsCollector
<1>1. PICK I \in SUBSET Index(d) :
        col \in [total : {Total(d)}, frags : [I -> Slices], age : 0 .. CollectorTicks - 1]
  BY <1>0
<1>2. Total(d) \in Nat \ {0}
  BY TotalCovers
<1>3. IsFiniteSet(Index(d)) /\ Cardinality(Index(d)) = Total(d)
  <2>1. 0 \in Int /\ Total(d) - 1 \in Int /\ ~(0 > Total(d) - 1)
        /\ (Total(d) - 1) - 0 + 1 = Total(d)
    BY <1>2
  <2>2. /\ IsFiniteSet(0 .. Total(d) - 1)
        /\ Cardinality(0 .. Total(d) - 1) = (Total(d) - 1) - 0 + 1
    BY <2>1, FS_Interval
  <2> QED BY <2>1, <2>2 DEF Index
<1>4. DOMAIN col.frags = I /\ col.total = Total(d) /\ col.frags \in [I -> Slices]
  BY <1>1
<1>5. Cardinality(I) = Total(d)
  BY <1>4 DEF IsComplete
<1>6. I = Index(d)
  BY <1>3, <1>5, FS_Subset
<1> QED BY SMTT(30), <1>2, <1>4, <1>6 DEF Index

\* A complete collector of one cut holds the message.
LEMMA CompleteIsWhole ==
  ASSUME NEW col, IsCollector(col), OfOneCut(col), IsComplete(col)
  PROVE  Whole(col.frags, col.total)
<1>1. PICK d \in Threshold : /\ col.total = Total(d)
                             /\ DOMAIN col.frags = Index(d)
                             /\ \E I : col.frags \in [I -> Slices]
  BY CompleteHasAll
<1>2. col.frags = [j \in Index(d) |-> Slice(d, j)]
  BY <1>1 DEF OfOneCut
<1> QED BY <1>1, <1>2, SlicesMakeTheMessage

\* What AddFragment makes of the collector: the same or a new one, with at
\* most the one index more.
LEMMA AddedIsCollector ==
  ASSUME collector = NoCollector \/ IsCollector(collector),
         NEW c \in Threshold, NEW i \in Index(c),
         NEW col, col = Added(CollectorFor(c), c, i)
  PROVE  /\ IsCollector(col)
         /\ collector = NoCollector => DOMAIN col.frags \subseteq {i}
         /\ collector # NoCollector => /\ DOMAIN col.frags \subseteq DOMAIN collector.frags \cup {i}
                                       /\ col.age = collector.age
         /\ DistinctTotals /\ (collector # NoCollector => OfOneCut(collector)) => OfOneCut(col)
<1> DEFINE old == CollectorFor(c)
<1>1. /\ IsCollector(old)
      /\ collector = NoCollector => old.frags = [j \in {} |-> <<0, 0>>]
      /\ collector # NoCollector => old = collector
  <2>1. CASE collector = NoCollector
    <3>1. old = [total |-> Total(c), frags |-> [j \in {} |-> <<0, 0>>], age |-> 0]
      BY <2>1 DEF CollectorFor
    <3>2. [j \in {} |-> <<0, 0>>] \in [{} -> Slices] /\ {} \in SUBSET Index(c)
      OBVIOUS
    <3>3. 0 \in 0 .. CollectorTicks - 1
      BY FragmentAssumption
    <3>4. old \in [total : {Total(c)}, frags : [{} -> Slices], age : 0 .. CollectorTicks - 1]
      BY <3>1, <3>2, <3>3
    <3>5. IsCollector(old)
      BY <3>2, <3>4 DEF IsCollector
    <3>6. old.frags = [j \in {} |-> <<0, 0>>]
      BY <3>1
    <3> QED BY <2>1, <3>5, <3>6
  <2>2. CASE collector # NoCollector
    BY <2>2 DEF CollectorFor
  <2> QED BY <2>1, <2>2
<1>2. (collector # NoCollector => OfOneCut(collector)) => OfOneCut(old)
  BY <1>1 DEF OfOneCut
<1>3. CASE col = old
  BY <1>1, <1>2, <1>3
<1>4. CASE col # old
  <2>1. Total(c) = old.total /\ i \notin DOMAIN old.frags /\ col = With(old, c, i)
    BY <1>4 DEF Added
  <2>2. PICK d \in Threshold : \E I \in SUBSET Index(d) :
          old \in [total : {Total(d)}, frags : [I -> Slices], age : 0 .. CollectorTicks - 1]
    BY <1>1 DEF IsCollector
  <2>3. PICK I \in SUBSET Index(d) :
          old \in [total : {Total(d)}, frags : [I -> Slices], age : 0 .. CollectorTicks - 1]
    BY <2>2
  <2>4. Index(d) = Index(c) /\ Slice(c, i) \in Slices
    BY <2>1, <2>3 DEF Index, Slices, AllIndex
  <2> DEFINE g == [j \in I \cup {i} |-> IF j = i THEN Slice(c, i) ELSE old.frags[j]]
  <2>5. /\ col = [old EXCEPT !.frags = g]
        /\ col.total = Total(d) /\ col.frags = g /\ col.age = old.age
        /\ col \in [total : {Total(d)}, frags : {g}, age : 0 .. CollectorTicks - 1]
    BY <2>1, <2>3 DEF With
  <2>6. g \in [I \cup {i} -> Slices] /\ I \cup {i} \in SUBSET Index(d)
    BY <2>3, <2>4
  <2>7. IsCollector(col)
    <3> HIDE DEF g
    <3> QED BY <2>5, <2>6 DEF IsCollector
  <2>8. DOMAIN col.frags = DOMAIN old.frags \cup {i}
    BY <2>3, <2>5
  <2>9. ASSUME DistinctTotals, OfOneCut(old) PROVE OfOneCut(col)
    <3>1. ASSUME NEW e \in Threshold, col.total = Total(e) PROVE e = c
      BY <2>1, <2>3, <2>5, <2>9, <3>1 DEF DistinctTotals
    <3>2. \A j \in I : old.frags[j] = Slice(c, j)
      BY <2>1, <2>3, <2>9 DEF OfOneCut
    <3>3. \A j \in I \cup {i} : col.frags[j] = Slice(c, j)
      BY <2>5, <3>2
    <3> QED BY <2>3, <2>8, <3>1, <3>3 DEF OfOneCut
  <2> QED BY <1>1, <1>2, <2>5, <2>7, <2>8, <2>9
<1> QED BY <1>3, <1>4
-----------------------------------------------------------------------------
(* The invariant.                                                           *)

\* The initial state satisfies the invariant.
LEMMA InitIInv == Init => IInv
<1> SUFFICES ASSUME Init PROVE IInv
  OBVIOUS
<1> USE FragmentAssumption DEF Init
<1>1. TypeOK
  <2>1. seen \in [AllIndex -> {Unmarked} \cup 0 .. SeenTicks - 1]
    OBVIOUS
  <2>2. burst \in [Threshold -> SUBSET AllIndex] /\ got \subseteq {"intact", "garbled"}
    OBVIOUS
  <2>3. since \in 0 .. SeenTicks /\ faults \in 0 .. MaxFaults
    BY DEF Never
  <2>4. repeated \in BOOLEAN
    BY Zenon
  <2> QED BY <2>1, <2>2, <2>3, <2>4 DEF TypeOK
<1>2. SeenCoversCollector
  BY DEF SeenCoversCollector
<1>3. FirstIsMarked
  <2>1. ~(SeenTicks + CollectorTicks + 1 < SeenTicks)
    OBVIOUS
  <2> QED BY <2>1 DEF FirstIsMarked, Never
<1> QED BY <1>1, <1>2, <1>3 DEF IInv

\* Every index of a cut is among AllIndex, and 0 is one of every cut.
LEMMA Indexes ==
  ASSUME NEW c \in Threshold
  PROVE  Index(c) \subseteq AllIndex /\ 0 \in Index(c) /\ 0 \in AllIndex
<1>1. Total(c) \in Nat \ {0}
  BY TotalCovers
<1> QED BY <1>1 DEF AllIndex, Index

\* A fragment in hand has a threshold and one of its indexes.
LEMMA InHand ==
  ASSUME NEW c \in Threshold, NEW i \in Index(c)
  PROVE  <<c, i>> # Free /\ <<c, i>>[2] = i
BY DEF Free

(* The first statement of handleFRAG: a fragment that was not marked is     *)
(* marked, which the first one of a message just put together is not.       *)
LEMMA HearStep ==
  ASSUME IInv, NEW c \in Threshold, NEW i \in Index(c), HearFragment(c, i)
  PROVE  IInv' /\ UNCHANGED <<collector, got, since>>
<1> USE FragmentAssumption
<1>1. /\ seen \in [AllIndex -> {Unmarked} \cup 0 .. SeenTicks - 1]
      /\ collector = NoCollector \/ IsCollector(collector)
      /\ since \in 0 .. SeenTicks
      /\ burst \in [Threshold -> SUBSET AllIndex]
  BY DEF IInv, TypeOK
<1>2. /\ burst' \in [Threshold -> SUBSET AllIndex] /\ hand = Free
      /\ UNCHANGED <<collector, sweep, repeated, got, since, pace, faults>>
  BY <1>1 DEF HearFragment
<1>3. i \in AllIndex /\ 0 \in AllIndex
  BY Indexes
<1>4. CASE UNCHANGED <<seen, hand>>
  BY <1>2, <1>4 DEF IInv, TypeOK, IsCollector, SeenCoversCollector, Lag, FirstIsMarked
<1>5. CASE seen' = [seen EXCEPT ![i] = 0] /\ hand' = <<c, i>> /\ seen[i] = Unmarked
  <2>1. /\ seen' \in [AllIndex -> {Unmarked} \cup 0 .. SeenTicks - 1]
        /\ \A j \in AllIndex : seen'[j] = IF j = i THEN 0 ELSE seen[j]
    BY <1>1, <1>3, <1>5
  <2>2. hand' # Free /\ hand'[2] = i
    BY <1>5, InHand
  <2>3. TypeOK'
    BY <1>2, <1>5, <2>1 DEF IInv, TypeOK, IsCollector
  <2>4. SeenCoversCollector'
    <3>1. seen'[hand'[2]] \in 0 .. 1
      BY <1>3, <2>1, <2>2
    <3>2. ASSUME collector # NoCollector, NEW j \in DOMAIN collector.frags
          PROVE  seen'[j] \in 0 .. collector.age + Lag
      <4>1. j \in AllIndex
        BY <1>1, <3>2, CollectorShape
      <4>2. seen[j] \in 0 .. collector.age + Lag
        BY <3>2 DEF IInv, SeenCoversCollector
      <4>3. j # i
        BY <1>5, <4>2 DEF Unmarked
      <4> QED BY <2>1, <4>1, <4>2, <4>3
    <3> QED BY <1>2, <2>2, <3>1, <3>2 DEF SeenCoversCollector, Lag
  <2>5. FirstIsMarked'
    <3> SUFFICES ASSUME since + CollectorTicks + 1 < SeenTicks
                 PROVE  /\ seen'[0] \in since .. since + CollectorTicks + 1
                        /\ i # 0
                        /\ collector # NoCollector => 0 \notin DOMAIN collector.frags
      BY <1>2, <2>2 DEF FirstIsMarked
    <3>1. /\ seen[0] \in since .. since + CollectorTicks + 1
          /\ collector # NoCollector => 0 \notin DOMAIN collector.frags
      BY DEF IInv, FirstIsMarked
    <3>2. i # 0
      BY <1>1, <1>5, <3>1 DEF Unmarked
    <3> QED BY <1>3, <2>1, <3>1, <3>2
  <2> QED BY <1>2, <2>3, <2>4, <2>5 DEF IInv
<1> QED BY <1>2, <1>4, <1>5 DEF HearFragment

(* The second: what a collector holds stays marked, and the one that is     *)
(* complete holds the first fragment, whose mark was gone before.           *)
LEMMA AddStep ==
  ASSUME IInv, NEW c \in Threshold, NEW i \in Index(c), AddFragment(c, i)
  PROVE  /\ IInv'
         /\ PutTogether => since = Never \/ since + CollectorTicks + 1 >= SeenTicks
<1> USE FragmentAssumption
<1>1. /\ seen \in [AllIndex -> {Unmarked} \cup 0 .. SeenTicks - 1]
      /\ collector = NoCollector \/ IsCollector(collector)
      /\ got \subseteq {"intact", "garbled"}
      /\ since \in 0 .. SeenTicks
  BY DEF IInv, TypeOK
<1>2. /\ hand = <<c, i>> /\ hand' = Free
      /\ UNCHANGED <<seen, sweep, burst, repeated, pace, faults>>
  BY DEF AddFragment
<1>3. i \in AllIndex /\ 0 \in AllIndex /\ hand # Free /\ hand[2] = i
  BY <1>2, Indexes, InHand
<1> DEFINE col == Added(CollectorFor(c), c, i)
<1>4. /\ IsCollector(col)
      /\ collector = NoCollector => DOMAIN col.frags \subseteq {i}
      /\ collector # NoCollector => /\ DOMAIN col.frags \subseteq DOMAIN collector.frags \cup {i}
                                    /\ col.age = collector.age
  BY <1>1, AddedIsCollector
<1>5. /\ col # NoCollector
      /\ DOMAIN col.frags \subseteq AllIndex
      /\ col.age \in 0 .. CollectorTicks - 1
  BY <1>4, CollectorShape
<1>6. Lag \in 1 .. 2
  BY DEF Lag
<1>7. \A j \in DOMAIN col.frags : seen[j] \in 0 .. col.age + Lag
  <2> SUFFICES ASSUME NEW j \in DOMAIN col.frags PROVE seen[j] \in 0 .. col.age + Lag
    OBVIOUS
  <2>1. CASE j = i
    <3>1. seen[i] \in 0 .. 1
      BY <1>3 DEF IInv, SeenCoversCollector
    <3> HIDE DEF col
    <3> QED BY <1>5, <1>6, <2>1, <3>1
  <2>2. CASE j # i
    <3>1. collector # NoCollector /\ j \in DOMAIN collector.frags
      BY <1>4, <2>2
    <3> HIDE DEF col
    <3> QED BY <1>4, <3>1 DEF IInv, SeenCoversCollector
  <2> QED BY <2>1, <2>2
<1>8. since + CollectorTicks + 1 < SeenTicks =>
        /\ seen[0] \in since .. since + CollectorTicks + 1
        /\ 0 \notin DOMAIN col.frags
  <2> SUFFICES ASSUME since + CollectorTicks + 1 < SeenTicks
               PROVE  /\ seen[0] \in since .. since + CollectorTicks + 1
                      /\ 0 \notin DOMAIN col.frags
    OBVIOUS
  <2>1. /\ seen[0] \in since .. since + CollectorTicks + 1 /\ i # 0
        /\ collector # NoCollector => 0 \notin DOMAIN collector.frags
    BY <1>3 DEF IInv, FirstIsMarked
  <2> QED BY <1>4, <2>1
<1> HIDE DEF col
<1>9. CASE /\ collector' = col
           /\ UNCHANGED <<got, since>>
  <2>1. TypeOK'
    BY <1>1, <1>2, <1>4, <1>9 DEF IInv, TypeOK, IsCollector
  <2>2. SeenCoversCollector'
    BY <1>2, <1>7, <1>9 DEF SeenCoversCollector, Lag
  <2>3. FirstIsMarked'
    BY <1>2, <1>8, <1>9 DEF FirstIsMarked
  <2>4. ~PutTogether
    BY <1>5, <1>9 DEF PutTogether
  <2> QED BY <2>1, <2>2, <2>3, <2>4 DEF IInv
<1>10. CASE /\ IsComplete(col)
            /\ got' = got \cup {IF Whole(col.frags, col.total) THEN "intact" ELSE "garbled"}
            /\ collector' = NoCollector
            /\ since' = 0
  <2>1. 0 \in DOMAIN col.frags
    BY <1>4, <1>10, CompleteHasAll
  <2>2. ~(since + CollectorTicks + 1 < SeenTicks)
    BY <1>8, <2>1
  <2>3. since + CollectorTicks + 1 >= SeenTicks
    BY <1>1, <2>2
  <2>4. TypeOK'
    BY <1>1, <1>2, <1>10 DEF IInv, TypeOK, IsCollector
  <2>5. SeenCoversCollector'
    BY <1>2, <1>10 DEF SeenCoversCollector
  <2>6. FirstIsMarked'
    <3>1. seen[0] \in 0 .. col.age + Lag
      BY <1>7, <2>1
    <3>2. seen[0] \in 0 .. CollectorTicks + 1
      BY <1>5, <1>6, <3>1
    <3> QED BY <1>2, <1>10, <3>2 DEF FirstIsMarked
  <2> QED BY <2>3, <2>4, <2>5, <2>6 DEF IInv
<1> QED BY <1>9, <1>10 DEF AddFragment, col

\* What cleanupLoop makes of a mark and of the collector.
LEMMA OlderMarkType ==
  ASSUME NEW age \in {Unmarked} \cup 0 .. SeenTicks - 1
  PROVE  /\ OlderMark(age, SeenTicks) \in {Unmarked} \cup 0 .. SeenTicks - 1
         /\ age \in 0 .. SeenTicks - 2 => OlderMark(age, SeenTicks) = age + 1
BY FragmentAssumption DEF OlderMark, Unmarked

LEMMA OlderCollectorType ==
  ASSUME collector = NoCollector \/ IsCollector(collector),
         OlderCollector(CollectorTicks) # NoCollector
  PROVE  LET new == OlderCollector(CollectorTicks) IN
         /\ IsCollector(new) /\ IsCollector(collector)
         /\ new.frags = collector.frags
         /\ new.age = collector.age + 1 /\ new.age < CollectorTicks
         /\ new.total = collector.total
<1> DEFINE new == OlderCollector(CollectorTicks)
<1>1. collector # NoCollector /\ ~(collector.age + 1 >= CollectorTicks)
      /\ new = [collector EXCEPT !.age = @ + 1]
  BY DEF OlderCollector
<1>2. PICK d \in Threshold : \E I \in SUBSET Index(d) :
        collector \in [total : {Total(d)}, frags : [I -> Slices], age : 0 .. CollectorTicks - 1]
  BY <1>1 DEF IsCollector
<1>3. PICK I \in SUBSET Index(d) :
        collector \in [total : {Total(d)}, frags : [I -> Slices], age : 0 .. CollectorTicks - 1]
  BY <1>2
<1>4. /\ new.total = collector.total /\ new.frags = collector.frags
      /\ new.age = collector.age + 1
      /\ collector.age + 1 \in 0 .. CollectorTicks - 1
      /\ new \in [total : {Total(d)}, frags : [I -> Slices], age : 0 .. CollectorTicks - 1]
  BY <1>1, <1>3, FragmentAssumption
<1> HIDE DEF new
<1>5. IsCollector(new) /\ IsCollector(collector)
  BY <1>3, <1>4 DEF IsCollector
<1> QED BY <1>4, <1>5, FragmentAssumption DEF new

(* CleanupSeenCache keeps the invariant: a mark that is hardly older than   *)
(* its collector is not old enough to go.                                   *)
LEMMA MarksStep ==
  ASSUME IInv, CleanupSeenCache
  PROVE  IInv' /\ UNCHANGED <<collector, hand, got>>
<1> USE FragmentAssumption
<1>1. /\ seen \in [AllIndex -> {Unmarked} \cup 0 .. SeenTicks - 1]
      /\ collector = NoCollector \/ IsCollector(collector)
      /\ since \in 0 .. SeenTicks
      /\ hand = Free \/ \E c \in Threshold : \E i \in Index(c) : hand = <<c, i>>
  BY DEF IInv, TypeOK
<1>2. /\ sweep = "marks" /\ sweep' = "collectors"
      /\ hand # Free => seen[hand[2]] = 0
      /\ seen' = [i \in AllIndex |-> OlderMark(seen[i], SeenTicks)]
      /\ since' = IF since = Never THEN Never ELSE since + 1
      /\ repeated' = FALSE
      /\ UNCHANGED <<collector, hand, burst, got, pace, faults>>
  BY DEF CleanupSeenCache, SweepMarks
<1>3. \A i \in AllIndex : /\ seen'[i] \in {Unmarked} \cup 0 .. SeenTicks - 1
                          /\ seen[i] \in 0 .. SeenTicks - 2 => seen'[i] = seen[i] + 1
  BY <1>1, <1>2, OlderMarkType
<1>4. TypeOK'
  <2>1. seen' \in [AllIndex -> {Unmarked} \cup 0 .. SeenTicks - 1]
    BY <1>2, <1>3
  <2>2. since' \in 0 .. SeenTicks
    BY <1>1, <1>2 DEF Never
  <2>3. repeated' \in BOOLEAN
    BY <1>2, Zenon
  <2> QED BY <1>2, <2>1, <2>2, <2>3 DEF IInv, TypeOK, IsCollector
<1>5. SeenCoversCollector'
  <2>1. ASSUME hand # Free PROVE seen'[hand[2]] \in 0 .. 1
    <3>1. hand[2] \in AllIndex
      BY <1>1, <2>1, Indexes, InHand
    <3> QED BY <1>2, <1>3, <2>1, <3>1
  <2>2. ASSUME collector # NoCollector, NEW i \in DOMAIN collector.frags
        PROVE  seen'[i] \in 0 .. collector.age + 2
    <3>1. i \in AllIndex /\ collector.age \in 0 .. CollectorTicks - 1
      BY <1>1, <2>2, CollectorShape
    <3>2. seen[i] \in 0 .. collector.age + 1
      BY <1>2, <2>2 DEF IInv, SeenCoversCollector, Lag
    <3>3. seen[i] \in 0 .. SeenTicks - 2
      BY <3>1, <3>2
    <3> QED BY <1>3, <3>1, <3>2, <3>3
  <2> QED BY <1>2, <2>1, <2>2 DEF SeenCoversCollector, Lag
<1>6. FirstIsMarked'
  <2> SUFFICES ASSUME since' + CollectorTicks + 1 < SeenTicks
               PROVE  /\ seen'[0] \in since' .. since' + CollectorTicks + 1
                      /\ hand # Free => hand[2] # 0
                      /\ collector # NoCollector => 0 \notin DOMAIN collector.frags
    BY <1>2 DEF FirstIsMarked
  <2>1. since' = since + 1 /\ since + CollectorTicks + 1 < SeenTicks
    BY <1>1, <1>2 DEF Never
  <2>2. /\ seen[0] \in since .. since + CollectorTicks + 1
        /\ hand # Free => hand[2] # 0
        /\ collector # NoCollector => 0 \notin DOMAIN collector.frags
    BY <2>1 DEF IInv, FirstIsMarked
  <2>3. 0 \in AllIndex
    BY Indexes
  <2>4. seen[0] \in 0 .. SeenTicks - 2
    BY <1>1, <2>1, <2>2
  <2> QED BY <1>1, <1>3, <2>1, <2>2, <2>3, <2>4
<1> QED BY <1>2, <1>4, <1>5, <1>6 DEF IInv

\* CleanupExpired makes the collector a tick older, as old as its marks again.
LEMMA CollectorsStep ==
  ASSUME IInv, CleanupExpired
  PROVE  IInv' /\ UNCHANGED <<hand, got, since>>
<1> USE FragmentAssumption
<1>1. collector = NoCollector \/ IsCollector(collector)
  BY DEF IInv, TypeOK
<1>2. /\ sweep = "collectors" /\ sweep' = "marks"
      /\ collector' = OlderCollector(CollectorTicks)
      /\ UNCHANGED <<seen, hand, burst, repeated, got, since, pace, faults>>
  BY DEF CleanupExpired, SweepCollectors
<1>3. collector' # NoCollector =>
        /\ IsCollector(collector') /\ IsCollector(collector)
        /\ collector'.frags = collector.frags
        /\ collector'.age = collector.age + 1
  BY <1>1, <1>2, OlderCollectorType
<1>4. TypeOK'
  BY <1>2, <1>3 DEF IInv, TypeOK, IsCollector
<1>5. SeenCoversCollector'
  <2>1. ASSUME collector' # NoCollector, NEW i \in DOMAIN collector'.frags
        PROVE  seen[i] \in 0 .. collector'.age + 1
    <3>1. collector # NoCollector /\ i \in DOMAIN collector.frags
          /\ collector.age \in 0 .. CollectorTicks - 1
      BY <1>3, <2>1, CollectorShape
    <3>2. seen[i] \in 0 .. collector.age + 2
      BY <1>2, <3>1 DEF IInv, SeenCoversCollector, Lag
    <3> QED BY <1>3, <2>1, <3>1, <3>2
  <2> QED BY <1>2, <2>1 DEF IInv, SeenCoversCollector, Lag
<1>6. FirstIsMarked'
  BY <1>2, <1>3, CollectorShape DEF IInv, FirstIsMarked
<1> QED BY <1>2, <1>4, <1>5, <1>6 DEF IInv

(* The actions that touch neither marks nor collectors, and the restart,    *)
(* which takes both.                                                        *)
LEMMA OtherStep ==
  ASSUME IInv,
         \/ \E c \in Threshold : FragmentMessage(c) \/ \E i \in Index(c) : LoseFragment(c, i)
         \/ Crash
         \/ UNCHANGED vars
  PROVE  IInv' /\ ~PutTogether /\ got' = got
               /\ (collector' = collector \/ collector' = NoCollector)
<1> USE FragmentAssumption DEF IInv, TypeOK
<1>1. ASSUME NEW c \in Threshold, FragmentMessage(c)
      PROVE  IInv' /\ UNCHANGED <<hand, got, collector>>
  <2>1. burst' \in [Threshold -> SUBSET AllIndex]
    BY <1>1, Indexes DEF FragmentMessage
  <2>2. repeated' \in BOOLEAN
    BY <1>1, Zenon DEF FragmentMessage
  <2>3. UNCHANGED <<seen, collector, hand, sweep, got, since, pace, faults>>
    BY <1>1 DEF FragmentMessage
  <2> QED BY <2>1, <2>2, <2>3 DEF IsCollector, SeenCoversCollector, Lag, FirstIsMarked
<1>2. ASSUME NEW c \in Threshold, NEW i \in Index(c), LoseFragment(c, i)
      PROVE  IInv' /\ UNCHANGED <<hand, got, collector>>
  <2>1. burst' \in [Threshold -> SUBSET AllIndex] /\ faults' \in 0 .. MaxFaults
    BY <1>2 DEF LoseFragment
  <2>2. UNCHANGED <<seen, collector, hand, sweep, repeated, got, since, pace>>
    BY <1>2 DEF LoseFragment
  <2> QED BY <2>1, <2>2 DEF IsCollector, SeenCoversCollector, Lag, FirstIsMarked
<1>3. ASSUME Crash
      PROVE  IInv' /\ faults' # faults /\ got' = got /\ collector' = NoCollector
  <2>1. /\ seen' = [i \in AllIndex |-> Unmarked] /\ collector' = NoCollector
        /\ hand' = Free /\ sweep' = "marks"
        /\ since' = Never /\ faults' = faults + 1 /\ faults < MaxFaults
        /\ UNCHANGED <<burst, repeated, got, pace>>
    BY <1>3 DEF Crash
  <2>2. seen' \in [AllIndex -> {Unmarked} \cup 0 .. SeenTicks - 1]
    BY <2>1
  <2>3. since' \in 0 .. SeenTicks /\ faults' \in 0 .. MaxFaults
    BY <2>1 DEF Never
  <2>4. ~(since' + CollectorTicks + 1 < SeenTicks)
    BY <2>1 DEF Never
  <2>5. TypeOK'
    BY <2>1, <2>2, <2>3
  <2> QED BY <2>1, <2>4, <2>5 DEF SeenCoversCollector, FirstIsMarked
<1>4. ASSUME UNCHANGED vars
      PROVE  IInv' /\ UNCHANGED <<hand, got, collector>>
  BY <1>4 DEF vars, IsCollector, SeenCoversCollector, Lag, FirstIsMarked
<1> HIDE DEF IInv, TypeOK
<1> QED BY <1>1, <1>2, <1>3, <1>4 DEF PutTogether

\* The invariant is inductive, and delivery keeps its distance.
LEMMA Step ==
  ASSUME IInv, [Next]_vars
  PROVE  /\ IInv'
         /\ PutTogether => since = Never \/ since + CollectorTicks + 1 >= SeenTicks
<1> DEFINE Apart == PutTogether => since = Never \/ since + CollectorTicks + 1 >= SeenTicks
<1>1. ASSUME NEW c \in Threshold, NEW i \in Index(c), HearFragment(c, i)
      PROVE  IInv' /\ Apart
  <2>1. hand = Free
    BY <1>1 DEF HearFragment
  <2> QED BY <1>1, <2>1, HearStep DEF PutTogether
<1>2. ASSUME NEW c \in Threshold, NEW i \in Index(c), AddFragment(c, i)
      PROVE  IInv' /\ Apart
  BY <1>2, AddStep
<1>3. ASSUME CleanupSeenCache \/ CleanupExpired
      PROVE  IInv' /\ Apart
  BY <1>3, MarksStep, CollectorsStep DEF PutTogether
<1>4. ASSUME \/ \E c \in Threshold : FragmentMessage(c) \/ \E i \in Index(c) : LoseFragment(c, i)
             \/ Crash
             \/ UNCHANGED vars
      PROVE  IInv' /\ Apart
  BY <1>4, OtherStep
<1>5. ASSUME \E c \in Threshold : \E i \in Index(c) : HearFragment(c, i) \/ AddFragment(c, i)
      PROVE  IInv' /\ Apart
  BY <1>1, <1>2, <1>5
<1>6. \/ \E c \in Threshold : \E i \in Index(c) : HearFragment(c, i) \/ AddFragment(c, i)
      \/ \E c \in Threshold : FragmentMessage(c) \/ \E i \in Index(c) : LoseFragment(c, i)
      \/ CleanupSeenCache \/ CleanupExpired
      \/ Crash
      \/ UNCHANGED vars
  BY Zenon DEF Next
<1> HIDE DEF Apart
<1>7. IInv' /\ Apart
  BY <1>3, <1>4, <1>5, <1>6
<1> QED BY <1>7 DEF Apart

-----------------------------------------------------------------------------
\* The invariant holds in every reachable state.
THEOREM Inductive == Spec => []IInv
<1>1. IInv /\ [Next]_vars => IInv'
  BY Step
<1> QED BY InitIInv, <1>1, PTL DEF Spec

\* handleFRAG and cleanupLoop keep every mark and collector in its type: a
\* collector never reaches CollectorTicks.
THEOREM TypeCorrect == Spec => []TypeOK
<1>1. IInv => TypeOK
  BY DEF IInv
<1> QED BY Inductive, <1>1, PTL

\* A fragment in a collector, or on its way to one, is marked, although
\* cleanupLoop may run within handleFRAG and handleFRAG within cleanupLoop:
\* collectors expire more than a tick before marks.
THEOREM SeenCoversCollectorAlways == Spec => []SeenCoversCollector
<1>1. IInv => SeenCoversCollector
  BY DEF IInv
<1> QED BY Inductive, <1>1, PTL

\* The reassembled message reaches handleMSG again only when the marks of the
\* last time have gone.
THEOREM NotTwiceAlways == Spec => NotTwice
<1>1. IInv /\ [Next]_vars =>
        (PutTogether => since = Never \/ since + CollectorTicks + 1 >= SeenTicks)
  BY Step
<1> QED BY Inductive, <1>1, PTL DEF Spec, NotTwice

-----------------------------------------------------------------------------
(* Mixtures of cuts.                                                        *)

IntactInv == IInv /\ Intact /\ (collector # NoCollector => OfOneCut(collector))

\* If the neighbours' thresholds make different numbers of fragments, no
\* mixture of their fragments is ever decoded.
THEOREM IntactAlways ==
  ASSUME DistinctTotals
  PROVE  Spec => []Intact
<1>1. Init => IntactInv
  <2>1. Init => Intact /\ collector = NoCollector
    BY DEF Init, Intact
  <2> QED BY <2>1, InitIInv DEF IntactInv
<1>2. IntactInv /\ [Next]_vars => IntactInv'
  <2> SUFFICES ASSUME IntactInv, [Next]_vars PROVE IntactInv'
    OBVIOUS
  <2>1. /\ IInv' /\ IInv /\ Intact
        /\ collector = NoCollector \/ IsCollector(collector)
        /\ collector # NoCollector => OfOneCut(collector)
    BY Step DEF IntactInv, IInv, TypeOK
  <2>2. ASSUME NEW c \in Threshold, NEW i \in Index(c), AddFragment(c, i)
        PROVE  Intact' /\ (collector' # NoCollector => OfOneCut(collector'))
    <3> DEFINE col == Added(CollectorFor(c), c, i)
    <3>1. IsCollector(col) /\ OfOneCut(col)
      BY <2>1, AddedIsCollector, DistinctTotals
    <3>2. IsComplete(col) => Whole(col.frags, col.total)
      BY <3>1, CompleteIsWhole
    <3>3. \/ collector' = col /\ got' = got
          \/ collector' = NoCollector /\ got' = got \cup {"intact"}
      BY <2>2, <3>2 DEF AddFragment
    <3> HIDE DEF col
    <3>4. Intact'
      BY <2>1, <3>3 DEF Intact
    <3>5. collector' # NoCollector => OfOneCut(collector')
      BY <2>1, <3>1, <3>3 DEF OfOneCut
    <3> QED BY <3>4, <3>5
  <2>3. ASSUME CleanupExpired
        PROVE  Intact' /\ (collector' # NoCollector => OfOneCut(collector'))
    <3>1. got' = got /\ collector' = OlderCollector(CollectorTicks)
      BY <2>3 DEF CleanupExpired, SweepCollectors
    <3>2. Intact'
      BY <2>1, <3>1 DEF Intact
    <3>3. ASSUME collector' # NoCollector PROVE OfOneCut(collector')
      <4>1. /\ IsCollector(collector)
            /\ collector'.frags = collector.frags
            /\ collector'.total = collector.total
        BY <2>1, <3>1, <3>3, OlderCollectorType
      <4>2. OfOneCut(collector)
        BY <2>1, <4>1, CollectorShape
      <4> QED BY <4>1, <4>2 DEF OfOneCut
    <3> QED BY <3>2, <3>3
  <2>4. ASSUME \/ \E c \in Threshold : FragmentMessage(c) \/ \E i \in Index(c) : LoseFragment(c, i)
               \/ Crash
               \/ UNCHANGED vars
        PROVE  Intact' /\ (collector' # NoCollector => OfOneCut(collector'))
    <3>1. got' = got /\ (collector' = collector \/ collector' = NoCollector)
      BY <2>1, <2>4, OtherStep
    <3> QED BY <2>1, <3>1 DEF Intact, OfOneCut
  <2>5. ASSUME \/ CleanupSeenCache
               \/ \E c \in Threshold : \E i \in Index(c) : HearFragment(c, i)
        PROVE  Intact' /\ (collector' # NoCollector => OfOneCut(collector'))
    <3>1. got' = got /\ collector' = collector
      BY <2>1, <2>5, HearStep, MarksStep
    <3> QED BY <2>1, <3>1 DEF Intact, OfOneCut
  <2> QED BY <2>1, <2>2, <2>3, <2>4, <2>5 DEF IntactInv, Next
<1>3. IntactInv => Intact
  BY DEF IntactInv
<1> QED BY <1>1, <1>2, <1>3, PTL DEF Spec
=============================================================================
