-------------------------- MODULE ApiStream_proofs --------------------------
(* Proofs about ApiStream, for every set of messages, handlers and          *)
(* connections: what a broadcast leaves on the list, the order in which     *)
(* clients see messages, and that each connection is a ClientStream.        *)
EXTENDS ApiClient, FiniteSetTheorems, SequenceTheorems, TLAPS

Increasing(s) == \A k, l \in DOMAIN s : k < l => s[k] < s[l]

LastIfAny(b, s) == b \in ToSet(s) => s[Len(s)] = b

Busy(g) == caster[g] # Idle

(* Where a broadcast has got to.  Until g has the lock, its call is on no   *)
(* connection.  While it writes, it holds the lock, the clients before the  *)
(* next one have the message or are gone, those from there on have it not,  *)
(* and nothing came after it anywhere.                                      *)
CasterOK(g) ==
  LET b == caster[g].call  i == caster[g].next  failed == caster[g].failed IN
  \/ caster[g] = Idle
  \/ /\ caster[g] = Waiting(b) \/ caster[g] = Marking(b)
     /\ b \in begun
     /\ \A c \in Conn : b \notin ToSet(written[c])
  \/ /\ caster[g] = Writing(b, i, failed)
     /\ b \in begun /\ wsMu = g
     /\ i \in 1 .. Len(wsClients) + 1
     /\ failed \in Seq(1 .. i - 1) /\ Increasing(failed)
     /\ \A k \in DOMAIN failed : peer[wsClients[failed[k]]] = "gone"
     /\ \A c \in Conn : LastIfAny(b, written[c])
     /\ \A k \in DOMAIN wsClients :
          IF k < i THEN peer[wsClients[k]] = "gone" \/ b \in ToSet(written[wsClients[k]])
                   ELSE b \notin ToSet(written[wsClients[k]])

\* No call is made by two goroutines.
OneEach == \A g, h \in Caster : Busy(g) /\ Busy(h) /\ caster[g].call = caster[h].call => g = h

\* A connection leaves when its client has gone; on the list is one that reads.
ConnOK(c) ==
  /\ peer[c] # "open" => stream[c] # "new"
  /\ stream[c] \in {"leaving", "closed"} => peer[c] = "gone"
  /\ c \in ToSet(wsClients) => stream[c] \in {"registered", "leaving"}

(* A message without a mark, that no handler is about to mark, may be       *)
(* broadcast once more: what it lacks was counted.                          *)
MarkOK(m) ==
  /\ Times(m) <= 1 + unmarked[m]
  /\ m \notin seen /\ ~Posting(m) => Times(m) <= unmarked[m]

IInv ==
  /\ TypeOK
  /\ \A g \in Caster : CasterOK(g)
  /\ OneEach
  /\ \A c \in Conn : ConnOK(c)
  /\ \A m \in Message : MarkOK(m)
  /\ SameOrder

-----------------------------------------------------------------------------
(* Induction on numbers, from the library's well-founded order on finite    *)
(* sets: 0..x is the smallest of its kind.                                  *)
LEMMA SmallestNumber ==
  ASSUME NEW T, T \subseteq Nat, T # {}
  PROVE  \E x \in T : \A y \in T : x <= y
<1> DEFINE U == {0 .. x : x \in T}
<1>1. U # {} /\ U \subseteq FiniteSubsetsOf(Nat)
  <2>1. \A x \in T : IsFiniteSet(0 .. x) /\ 0 .. x \subseteq Nat
    BY FS_Interval
  <2> QED BY <2>1 DEF FiniteSubsetsOf
<1>2. \E u \in U : \A v \in U : <<v, u>> \notin StrictSubsetOrdering(Nat)
  <2> HIDE DEF U
  <2> QED BY <1>1, WFMin, FS_StrictSubsetOrderingWellFounded
<1>3. PICK x \in T : \A y \in T : <<0 .. y, 0 .. x>> \notin StrictSubsetOrdering(Nat)
  BY <1>2
<1>4. ASSUME NEW y \in T, ~(x <= y)
      PROVE  FALSE
  <2>1. y < x /\ x \in Nat /\ y \in Nat
    BY <1>4
  <2>2. 0 .. y \subseteq 0 .. x /\ x \in 0 .. x /\ x \notin 0 .. y
    BY <2>1
  <2>3. 0 .. y \in SUBSET Nat /\ 0 .. x \in SUBSET Nat
    OBVIOUS
  <2> QED BY <1>3, <2>2, <2>3 DEF StrictSubsetOrdering
<1> QED BY <1>4

\* A set of numbers that has 0 and every successor has them all.
LEMMA NumbersByInduction ==
  ASSUME NEW T, 0 \in T, \A n \in Nat : n \in T => n + 1 \in T
  PROVE  Nat \subseteq T
<1> SUFFICES ASSUME Nat \ T # {} PROVE FALSE
  OBVIOUS
<1>1. PICK x \in Nat \ T : \A y \in Nat \ T : x <= y
  BY SmallestNumber
<1>2. x # 0 /\ x - 1 \in Nat /\ x - 1 \in T
  BY <1>1
<1> QED BY <1>1, <1>2

-----------------------------------------------------------------------------
(* RemoveAt and the second loop of BroadcastMessage.                        *)
LEMMA RemoveAtShifts ==
  ASSUME NEW S, NEW s \in Seq(S), NEW i \in 1 .. Len(s)
  PROVE  /\ RemoveAt(s, i) \in Seq(S) /\ Len(RemoveAt(s, i)) = Len(s) - 1
         /\ \A k \in 1 .. Len(s) - 1 : RemoveAt(s, i)[k] = IF k < i THEN s[k] ELSE s[k + 1]
<1> DEFINE a == SubSeq(s, 1, i - 1)
           b == SubSeq(s, i + 1, Len(s))
<1>1. a \in Seq(S) /\ Len(a) = i - 1 /\ \A k \in 1 .. i - 1 : a[k] = s[k]
  OBVIOUS
<1>2. b \in Seq(S) /\ Len(b) = Len(s) - i /\ \A k \in 1 .. Len(s) - i : b[k] = s[k + i]
  OBVIOUS
<1> HIDE DEF a, b
<1>3. a \o b \in Seq(S) /\ Len(a \o b) = Len(s) - 1
  <2>1. a \o b \in Seq(S) /\ Len(a \o b) = Len(a) + Len(b)
    <3>1. a \in Seq(S) /\ b \in Seq(S)
      BY <1>1, <1>2
    <3> QED BY <3>1, ConcatProperties
  <2>2. Len(s) \in Nat /\ (i - 1) + (Len(s) - i) = Len(s) - 1
    OBVIOUS
  <2> QED BY <1>1, <1>2, <2>1, <2>2
<1>4. ASSUME NEW k \in 1 .. Len(s) - 1
      PROVE  (a \o b)[k] = IF k < i THEN s[k] ELSE s[k + 1]
  <2>1. CASE k < i
    <3>1. k \in 1 .. Len(a)
      BY <1>1, <2>1
    <3>2. (a \o b)[k] = a[k]
      BY <1>1, <1>2, <3>1
    <3> QED BY <1>1, <2>1, <3>1, <3>2
  <2>2. CASE ~(k < i)
    <3>1. k \in Len(a) + 1 .. Len(a) + Len(b) /\ k - Len(a) \in 1 .. Len(s) - i
      BY <1>1, <1>2, <2>2
    <3>2. (a \o b)[k] = b[k - Len(a)]
      BY <1>1, <1>2, <3>1
    <3>3. b[k - Len(a)] = s[(k - Len(a)) + i] /\ (k - Len(a)) + i = k + 1
      BY <1>1, <1>2, <3>1
    <3> QED BY <2>2, <3>2, <3>3
  <2> QED BY <2>1, <2>2
<1> QED BY <1>3, <1>4 DEF RemoveAt, a, b

\* Removing one place of a list without repetitions removes what stood there.
LEMMA RemoveAtRemoves ==
  ASSUME NEW S, NEW s \in Seq(S), IsInjective(s), NEW i \in 1 .. Len(s)
  PROVE  /\ RemoveAt(s, i) \in Seq(S) /\ IsInjective(RemoveAt(s, i))
         /\ ToSet(RemoveAt(s, i)) = ToSet(s) \ {s[i]}
<1> DEFINE r == RemoveAt(s, i)
<1>1. /\ r \in Seq(S) /\ Len(r) = Len(s) - 1
      /\ \A k \in 1 .. Len(s) - 1 : r[k] = IF k < i THEN s[k] ELSE s[k + 1]
  BY RemoveAtShifts
<1> HIDE DEF r
<1>2. IsInjective(r)
  <2>1. SUFFICES ASSUME NEW k \in 1 .. Len(s) - 1, NEW l \in 1 .. Len(s) - 1, r[k] = r[l]
                 PROVE  k = l
    BY <1>1 DEF IsInjective
  <2>2. \A x, y \in 1 .. Len(s) : s[x] = s[y] => x = y
    BY DEF IsInjective
  <2> DEFINE at(j) == IF j < i THEN j ELSE j + 1
  <2>3. \A j \in 1 .. Len(s) - 1 : at(j) \in 1 .. Len(s) /\ r[j] = s[at(j)]
    BY <1>1
  <2>4. at(k) = at(l)
    <3> HIDE DEF at
    <3> QED BY <2>1, <2>2, <2>3
  <2> QED BY <2>4
<1>3. ASSUME NEW k \in DOMAIN r
      PROVE  r[k] \in ToSet(s) /\ r[k] # s[i]
  BY <1>1 DEF ToSet, IsInjective
<1>4. ASSUME NEW k \in DOMAIN s, s[k] # s[i]
      PROVE  s[k] \in ToSet(r)
  <2>1. CASE k < i
    <3>1. k \in DOMAIN r /\ r[k] = s[k]
      BY <1>1, <2>1
    <3> QED BY <3>1 DEF ToSet
  <2>2. CASE k > i
    <3>1. k - 1 \in DOMAIN r /\ r[k - 1] = s[k]
      BY <1>1, <2>2
    <3> QED BY <3>1 DEF ToSet
  <2> QED BY <1>4, <2>1, <2>2
<1>5. ToSet(r) = ToSet(s) \ {s[i]}
  BY <1>3, <1>4 DEF ToSet
<1> QED BY <1>1, <1>2, <1>5 DEF r

\* The least of a non-empty set of numbers.
LEMMA MinIsLeast ==
  ASSUME NEW T, T \subseteq Nat, T # {}
  PROVE  Min(T) \in T /\ \A y \in T : Min(T) <= y
BY SmallestNumber DEF Min

\* The fold of Without, as a function of the places that are still to be removed.
Kept(clients, failed, left) ==
  left = [s \in SUBSET DOMAIN failed |->
            IF s = {} THEN clients ELSE RemoveAt(left[s \ {Min(s)}], failed[Min(s)])]

LEMMA KeptExists ==
  ASSUME NEW clients, NEW failed, DOMAIN failed \subseteq Nat, IsFiniteSet(DOMAIN failed)
  PROVE  \E left : Kept(clients, failed, left)
<1> DEFINE D == DOMAIN failed
           Small(n) == {s \in SUBSET D : Cardinality(s) <= n}
           Step(left, s) == IF s = {} THEN clients ELSE RemoveAt(left[s \ {Min(s)}], failed[Min(s)])
           Solves(left, n) == left = [s \in Small(n) |-> Step(left, s)]
           T == {n \in Nat : \E left : Solves(left, n)}
<1>1. Cardinality(D) \in Nat
  BY FS_CardinalityType
<1>2. \A s \in SUBSET D : IsFiniteSet(s) /\ Cardinality(s) \in Nat /\ Cardinality(s) <= Cardinality(D)
  BY <1>1, FS_Subset, FS_CardinalityType
<1>3. \A s \in SUBSET D : s # {} => Min(s) \in s /\ Cardinality(s \ {Min(s)}) = Cardinality(s) - 1
  BY <1>1, <1>2, MinIsLeast, FS_RemoveElement
<1>4. \A s \in SUBSET D : Cardinality(s) = 0 <=> s = {}
  BY <1>2, FS_EmptySet
<1> HIDE DEF D
<1>5. 0 \in T
  <2> DEFINE h == [s \in Small(0) |-> clients]
  <2>1. \A s \in Small(0) : s = {}
    BY <1>2, <1>4
  <2>2. Solves(h, 0)
    BY <2>1
  <2> QED BY <2>2
<1>6. ASSUME NEW n \in Nat, n \in T
      PROVE  n + 1 \in T
  <2>1. PICK g : Solves(g, n)
    BY <1>6
  <2> DEFINE h == [s \in Small(n + 1) |-> Step(g, s)]
  <2>2. Small(n) \subseteq Small(n + 1)
    BY <1>2
  <2>3. \A s \in Small(n) : h[s] = g[s]
    <3>1. \A s \in Small(n) : g[s] = Step(g, s)
      <4> HIDE DEF Small, Step
      <4> QED BY <2>1
    <3>2. \A s \in Small(n + 1) : h[s] = Step(g, s)
      <4> HIDE DEF Small, Step
      <4> QED OBVIOUS
    <3> HIDE DEF h, Step, Small
    <3> QED BY <2>2, <3>1, <3>2
  <2>4. ASSUME NEW s \in Small(n + 1), s # {}
        PROVE  s \ {Min(s)} \in Small(n)
    <3>1. s \ {Min(s)} \in SUBSET D /\ Cardinality(s \ {Min(s)}) = Cardinality(s) - 1
      BY <1>3, <2>4
    <3>2. Cardinality(s) - 1 <= n
      BY <1>2, <2>4
    <3> QED BY <3>1, <3>2
  <2>5. \A s \in Small(n + 1) : Step(h, s) = Step(g, s)
    <3> HIDE DEF h, Small
    <3> QED BY <2>3, <2>4
  <2>6. Solves(h, n + 1)
    <3> HIDE DEF Step, Small
    <3> QED BY <2>5
  <2>7. n + 1 \in Nat
    OBVIOUS
  <2> HIDE DEF h, Solves
  <2> QED BY <2>6, <2>7
<1>7. Cardinality(D) \in T
  <2> HIDE DEF T
  <2> QED BY <1>1, <1>5, <1>6, NumbersByInduction
<1>8. Small(Cardinality(D)) = SUBSET D
  BY <1>2
<1>9. PICK g : g = [s \in Small(Cardinality(D)) |-> Step(g, s)]
  BY <1>7
<1>10. g = [s \in SUBSET D |-> Step(g, s)]
  <2> HIDE DEF Step, Small
  <2> QED BY <1>8, <1>9
<1> QED BY <1>10 DEF Kept, D

(* What Without computes, one place after another, from the last: done[d]   *)
(* is what is left when d of the n places have been removed.                *)
Removes(clients, failed, n, done) ==
  /\ Without(clients, failed) = done[n]
  /\ done[0] = clients
  /\ \A d \in 0 .. n - 1 : done[d + 1] = RemoveAt(done[d], failed[n - d])

LEMMA WithoutUnfolds ==
  ASSUME NEW clients, NEW n \in Nat, NEW failed, DOMAIN failed = 1 .. n
  PROVE  \E done : Removes(clients, failed, n, done)
<1> DEFINE left == CHOOSE left : Kept(clients, failed, left)
           done == [d \in 0 .. n |-> left[n + 1 - d .. n]]
<1>1. Without(clients, failed) = left[1 .. n]
  BY DEF Without, FoldRight, MapThenFoldSet, Kept
<1>2. IsFiniteSet(1 .. n) /\ 1 .. n \subseteq Nat
  BY FS_Interval
<1>3. Kept(clients, failed, left)
  BY <1>2, KeptExists
<1> HIDE DEF left
<1>4. /\ left[{}] = clients
      /\ \A s \in SUBSET (1 .. n) :
           s # {} => left[s] = RemoveAt(left[s \ {Min(s)}], failed[Min(s)])
  BY <1>3 DEF Kept
<1>5. done[n] = left[1 .. n] /\ done[0] = left[{}]
  <2>1. n + 1 - n = 1 /\ n + 1 - 0 .. n = {} /\ 0 \in 0 .. n /\ n \in 0 .. n
    OBVIOUS
  <2> QED BY <2>1
<1>6. ASSUME NEW d \in 0 .. n - 1
      PROVE  done[d + 1] = RemoveAt(done[d], failed[n - d])
  <2> DEFINE j == n - d
  <2>1. j \in 1 .. n /\ n + 1 - (d + 1) = j /\ n + 1 - d = j + 1 /\ d \in 0 .. n /\ d + 1 \in 0 .. n
    OBVIOUS
  <2>2. done[d + 1] = left[j .. n] /\ done[d] = left[j + 1 .. n]
    BY <2>1
  <2> HIDE DEF j, done
  <2>3. j .. n \in SUBSET (1 .. n) /\ j \in j .. n /\ (j .. n) \ {j} = j + 1 .. n
    <3>1. \A x \in j .. n : x \in 1 .. n /\ (x # j => x \in j + 1 .. n)
      BY <2>1
    <3>2. \A x \in j + 1 .. n : x \in j .. n /\ x # j
      BY <2>1
    <3>3. j \in j .. n
      BY <2>1
    <3> QED BY <3>1, <3>2, <3>3
  <2>4. Min(j .. n) = j
    <3>1. Min(j .. n) \in j .. n /\ Min(j .. n) <= j
      BY <1>2, <2>3, MinIsLeast
    <3> QED BY <2>1, <3>1
  <2> QED BY <1>4, <2>2, <2>3, <2>4 DEF j
<1>7. Removes(clients, failed, n, done)
  <2> HIDE DEF done
  <2> QED BY <1>1, <1>4, <1>5, <1>6 DEF Removes
<1> QED BY <1>7

(* The indexes being removed from the last to the first, what remains are   *)
(* the clients at the other indexes.                                        *)
THEOREM WithoutKeepsOthers ==
  ASSUME NEW S, NEW clients \in Seq(S), IsInjective(clients),
         NEW failed \in Seq(1 .. Len(clients)), Increasing(failed)
  PROVE  /\ Without(clients, failed) \in Seq(S) /\ IsInjective(Without(clients, failed))
         /\ ToSet(Without(clients, failed)) =
              {clients[i] : i \in DOMAIN clients \ ToSet(failed)}
<1> DEFINE n == Len(failed)
<1>1. n \in Nat /\ DOMAIN failed = 1 .. n
  OBVIOUS
<1>2. \A k \in 1 .. n : failed[k] \in DOMAIN clients /\ failed[k] \in Nat
  OBVIOUS
<1>3. DOMAIN clients = 1 .. Len(clients) /\ Len(clients) \in Nat
  OBVIOUS
<1> HIDE DEF n
<1>4. PICK done : Removes(clients, failed, n, done)
  BY <1>1, WithoutUnfolds
<1> DEFINE Gone(d) == {failed[l] : l \in n + 1 - d .. n}
           Others(d, w) == ToSet(w) = {clients[i] : i \in DOMAIN clients \ Gone(d)}
           Before(d, w) == \A k \in DOMAIN clients : (\A i \in Gone(d) : k < i) =>
                             k \in DOMAIN w /\ w[k] = clients[k]
           OK(d) == done[d] \in Seq(S) /\ IsInjective(done[d]) /\ Others(d, done[d]) /\ Before(d, done[d])
           T == {d \in Nat : d <= n => OK(d)}
<1>5. OK(0)
  <2>1. Gone(0) = {}
    BY <1>1
  <2> QED BY <1>4, <2>1 DEF ToSet, Removes
<1>6. ASSUME NEW d \in Nat, d + 1 <= n, OK(d)
      PROVE  OK(d + 1)
  <2> DEFINE i == failed[n - d]
             w == done[d]
  <2>1. n - d \in 1 .. n /\ d \in 0 .. n - 1
    BY <1>1, <1>6
  <2>2. i \in DOMAIN clients /\ i \in Nat
    BY <1>2, <2>1
  <2>3. done[d + 1] = RemoveAt(w, i)
    BY <1>4, <2>1 DEF Removes
  <2>4. Gone(d + 1) = Gone(d) \cup {i} /\ \A x \in Gone(d) : x \in Nat /\ i < x
    <3>1. n + 1 - (d + 1) = n - d /\ n + 1 - d = (n - d) + 1
      BY <1>1
    <3>2. \A l \in n - d .. n : l = n - d \/ l \in (n - d) + 1 .. n
      BY <1>1, <2>1
    <3>3. \A l \in (n - d) + 1 .. n : l \in n - d .. n /\ l \in 1 .. n /\ n - d < l
      BY <1>1, <2>1
    <3>4. n - d \in n - d .. n
      BY <1>1, <2>1
    <3>5. \A l \in (n - d) + 1 .. n : failed[l] \in Nat /\ i < failed[l]
      BY <1>1, <1>2, <2>1, <3>3 DEF Increasing
    <3> QED BY <3>1, <3>2, <3>3, <3>4, <3>5
  <2> HIDE DEF Gone
  <2>5. \A k \in 1 .. i : k \in DOMAIN clients /\ k \in DOMAIN w /\ w[k] = clients[k]
    <3>1. \A k \in 1 .. i : k \in DOMAIN clients /\ \A x \in Gone(d) : k < x
      BY <1>3, <2>2, <2>4
    <3> HIDE DEF i, w
    <3> QED BY <1>6, <3>1 DEF w
  <2>6. w \in Seq(S) /\ IsInjective(w) /\ i \in 1 .. Len(w) /\ w[i] = clients[i]
    <3>1. i \in 1 .. i
      BY <1>3, <2>2
    <3>2. i \in DOMAIN w /\ w[i] = clients[i]
      BY <2>5, <3>1
    <3> QED BY <1>6, <3>2
  <2> HIDE DEF i, w
  <2>7. /\ RemoveAt(w, i) \in Seq(S) /\ IsInjective(RemoveAt(w, i))
        /\ ToSet(RemoveAt(w, i)) = ToSet(w) \ {clients[i]}
    BY <2>6, RemoveAtRemoves
  <2>8. Others(d + 1, RemoveAt(w, i))
    <3>1. \A k \in DOMAIN clients : clients[k] = clients[i] <=> k = i
      BY <2>2 DEF IsInjective
    <3>2. ToSet(w) = {clients[k] : k \in DOMAIN clients \ Gone(d)}
      BY <1>6 DEF w
    <3>3. DOMAIN clients \ Gone(d + 1) = (DOMAIN clients \ Gone(d)) \ {i}
      BY <2>4
    <3>4. {clients[k] : k \in DOMAIN clients \ Gone(d)} \ {clients[i]}
            = {clients[k] : k \in (DOMAIN clients \ Gone(d)) \ {i}}
      BY <3>1
    <3> QED BY <2>7, <3>2, <3>3, <3>4
  <2>9. Before(d + 1, RemoveAt(w, i))
    <3> SUFFICES ASSUME NEW k \in DOMAIN clients, \A x \in Gone(d + 1) : k < x
                 PROVE  k \in DOMAIN RemoveAt(w, i) /\ RemoveAt(w, i)[k] = clients[k]
      OBVIOUS
    <3>1. k < i /\ k \in Nat /\ k \in 1 .. i
      BY <1>3, <2>2, <2>4
    <3>2. /\ Len(RemoveAt(w, i)) = Len(w) - 1 /\ RemoveAt(w, i) \in Seq(S)
          /\ \A x \in 1 .. Len(w) - 1 : RemoveAt(w, i)[x] = IF x < i THEN w[x] ELSE w[x + 1]
      BY <2>6, RemoveAtShifts
    <3>3. k \in 1 .. Len(w) - 1
      BY <2>2, <2>6, <3>1
    <3>4. RemoveAt(w, i)[k] = w[k] /\ w[k] = clients[k]
      BY <2>5, <3>1, <3>2, <3>3
    <3>5. k \in DOMAIN RemoveAt(w, i)
      BY <3>2, <3>3
    <3> QED BY <3>4, <3>5
  <2> QED BY <2>3, <2>7, <2>8, <2>9
<1>7. n \in T
  <2>1. 0 \in T
    BY <1>5
  <2>2. \A d \in Nat : d \in T => d + 1 \in T
    <3> HIDE DEF OK
    <3> QED BY <1>6, <1>1
  <2> HIDE DEF T
  <2> QED BY <2>1, <2>2, <1>1, NumbersByInduction
<1>8. OK(n)
  BY <1>7, <1>1
<1>9. Gone(n) = ToSet(failed)
  <2>1. n + 1 - n = 1
    BY <1>1
  <2> QED BY <1>1, <2>1 DEF ToSet
<1> QED
  <2> HIDE DEF Gone
  <2> QED BY <1>4, <1>8, <1>9 DEF Removes
-----------------------------------------------------------------------------
\* A longer list has what the shorter one had, and the new one last.
LEMMA AppendAdds ==
  ASSUME NEW S, NEW s \in Seq(S), NEW m \in S
  PROVE  /\ Append(s, m) \in Seq(S) /\ Len(Append(s, m)) = Len(s) + 1
         /\ Append(s, m)[Len(s) + 1] = m
         /\ \A k \in 1 .. Len(s) : Append(s, m)[k] = s[k]
         /\ ToSet(Append(s, m)) = ToSet(s) \cup {m}
         /\ IsInjective(s) /\ m \notin ToSet(s) => IsInjective(Append(s, m))
<1>1. /\ Append(s, m) \in Seq(S) /\ Len(Append(s, m)) = Len(s) + 1
      /\ Append(s, m)[Len(s) + 1] = m
      /\ \A k \in 1 .. Len(s) : Append(s, m)[k] = s[k]
  OBVIOUS
<1>2. DOMAIN s = 1 .. Len(s) /\ DOMAIN Append(s, m) = 1 .. Len(s) + 1 /\ Len(s) \in Nat
  BY <1>1
<1>3. ToSet(Append(s, m)) = ToSet(s) \cup {m}
  <2>1. \A k \in 1 .. Len(s) + 1 : k \in 1 .. Len(s) \/ k = Len(s) + 1
    BY <1>2
  <2>2. Len(s) + 1 \in 1 .. Len(s) + 1 /\ 1 .. Len(s) \subseteq 1 .. Len(s) + 1
    BY <1>2
  <2> QED BY <1>1, <1>2, <2>1, <2>2 DEF ToSet
<1>4. IsInjective(s) /\ m \notin ToSet(s) => IsInjective(Append(s, m))
  BY <1>1, <1>2 DEF IsInjective, ToSet
<1> QED BY <1>1, <1>3, <1>4

LEMMA SeqGrows ==
  ASSUME NEW S, NEW T, S \subseteq T, NEW s \in Seq(S)
  PROVE  s \in Seq(T)
OBVIOUS

\* The shapes that caster[g] has are told apart by their fields.
LEMMA Shapes ==
  ASSUME NEW b, NEW i, NEW failed
  PROVE  /\ Idle.at = "idle"
         /\ Marking(b).at = "mark" /\ Marking(b).call = b
         /\ Waiting(b).at = "lock" /\ Waiting(b).call = b
         /\ Writing(b, i, failed).at = "write" /\ Writing(b, i, failed).call = b
         /\ Writing(b, i, failed).next = i /\ Writing(b, i, failed).failed = failed
BY DEF Idle, Marking, Waiting, Writing

\* What the invariant says of a goroutine, by the place it is at.
LEMMA Places ==
  ASSUME IInv, NEW g \in Caster
  PROVE  /\ caster[g].at = "idle" <=> caster[g] = Idle
         /\ Busy(g) => caster[g].at \in {"mark", "lock", "write"} /\ caster[g].call \in begun
         /\ caster[g].at = "mark" => caster[g] = Marking(caster[g].call)
         /\ caster[g].at = "lock" => caster[g] = Waiting(caster[g].call)
         /\ caster[g].at = "write" =>
              /\ caster[g] = Writing(caster[g].call, caster[g].next, caster[g].failed)
              /\ wsMu = g
         /\ wsMu = Free => caster[g].at # "write"
<1>1. CasterOK(g) /\ Free \notin Caster
  BY StreamAssumption DEF IInv
<1> QED BY <1>1, Shapes DEF CasterOK, Busy

LEMMA InitIInv == Init => IInv
<1> SUFFICES ASSUME Init PROVE IInv
  OBVIOUS
<1> USE DEF Init
<1>1. TypeOK
  <2>1. <<>> \in Seq(Message) /\ Len(<<>>) = 0 /\ MaxCasts \in Nat
    BY StreamAssumption
  <2>2. wsClients \in Seq(Conn) /\ IsInjective(wsClients)
    BY DEF IsInjective
  <2>3. written \in [Conn -> Seq(begun)] /\ \A c \in Conn : IsInjective(written[c])
    BY DEF IsInjective
  <2>4. \A g \in Caster : caster[g].at = "idle"
    BY Shapes
  <2> QED BY <2>1, <2>2, <2>3, <2>4 DEF TypeOK
<1>2. \A g \in Caster : CasterOK(g) /\ ~Busy(g)
  BY DEF CasterOK, Busy
<1>3. OneEach
  BY <1>2 DEF OneEach
<1>4. \A c \in Conn : ConnOK(c)
  BY DEF ConnOK, ToSet
<1>5. SameOrder
  BY <1>1 DEF SameOrder
<1>6. \A m \in Message : MarkOK(m)
  <2>1. \A m : {b \in begun : casts[b] = m} = {}
    BY DEF begun
  <2>2. \A m : Times(m) = 0
    BY <2>1, FS_EmptySet DEF Times
  <2> QED BY <2>2 DEF MarkOK
<1> QED BY <1>1, <1>2, <1>3, <1>4, <1>5, <1>6 DEF IInv

-----------------------------------------------------------------------------
(* The steps, one lemma for each action or for actions that disturb the     *)
(* same parts.                                                              *)

\* One goroutine moves: what TypeOK says of them all.
LEMMA CastersOK ==
  ASSUME IInv, NEW g \in Caster, begun \subseteq begun',
         \A h \in Caster \ {g} : caster'[h] = caster[h],
         \/ caster'[g].at = "idle"
         \/ caster'[g].at \in {"mark", "lock", "write"} /\ caster'[g].call \in begun'
  PROVE  \A h \in Caster : \/ caster'[h].at = "idle"
                           \/ caster'[h].at \in {"mark", "lock", "write"} /\ caster'[h].call \in begun'
<1> DEFINE OK(h) == \/ caster'[h].at = "idle"
                    \/ caster'[h].at \in {"mark", "lock", "write"} /\ caster'[h].call \in begun'
<1>1. OK(g)
  OBVIOUS
<1>2. ASSUME NEW h \in Caster \ {g} PROVE OK(h)
  BY DEF IInv, TypeOK
<1>3. ASSUME NEW h \in Caster PROVE OK(h)
  <2>1. CASE h = g
    BY <1>1, <2>1
  <2>2. CASE h # g
    BY <1>2, <2>2
  <2> QED BY <2>1, <2>2
<1> QED BY <1>3

\* What no goroutine's place depends on: calls that begin and clients that go.
LEMMA OthersStay ==
  ASSUME IInv, NEW g \in Caster, CasterOK(g),
         caster'[g] = caster[g], wsMu' = wsMu \/ caster[g].at # "write",
         begun \subseteq begun', UNCHANGED written,
         UNCHANGED wsClients \/ caster[g].at # "write",
         \A c \in Conn : peer[c] = "gone" => peer'[c] = "gone"
  PROVE  CasterOK(g)'
<1>1. CASE caster[g].at = "write"
  <2> DEFINE i == caster[g].next  failed == caster[g].failed
  <2>1. /\ caster[g] = Writing(caster[g].call, i, failed)
        /\ caster[g].call \in begun /\ wsMu = g /\ i \in 1 .. Len(wsClients) + 1
        /\ failed \in Seq(1 .. i - 1) /\ Increasing(failed)
        /\ \A k \in DOMAIN failed : peer[wsClients[failed[k]]] = "gone"
        /\ \A c \in Conn : LastIfAny(caster[g].call, written[c])
        /\ \A k \in DOMAIN wsClients :
             IF k < i THEN peer[wsClients[k]] = "gone" \/ caster[g].call \in ToSet(written[wsClients[k]])
                      ELSE caster[g].call \notin ToSet(written[wsClients[k]])
    BY <1>1, Shapes DEF CasterOK
  <2>2. \A k \in DOMAIN wsClients : wsClients[k] \in Conn
    BY DEF IInv, TypeOK
  <2>3. \A k \in DOMAIN failed : failed[k] \in DOMAIN wsClients
    <3>1. \A k \in DOMAIN failed : failed[k] \in 1 .. i - 1
      BY <2>1
    <3>2. DOMAIN wsClients = 1 .. Len(wsClients) /\ Len(wsClients) \in Nat
      BY DEF IInv, TypeOK
    <3> QED BY <2>1, <3>1, <3>2
  <2>4. \A k \in DOMAIN failed : peer'[wsClients[failed[k]]] = "gone"
    BY <2>1, <2>2, <2>3
  <2> HIDE DEF i, failed
  <2>5. UNCHANGED <<wsMu, wsClients, written>> /\ caster'[g] = caster[g]
    BY <1>1
  <2> QED BY <2>1, <2>2, <2>4, <2>5 DEF CasterOK, LastIfAny, i, failed
<1>2. CASE caster[g].at # "write"
  BY <1>2, Shapes DEF CasterOK
<1> QED BY <1>1, <1>2

LEMMA TimesIsNat ==
  ASSUME IInv, NEW x
  PROVE  IsFiniteSet({n \in begun : casts[n] = x}) /\ Times(x) \in Nat
<1>1. begun = 1 .. Len(casts) /\ Len(casts) \in Nat
  BY DEF IInv, TypeOK, begun
<1>2. IsFiniteSet(begun)
  BY <1>1, FS_Interval
<1> QED BY <1>2, FS_Subset, FS_CardinalityType DEF Times

\* A step that makes no call and takes no mark away.
LEMMA MarksStay ==
  ASSUME IInv, UNCHANGED <<casts, unmarked>>, seen \subseteq seen',
         \A h \in Handler : caster[h].at = "mark" => caster'[h] = caster[h]
  PROVE  \A m \in Message : MarkOK(m)'
<1> SUFFICES ASSUME NEW m \in Message PROVE MarkOK(m)'
  OBVIOUS
<1>1. Times(m)' = Times(m)
  BY DEF Times, begun
<1>2. Posting(m) => Posting(m)'
  BY DEF Posting
<1> QED BY <1>1, <1>2 DEF IInv, MarkOK

\* The call that a message which enters is going to make.
LEMMA EntersAdds ==
  ASSUME IInv, NEW m \in Message, Enters(m), NEW b, b = Len(casts')
  PROVE  /\ casts' \in Seq(Message) /\ Len(casts') <= MaxCasts
         /\ b \notin begun /\ begun' = begun \cup {b}
         /\ casts'[b] = m /\ \A n \in begun : casts'[n] = casts[n]
         /\ Times(m)' = Times(m) + 1
         /\ \A x \in Message \ {m} : Times(x)' = Times(x)
         /\ \A x \in Message : Times(x) \in Nat
<1> DEFINE Of(x) == {n \in begun : casts[n] = x}
<1>1. /\ casts \in Seq(Message) /\ Len(casts) \in Nat /\ begun = 1 .. Len(casts)
      /\ MaxCasts \in Nat /\ Len(casts) < MaxCasts
  BY StreamAssumption DEF IInv, TypeOK, begun, Enters
<1>2. /\ casts' \in Seq(Message) /\ Len(casts') = Len(casts) + 1
      /\ casts'[Len(casts) + 1] = m /\ \A n \in 1 .. Len(casts) : casts'[n] = casts[n]
  BY <1>1, AppendAdds DEF Enters
<1>3. b \notin begun /\ begun' = begun \cup {b}
  <2>1. begun' = 1 .. Len(casts) + 1
    BY <1>2 DEF begun
  <2>2. \A n \in 1 .. Len(casts) + 1 : n \in 1 .. Len(casts) \/ n = Len(casts) + 1
    BY <1>1
  <2>3. 1 .. Len(casts) \subseteq 1 .. Len(casts) + 1 /\ Len(casts) + 1 \in 1 .. Len(casts) + 1
        /\ Len(casts) + 1 \notin 1 .. Len(casts)
    BY <1>1
  <2> QED BY <1>1, <1>2, <2>1, <2>2, <2>3
<1>4. casts'[b] = m /\ \A n \in begun : casts'[n] = casts[n]
  BY <1>1, <1>2
<1>5. \A x : IsFiniteSet(Of(x)) /\ Times(x) \in Nat
  BY TimesIsNat
<1>6. Times(m)' = Times(m) + 1
  <2>1. {n \in begun' : casts'[n] = m} = Of(m) \cup {b} /\ b \notin Of(m)
    BY <1>3, <1>4
  <2>2. IsFiniteSet(Of(m))
    BY <1>5
  <2> HIDE DEF Of
  <2>3. Cardinality(Of(m) \cup {b}) = Cardinality(Of(m)) + 1
    BY <2>1, <2>2, FS_AddElement
  <2> QED BY <2>1, <2>3 DEF Times, Of
<1>7. ASSUME NEW x \in Message \ {m} PROVE Times(x)' = Times(x)
  <2>1. {n \in begun' : casts'[n] = x} = Of(x)
    BY <1>3, <1>4
  <2> QED BY <2>1 DEF Times
<1>8. \A x \in Message : Times(x) \in Nat
  BY <1>5
<1> QED BY <1>1, <1>2, <1>3, <1>4, <1>6, <1>7, <1>8

\* The messages that do not enter are marked, or are being posted, as before.
LEMMA OthersPosting ==
  ASSUME IInv, NEW g \in Caster, NEW m \in Message, Enters(m), caster[g] = Idle,
         \A h \in Caster \ {g} : caster'[h] = caster[h],
         NEW x \in Message, Posting(x)
  PROVE  Posting(x)'
<1>1. PICK h \in Handler : caster[h].at = "mark" /\ casts[caster[h].call] = x
  BY DEF Posting
<1>2. h \in Caster /\ h # g
  BY <1>1, Shapes DEF Caster
<1>3. caster[h].call \in begun /\ caster'[h] = caster[h]
  BY <1>1, <1>2, Places, Shapes DEF Busy
<1>4. casts'[caster[h].call] = casts[caster[h].call]
  BY <1>3, EntersAdds
<1> QED BY <1>1, <1>3, <1>4 DEF Posting

\* What SendMessage and HearMessage have in common.
LEMMA EnterStep ==
  ASSUME IInv, NEW g \in Caster, NEW m \in Message, caster[g] = Idle, Enters(m),
         NEW b, b = Len(casts'),
         \/ caster' = [caster EXCEPT ![g] = Waiting(b)]
         \/ caster' = [caster EXCEPT ![g] = Marking(b)],
         seen' \subseteq Message, unmarked' \in [Message -> Nat], UNCHANGED listVars,
         \A x \in Message : MarkOK(x)'
  PROVE  IInv'
<1> USE DEF listVars
<1>1. /\ caster'[g] = Waiting(b) \/ caster'[g] = Marking(b)
      /\ \A h \in Caster \ {g} : caster'[h] = caster[h]
      /\ DOMAIN caster' = Caster
  BY DEF IInv, TypeOK
<1>2. /\ begun \subseteq begun' /\ b \in begun' /\ b \notin begun
      /\ casts' \in Seq(Message) /\ Len(casts') <= MaxCasts
  BY EntersAdds
<1>3. TypeOK'
  <2>1. \A c \in Conn : written[c] \in Seq(begun')
    BY <1>2, SeqGrows DEF IInv, TypeOK
  <2>2. written' \in [Conn -> Seq(begun')] /\ \A c \in Conn : IsInjective(written'[c])
    BY <2>1 DEF IInv, TypeOK
  <2>3. \A h \in Caster : \/ caster'[h].at = "idle"
                          \/ caster'[h].at \in {"mark", "lock", "write"} /\ caster'[h].call \in begun'
    BY <1>1, <1>2, Shapes, CastersOK
  <2> QED BY <1>1, <1>2, <2>2, <2>3 DEF IInv, TypeOK
<1>4. \A c \in Conn : b \notin ToSet(written[c])
  BY <1>2 DEF IInv, TypeOK, ToSet
<1>5. \A h \in Caster : CasterOK(h)'
  <2>1. CasterOK(g)'
    BY <1>1, <1>2, <1>4, Shapes DEF CasterOK
  <2>2. ASSUME NEW h \in Caster \ {g} PROVE CasterOK(h)'
    BY <1>1, <1>2, OthersStay DEF IInv
  <2> QED BY <2>1, <2>2
<1>6. OneEach'
  <2>1. \A h \in Caster \ {g} : Busy(h) => caster[h].call # b
    BY <1>2, Places
  <2> QED BY <1>1, <2>1, Shapes DEF IInv, OneEach, Busy
<1>7. (\A c \in Conn : ConnOK(c))' /\ SameOrder'
  BY DEF IInv, ConnOK, SameOrder
<1> QED BY <1>3, <1>5, <1>6, <1>7 DEF IInv

LEMMA SendMessageStep ==
  ASSUME IInv, NEW h \in Handler, NEW m \in Message, SendMessage(h, m)
  PROVE  IInv'
<1> USE DEF SendMessage
<1> DEFINE b == Len(casts')
<1>1. h \in Caster /\ DOMAIN caster = Caster /\ unmarked \in [Message -> Nat]
  BY DEF Caster, IInv, TypeOK
<1>2. caster'[h] = Marking(b) /\ \A g \in Caster \ {h} : caster'[g] = caster[g]
  BY <1>1
<1> HIDE DEF b
<1>3. /\ casts'[b] = m /\ Times(m)' = Times(m) + 1
      /\ \A x \in Message \ {m} : Times(x)' = Times(x)
  BY EntersAdds DEF b
<1>4. Times(m) = 0
  <2>1. {n \in begun : casts[n] = m} = {}
    BY DEF begun, ToSet
  <2> QED BY <2>1, FS_EmptySet DEF Times
<1>5. Posting(m)'
  <2>1. caster'[h].at = "mark" /\ caster'[h].call = b
    BY <1>2, Shapes
  <2> QED BY <1>3, <2>1 DEF Posting
<1>6. ASSUME NEW x \in Message PROVE MarkOK(x)'
  <2>1. CASE x = m
    BY <1>1, <1>3, <1>4, <1>5, <2>1 DEF MarkOK
  <2>2. CASE x # m
    <3>1. Posting(x) => Posting(x)'
      BY <1>1, <1>2, OthersPosting
    <3> QED BY <1>3, <2>2, <3>1 DEF IInv, MarkOK
  <2> QED BY <2>1, <2>2
<1> QED BY <1>1, <1>6, EnterStep DEF IInv, TypeOK, b

LEMMA HearMessageStep ==
  ASSUME IInv, NEW m \in Message, HearMessage(m)
  PROVE  IInv'
<1> USE DEF HearMessage
<1> DEFINE b == Len(casts')
<1>1. rx \in Caster /\ DOMAIN caster = Caster /\ unmarked \in [Message -> Nat]
  BY DEF Caster, IInv, TypeOK
<1>2. \A g \in Caster \ {rx} : caster'[g] = caster[g]
  BY <1>1
<1>3. /\ Times(m)' = Times(m) + 1 /\ Times(m) \in Nat
      /\ \A x \in Message \ {m} : Times(x)' = Times(x)
  BY EntersAdds
<1>4. /\ unmarked' \in [Message -> Nat]
      /\ unmarked'[m] = IF Posting(m) THEN unmarked[m] + 1 ELSE unmarked[m]
      /\ \A x \in Message \ {m} : unmarked'[x] = unmarked[x]
  BY <1>1 DEF MarkMissing
<1>5. ASSUME NEW x \in Message PROVE MarkOK(x)'
  <2>1. CASE x = m
    BY <1>1, <1>3, <1>4, <2>1 DEF IInv, MarkOK
  <2>2. CASE x # m
    <3>1. Posting(x) => Posting(x)'
      BY <1>1, <1>2, OthersPosting
    <3> QED BY <1>3, <1>4, <2>2, <3>1 DEF IInv, MarkOK
  <2> QED BY <2>1, <2>2
<1> QED BY <1>1, <1>4, <1>5, EnterStep DEF IInv, TypeOK

LEMMA MarkSeenStep ==
  ASSUME IInv, NEW h \in Handler, MarkSeen(h)
  PROVE  IInv'
<1> USE DEF listVars
<1> DEFINE b == caster[h].call
           m == casts[b]
<1>1. /\ h \in Caster /\ caster[h].at = "mark" /\ caster[h] = Marking(b)
      /\ b \in begun /\ m \in Message
      /\ \A c \in Conn : b \notin ToSet(written[c])
  <2>1. h \in Caster /\ caster[h].at = "mark"
    BY DEF Caster, MarkSeen
  <2>2. CasterOK(h) /\ casts \in Seq(Message)
    BY <2>1 DEF IInv, TypeOK
  <2> QED BY <2>1, <2>2, Shapes DEF CasterOK, begun
<1>2. /\ caster'[h] = Waiting(b) /\ \A g \in Caster \ {h} : caster'[g] = caster[g]
      /\ DOMAIN caster' = Caster
  BY <1>1 DEF MarkSeen, IInv, TypeOK
<1>3. UNCHANGED <<casts, listVars>> /\ begun' = begun
  BY DEF MarkSeen, begun
<1>4. /\ \/ seen' = seen \cup {m} /\ UNCHANGED unmarked
         \/ unmarked' = [unmarked EXCEPT ![m] = @ + 1] /\ UNCHANGED seen
      /\ unmarked \in [Message -> Nat] /\ seen \subseteq Message
  BY DEF MarkSeen, MarkMissing, IInv, TypeOK
<1> HIDE DEF b, m
<1>5. TypeOK'
  <2>1. \A g \in Caster : \/ caster'[g].at = "idle"
                          \/ caster'[g].at \in {"mark", "lock", "write"} /\ caster'[g].call \in begun'
    BY <1>1, <1>2, <1>3, Shapes, CastersOK
  <2>2. seen' \subseteq Message /\ unmarked' \in [Message -> Nat]
    BY <1>1, <1>4
  <2> QED BY <1>2, <1>3, <2>1, <2>2 DEF IInv, TypeOK
<1>6. CasterOK(h)'
  BY <1>1, <1>2, <1>3, Shapes DEF CasterOK
<1>7. ASSUME NEW g \in Caster \ {h} PROVE CasterOK(g)'
  BY <1>2, <1>3, OthersStay DEF IInv
<1>8. OneEach'
  BY <1>1, <1>2, Shapes DEF IInv, OneEach, Busy
<1>9. (\A c \in Conn : ConnOK(c))' /\ SameOrder'
  BY <1>3 DEF IInv, ConnOK, SameOrder
<1>10. ASSUME NEW x \in Message PROVE MarkOK(x)'
  <2>1. Times(x)' = Times(x) /\ Times(x) <= 1 + unmarked[x] /\ Times(x) \in Nat
    <3>1. Times(x)' = Times(x)
      BY <1>3 DEF Times
    <3>3. Times(x) \in Nat
      BY TimesIsNat
    <3> QED BY <3>1, <3>3 DEF IInv, MarkOK
  <2>2. CASE x = m
    BY <1>1, <1>4, <2>1, <2>2 DEF MarkOK
  <2>3. CASE x # m
    <3>1. Posting(x) => Posting(x)'
      BY <1>1, <1>2, <1>3, <2>3 DEF Posting, Caster, m, b
    <3> QED BY <1>4, <2>1, <2>3, <3>1 DEF IInv, MarkOK
  <2> QED BY <2>2, <2>3
<1> QED BY <1>5, <1>6, <1>7, <1>8, <1>9, <1>10 DEF IInv

LEMMA ExpireSeenStep ==
  ASSUME IInv, NEW m \in Message, ExpireSeen(m)
  PROVE  IInv'
<1> USE DEF ExpireSeen, listVars
<1>1. /\ unmarked' \in [Message -> Nat] /\ unmarked'[m] = unmarked[m] + 1 /\ unmarked[m] \in Nat
      /\ \A x \in Message \ {m} : unmarked'[x] = unmarked[x]
      /\ UNCHANGED <<casts, caster, listVars>> /\ begun' = begun
  BY DEF MarkMissing, IInv, TypeOK, begun
<1>2. TypeOK'
  BY <1>1 DEF IInv, TypeOK
<1>3. ASSUME NEW h \in Caster PROVE CasterOK(h)'
  BY <1>1, OthersStay DEF IInv
<1>4. OneEach' /\ SameOrder' /\ (\A c \in Conn : ConnOK(c))'
  BY <1>1 DEF IInv, OneEach, Busy, SameOrder, ConnOK
<1>5. ASSUME NEW x \in Message PROVE MarkOK(x)'
  <2>1. Times(x)' = Times(x) /\ (Posting(x)' <=> Posting(x))
    BY <1>1 DEF Times, Posting
  <2>3. Times(x) \in Nat
    BY TimesIsNat
  <2> QED BY <1>1, <2>1, <2>3 DEF IInv, MarkOK
<1> QED BY <1>2, <1>3, <1>4, <1>5 DEF IInv

LEMMA LockStep ==
  ASSUME IInv, NEW g \in Caster, Lock(g)
  PROVE  IInv'
<1> USE DEF Lock, dbVars
<1> DEFINE b == caster[g].call
<1>1. /\ caster[g] = Waiting(b) /\ b \in begun /\ begun' = begun
      /\ \A c \in Conn : b \notin ToSet(written[c])
  <2>1. caster[g].at = "lock" /\ CasterOK(g)
    BY DEF IInv
  <2> QED BY <2>1, Shapes DEF CasterOK, begun
<1>2. caster'[g] = Writing(b, 1, <<>>) /\ \A h \in Caster \ {g} : caster'[h] = caster[h]
  BY DEF IInv, TypeOK
<1>3. TypeOK'
  <2>1. \A h \in Caster : \/ caster'[h].at = "idle"
                          \/ caster'[h].at \in {"mark", "lock", "write"} /\ caster'[h].call \in begun'
    BY <1>1, <1>2, Shapes, CastersOK
  <2> QED BY <1>1, <1>2, <2>1 DEF IInv, TypeOK
<1>4. CasterOK(g)'
  <2>1. \A c \in Conn : LastIfAny(b, written[c])
    BY <1>1 DEF LastIfAny
  <2>2. 1 \in 1 .. Len(wsClients) + 1 /\ \A k \in DOMAIN wsClients : ~(k < 1) /\ wsClients[k] \in Conn
    BY DEF IInv, TypeOK
  <2>3. <<>> \in Seq(1 .. 1 - 1) /\ Increasing(<<>>) /\ DOMAIN <<>> = {}
    BY DEF Increasing
  <2>4. /\ caster'[g].call = b /\ caster'[g].next = 1 /\ caster'[g].failed = <<>>
    BY <1>2, Shapes
  <2> HIDE DEF b
  <2> QED BY <1>1, <1>2, <2>1, <2>2, <2>3, <2>4 DEF CasterOK
<1>5. ASSUME NEW h \in Caster \ {g} PROVE CasterOK(h)'
  BY <1>1, <1>2, OthersStay, Places DEF IInv
<1>6. OneEach'
  BY <1>1, <1>2, Shapes DEF IInv, OneEach, Busy
<1>7. (\A c \in Conn : ConnOK(c))' /\ SameOrder'
  BY <1>3 DEF IInv, ConnOK, SameOrder
<1>8. \A x \in Message : MarkOK(x)'
  <2>1. \A h \in Handler : caster[h].at = "mark" => h \in Caster \ {g}
    BY Shapes DEF Caster
  <2> QED BY <1>2, <2>1, MarksStay
<1> QED BY <1>3, <1>4, <1>5, <1>6, <1>7, <1>8 DEF IInv

\* A goroutine that writes holds the lock: no other does.
LEMMA OneWriter ==
  ASSUME IInv, NEW g \in Caster, NEW h \in Caster,
         caster[g].at = "write", caster[h].at = "write"
  PROVE  g = h
BY Places

LEMMA WriteOpenStep ==
  ASSUME IInv, NEW g \in Caster, WriteJSON(g), peer[Target(g)] = "open"
  PROVE  IInv'
<1> DEFINE b == caster[g].call
           i == caster[g].next
           failed == caster[g].failed
           c == wsClients[i]
<1>1. /\ caster[g].at = "write" /\ caster[g] = Writing(b, i, failed)
      /\ b \in begun /\ wsMu = g
      /\ i \in 1 .. Len(wsClients) /\ failed \in Seq(1 .. i - 1) /\ Increasing(failed)
      /\ \A k \in DOMAIN failed : peer[wsClients[failed[k]]] = "gone"
      /\ \A d \in Conn : LastIfAny(b, written[d])
      /\ \A k \in DOMAIN wsClients :
           IF k < i THEN peer[wsClients[k]] = "gone" \/ b \in ToSet(written[wsClients[k]])
                    ELSE b \notin ToSet(written[wsClients[k]])
  <2>1. caster[g].at = "write" /\ CasterOK(g) /\ i <= Len(wsClients)
    BY DEF WriteJSON, AtClient, IInv
  <2> QED BY <2>1, Shapes DEF CasterOK
<1>2. /\ DOMAIN wsClients = 1 .. Len(wsClients) /\ Len(wsClients) \in Nat
      /\ \A k \in DOMAIN wsClients : wsClients[k] \in Conn
      /\ \A k, l \in DOMAIN wsClients : wsClients[k] = wsClients[l] => k = l
      /\ c \in Conn /\ i \in Nat
  BY <1>1 DEF IInv, TypeOK, IsInjective
<1>3. /\ peer[c] = "open"
      /\ written' = [written EXCEPT ![c] = Append(@, b)]
      /\ caster' = [caster EXCEPT ![g].next = i + 1]
      /\ UNCHANGED <<casts, seen, unmarked>> /\ begun' = begun
      /\ UNCHANGED <<wsMu, wsClients, stream, peer>>
  BY DEF WriteJSON, Target, dbVars, begun
<1>4. /\ caster'[g] = Writing(b, i + 1, failed)
      /\ \A h \in Caster \ {g} : caster'[h] = caster[h]
      /\ DOMAIN caster' = Caster
  BY <1>1, <1>3 DEF IInv, TypeOK, Writing
<1> HIDE DEF b, i, failed, c
<1>5. /\ written'[c] = Append(written[c], b) /\ \A d \in Conn \ {c} : written'[d] = written[d]
      /\ DOMAIN written' = Conn
  BY <1>2, <1>3 DEF IInv, TypeOK
<1>6. b \notin ToSet(written[c])
  BY <1>1, <1>2 DEF c
<1>7. /\ Append(written[c], b) \in Seq(begun) /\ IsInjective(Append(written[c], b))
      /\ Len(Append(written[c], b)) = Len(written[c]) + 1
      /\ Append(written[c], b)[Len(written[c]) + 1] = b
      /\ \A k \in 1 .. Len(written[c]) : Append(written[c], b)[k] = written[c][k]
      /\ ToSet(Append(written[c], b)) = ToSet(written[c]) \cup {b}
  <2>1. written[c] \in Seq(begun) /\ IsInjective(written[c])
    BY <1>2 DEF IInv, TypeOK
  <2> QED BY <2>1, <1>1, <1>6, AppendAdds
<1>8. TypeOK'
  <2>1. \A h \in Caster : \/ caster'[h].at = "idle"
                          \/ caster'[h].at \in {"mark", "lock", "write"} /\ caster'[h].call \in begun'
    BY <1>1, <1>3, <1>4, Shapes, CastersOK
  <2>2. written' \in [Conn -> Seq(begun')] /\ \A d \in Conn : IsInjective(written'[d])
    BY <1>3, <1>5, <1>7 DEF IInv, TypeOK
  <2> QED BY <1>3, <1>4, <2>1, <2>2 DEF IInv, TypeOK
<1>9. \A h \in Caster : CasterOK(h)'
  <2>1. CasterOK(g)'
    <3>1. /\ caster'[g].call = b /\ caster'[g].next = i + 1 /\ caster'[g].failed = failed
      BY <1>4, Shapes
    <3>2. i + 1 \in 1 .. Len(wsClients) + 1 /\ failed \in Seq(1 .. (i + 1) - 1)
      <4>1. failed \in Seq(1 .. i - 1) /\ 1 .. i - 1 \subseteq 1 .. (i + 1) - 1
        BY <1>1, <1>2
      <4>2. failed \in Seq(1 .. (i + 1) - 1)
        BY <4>1, SeqGrows
      <4> QED BY <4>2, <1>1, <1>2
    <3>3. \A d \in Conn : LastIfAny(b, written'[d])
      BY <1>1, <1>5, <1>7 DEF LastIfAny
    <3>4. ASSUME NEW k \in DOMAIN wsClients
          PROVE  IF k < i + 1 THEN peer[wsClients[k]] = "gone" \/ b \in ToSet(written'[wsClients[k]])
                              ELSE b \notin ToSet(written'[wsClients[k]])
      <4>1. CASE k = i
        BY <4>1, <1>2, <1>5, <1>7 DEF c
      <4>2. CASE k # i
        <5>1. wsClients[k] # c /\ wsClients[k] \in Conn /\ (k < i + 1 <=> k < i)
          BY SMTT(30), <4>2, <1>1, <1>2 DEF c
        <5> QED BY <5>1, <1>1, <1>5
      <4> QED BY <4>1, <4>2
    <3> QED BY <1>1, <1>3, <1>4, <3>1, <3>2, <3>3, <3>4 DEF CasterOK
  <2>2. ASSUME NEW h \in Caster \ {g} PROVE CasterOK(h)'
    <3>1. caster'[h] = caster[h] /\ caster[h].at # "write"
      BY <1>1, <1>4, OneWriter
    <3>2. CASE caster[h] = Idle
      BY <3>1, <3>2 DEF CasterOK
    <3>3. CASE caster[h] # Idle
      <4>1. /\ \/ caster[h] = Waiting(caster[h].call)
               \/ caster[h] = Marking(caster[h].call)
            /\ caster[h].call \in begun
            /\ \A d \in Conn : caster[h].call \notin ToSet(written[d])
        BY <3>1, <3>3, Shapes DEF IInv, CasterOK
      <4>2. caster[h].call # b
        BY <1>1, <3>3, Shapes DEF IInv, OneEach, Busy, b
      <4>3. \A d \in Conn : caster[h].call \notin ToSet(written'[d])
        <5>1. caster[h].call \notin ToSet(written'[c])
          BY <1>2, <1>5, <1>7, <4>1, <4>2
        <5>2. \A d \in Conn \ {c} : written'[d] = written[d]
          BY <1>5
        <5> QED BY <4>1, <5>1, <5>2
      <4> QED BY <1>3, <3>1, <4>1, <4>3 DEF CasterOK
    <3> QED BY <3>2, <3>3
  <2> QED BY <2>1, <2>2
<1>10. OneEach'
  BY <1>1, <1>4, Shapes DEF IInv, OneEach, Busy, b
<1>11. (\A d \in Conn : ConnOK(d))'
  BY <1>3 DEF IInv, ConnOK
<1>12. SameOrder'
  <2> SUFFICES ASSUME NEW d \in Conn, NEW e \in Conn,
                      NEW j \in 1 .. Len(written'[d]), NEW k \in 1 .. Len(written'[d]),
                      NEW p \in 1 .. Len(written'[e]), NEW q \in 1 .. Len(written'[e]),
                      written'[d][j] = written'[e][p], written'[d][k] = written'[e][q], j < k
               PROVE  p < q
    BY <1>8 DEF SameOrder
  <2>1. \A x \in Conn : Len(written[x]) \in Nat /\ DOMAIN written[x] = 1 .. Len(written[x])
    BY DEF IInv, TypeOK
  <2>2. \A x \in Conn : \A y \in 1 .. Len(written'[x]) :
          IF y \in 1 .. Len(written[x]) THEN written'[x][y] = written[x][y]
          ELSE x = c /\ y = Len(written[c]) + 1 /\ written'[x][y] = b
    BY <1>5, <1>7, <2>1
  <2>3. \A x \in Conn : \A y \in 1 .. Len(written'[x]) :
          written'[x][y] = b => y = Len(written'[x])
    <3>1. \A x \in Conn : \A y \in 1 .. Len(written[x]) : written[x][y] = b => y = Len(written[x]) /\ x # c
      <4>1. \A x \in Conn : \A y \in 1 .. Len(written[x]) :
              written[x][y] = b => b \in ToSet(written[x])
        BY <2>1 DEF ToSet
      <4>2. \A x \in Conn : \A y, z \in DOMAIN written[x] : written[x][y] = written[x][z] => y = z
        BY DEF IInv, TypeOK, IsInjective
      <4>3. \A x \in Conn : \A y \in 1 .. Len(written[x]) : Len(written[x]) \in DOMAIN written[x]
        BY <2>1
      <4>4. ASSUME NEW x \in Conn, NEW y \in 1 .. Len(written[x]), written[x][y] = b
            PROVE  y = Len(written[x]) /\ x # c
        <5>1. b \in ToSet(written[x]) /\ LastIfAny(b, written[x])
          BY <1>1, <4>1, <4>4
        <5>2. written[x][Len(written[x])] = b
          BY <5>1 DEF LastIfAny
        <5> QED BY <1>6, <2>1, <4>2, <4>3, <4>4, <5>1, <5>2
      <4> QED BY <4>4
    <3> QED BY <1>5, <1>7, <2>1, <2>2, <3>1
  <2>4. /\ Len(written'[d]) \in Nat /\ Len(written'[e]) \in Nat
        /\ j \in Nat /\ k \in Nat /\ p \in Nat /\ q \in Nat
    BY <1>8 DEF TypeOK
  <2>5. written'[d][j] # b
    BY <2>3, <2>4
  <2>6. CASE written'[d][k] = b
    <3>1. q = Len(written'[e]) /\ p # q
      BY <2>3, <2>5, <2>6
    <3> QED BY <2>4, <3>1
  <2>7. CASE written'[d][k] # b
    <3>1. /\ j \in 1 .. Len(written[d]) /\ k \in 1 .. Len(written[d])
          /\ p \in 1 .. Len(written[e]) /\ q \in 1 .. Len(written[e])
      BY <2>2, <2>5, <2>7
    <3>2. written[d][j] = written[e][p] /\ written[d][k] = written[e][q]
      BY <2>2, <3>1
    <3> QED BY <3>1, <3>2 DEF IInv, SameOrder
  <2> QED BY <2>6, <2>7
<1>13. \A x \in Message : MarkOK(x)'
  <2>1. \A h \in Handler : caster[h].at = "mark" => h \in Caster \ {g}
    BY <1>1 DEF Caster
  <2> QED BY <1>3, <1>4, <2>1, MarksStay
<1> QED BY <1>8, <1>9, <1>10, <1>11, <1>12, <1>13 DEF IInv

LEMMA WriteGoneStep ==
  ASSUME IInv, NEW g \in Caster, WriteJSON(g), peer[Target(g)] # "open"
  PROVE  IInv'
<1> DEFINE b == caster[g].call
           i == caster[g].next
           failed == caster[g].failed
           c == wsClients[i]
<1>1. /\ caster[g].at = "write" /\ caster[g] = Writing(b, i, failed)
      /\ b \in begun /\ wsMu = g
      /\ i \in 1 .. Len(wsClients) /\ failed \in Seq(1 .. i - 1) /\ Increasing(failed)
      /\ \A k \in DOMAIN failed : peer[wsClients[failed[k]]] = "gone"
      /\ \A d \in Conn : LastIfAny(b, written[d])
      /\ \A k \in DOMAIN wsClients :
           IF k < i THEN peer[wsClients[k]] = "gone" \/ b \in ToSet(written[wsClients[k]])
                    ELSE b \notin ToSet(written[wsClients[k]])
  <2>1. caster[g].at = "write" /\ CasterOK(g) /\ i <= Len(wsClients)
    BY DEF WriteJSON, AtClient, IInv
  <2> QED BY <2>1, Shapes DEF CasterOK
<1>2. PICK err \in {<<>>, <<i>>} : caster' = [caster EXCEPT ![g] = Writing(b, i + 1, failed \o err)]
  BY DEF WriteJSON, Target
<1>3. peer[c] = "gone" /\ UNCHANGED <<wsMu, wsClients, stream, peer, written>>
      /\ UNCHANGED <<casts, seen, unmarked>> /\ begun' = begun
  BY DEF WriteJSON, Target, dbVars, begun
<1>4. /\ caster'[g] = Writing(b, i + 1, failed \o err)
      /\ \A h \in Caster \ {g} : caster'[h] = caster[h]
      /\ DOMAIN caster' = Caster
  BY <1>2 DEF IInv, TypeOK
<1>5. /\ DOMAIN wsClients = 1 .. Len(wsClients) /\ Len(wsClients) \in Nat /\ i \in Nat
  BY <1>1 DEF IInv, TypeOK
<1> HIDE DEF b, i, failed, c
<1>6. /\ failed \o err \in Seq(1 .. (i + 1) - 1) /\ Increasing(failed \o err)
      /\ \A k \in DOMAIN (failed \o err) : peer[wsClients[(failed \o err)[k]]] = "gone"
  <2>1. failed \in Seq(1 .. (i + 1) - 1) /\ \A k \in DOMAIN failed : failed[k] \in 1 .. i - 1
    <3>1. failed \in Seq(1 .. i - 1) /\ 1 .. i - 1 \subseteq 1 .. (i + 1) - 1
      BY <1>1, <1>5
    <3>2. failed \in Seq(1 .. (i + 1) - 1)
      BY <3>1, SeqGrows
    <3>3. \A k \in DOMAIN failed : failed[k] \in 1 .. i - 1
      BY <3>1, ElementOfSeq, LenProperties
    <3> QED BY <3>2, <3>3
  <2>2. i \in 1 .. (i + 1) - 1
    BY <1>1, <1>5
  <2>3. CASE err = <<>>
    <3>1. failed \o err = failed
      BY <2>1, <2>3
    <3> QED BY <1>1, <2>1, <3>1
  <2>4. CASE err = <<i>>
    <3>1. failed \o err = Append(failed, i)
      BY <2>1, <2>2, <2>4
    <3>2. /\ Append(failed, i) \in Seq(1 .. (i + 1) - 1) /\ Len(Append(failed, i)) = Len(failed) + 1
          /\ Append(failed, i)[Len(failed) + 1] = i
          /\ \A k \in 1 .. Len(failed) : Append(failed, i)[k] = failed[k]
      BY <2>1, <2>2, AppendAdds
    <3>3. /\ DOMAIN failed = 1 .. Len(failed) /\ Len(failed) \in Nat
          /\ DOMAIN Append(failed, i) = 1 .. Len(failed) + 1
      BY <2>1, <3>2
    <3>4. Increasing(Append(failed, i))
      <4>1. ASSUME NEW k \in 1 .. Len(failed) + 1, NEW l \in 1 .. Len(failed) + 1, k < l
            PROVE  Append(failed, i)[k] < Append(failed, i)[l]
        <5>1. k \in 1 .. Len(failed) /\ Append(failed, i)[k] = failed[k] /\ failed[k] \in 1 .. i - 1
          BY <2>1, <3>2, <3>3, <4>1
        <5>2. CASE l = Len(failed) + 1
          BY <1>5, <3>2, <5>1, <5>2
        <5>3. CASE l # Len(failed) + 1
          <6>1. l \in 1 .. Len(failed) /\ Append(failed, i)[l] = failed[l]
            BY <3>2, <3>3, <5>3
          <6> QED BY <1>1, <3>3, <4>1, <5>1, <6>1 DEF Increasing
        <5> QED BY <5>2, <5>3
      <4> QED BY <3>3, <4>1 DEF Increasing
    <3>5. ASSUME NEW k \in 1 .. Len(failed) + 1
          PROVE  peer[wsClients[Append(failed, i)[k]]] = "gone"
      <4>1. CASE k = Len(failed) + 1
        BY <1>3, <3>2, <4>1 DEF c
      <4>2. CASE k # Len(failed) + 1
        <5>1. k \in DOMAIN failed /\ Append(failed, i)[k] = failed[k]
          BY <3>2, <3>3, <4>2
        <5> QED BY <1>1, <5>1
      <4> QED BY <4>1, <4>2
    <3> QED BY <3>1, <3>2, <3>3, <3>4, <3>5
  <2> QED BY <2>3, <2>4
<1> DEFINE failedNow == failed \o err
<1> HIDE DEF failedNow
<1>7. /\ caster'[g] = Writing(b, i + 1, failedNow)
      /\ caster'[g].at = "write" /\ caster'[g].call = b
      /\ caster'[g].next = i + 1 /\ caster'[g].failed = failedNow
  <2>1. caster'[g] = Writing(b, i + 1, failedNow)
    BY <1>4 DEF failedNow
  <2> QED BY <2>1, Shapes
<1>8. TypeOK'
  <2>1. \A h \in Caster : \/ caster'[h].at = "idle"
                          \/ caster'[h].at \in {"mark", "lock", "write"} /\ caster'[h].call \in begun'
    BY <1>1, <1>3, <1>4, <1>7, CastersOK
  <2> QED BY <1>3, <1>4, <2>1 DEF IInv, TypeOK
<1>9. \A h \in Caster : CasterOK(h)'
  <2>1. CasterOK(g)'
    <3>1. /\ failedNow \in Seq(1 .. (i + 1) - 1) /\ Increasing(failedNow)
          /\ \A k \in DOMAIN failedNow : peer[wsClients[failedNow[k]]] = "gone"
      BY <1>6 DEF failedNow
    <3>2. i + 1 \in 1 .. Len(wsClients) + 1
      BY <1>1, <1>5
    <3>3. \A k \in DOMAIN wsClients :
            IF k < i + 1 THEN peer[wsClients[k]] = "gone" \/ b \in ToSet(written[wsClients[k]])
                         ELSE b \notin ToSet(written[wsClients[k]])
      <4>1. \A k \in DOMAIN wsClients : k = i \/ (k < i + 1 <=> k < i)
        BY <1>5
      <4>2. i < i + 1
        BY <1>5
      <4> QED BY <1>1, <1>3, <4>1, <4>2 DEF c
    <3> QED BY <1>1, <1>3, <1>7, <3>1, <3>2, <3>3 DEF CasterOK
  <2>2. ASSUME NEW h \in Caster \ {g} PROVE CasterOK(h)'
    BY <1>3, <1>4, OthersStay DEF IInv
  <2> QED BY <2>1, <2>2
<1>10. OneEach'
  BY <1>1, <1>4, <1>7, Shapes DEF IInv, OneEach, Busy, b
<1>11. (\A d \in Conn : ConnOK(d))' /\ SameOrder'
  BY SMTT(30), <1>3, <1>8 DEF IInv, ConnOK, SameOrder
<1>12. \A x \in Message : MarkOK(x)'
  <2>1. \A h \in Handler : caster[h].at = "mark" => h \in Caster \ {g}
    BY <1>1 DEF Caster
  <2> QED BY <1>3, <1>4, <2>1, MarksStay
<1> QED BY <1>8, <1>9, <1>10, <1>11, <1>12 DEF IInv

(* Finish drops the clients whose write failed, no other, from a list that  *)
(* nobody could change since.                                               *)
LEMMA FinishDrops ==
  ASSUME IInv, NEW g \in Caster, Finish(g)
  PROVE  /\ caster[g].at = "write" /\ caster[g].call \in begun
         /\ wsClients' \in Seq(Conn) /\ IsInjective(wsClients')
         /\ ToSet(wsClients') \subseteq ToSet(wsClients)
         /\ \A c \in ToSet(wsClients) : peer[c] # "gone" =>
              c \in ToSet(wsClients') /\ caster[g].call \in ToSet(written[c])
<1> DEFINE b == caster[g].call
           i == caster[g].next
           failed == caster[g].failed
<1>1. /\ caster[g].at = "write" /\ b \in begun
      /\ i \in 1 .. Len(wsClients) + 1 /\ ~(i <= Len(wsClients))
      /\ failed \in Seq(1 .. i - 1) /\ Increasing(failed)
      /\ \A k \in DOMAIN failed : peer[wsClients[failed[k]]] = "gone"
      /\ \A k \in DOMAIN wsClients :
           IF k < i THEN peer[wsClients[k]] = "gone" \/ b \in ToSet(written[wsClients[k]])
                    ELSE b \notin ToSet(written[wsClients[k]])
  <2>1. caster[g].at = "write" /\ CasterOK(g)
    BY DEF Finish, IInv
  <2> QED BY <2>1, Shapes DEF CasterOK, Finish, AtClient
<1>2. DOMAIN wsClients = 1 .. Len(wsClients) /\ Len(wsClients) \in Nat /\ wsClients \in Seq(Conn)
      /\ IsInjective(wsClients)
  BY DEF IInv, TypeOK
<1>3. wsClients' = Without(wsClients, failed)
  BY DEF Finish
<1> HIDE DEF b, i, failed
<1>4. i - 1 = Len(wsClients) /\ failed \in Seq(1 .. Len(wsClients))
  BY <1>1, <1>2
<1>5. /\ wsClients' \in Seq(Conn) /\ IsInjective(wsClients')
      /\ ToSet(wsClients') = {wsClients[k] : k \in DOMAIN wsClients \ ToSet(failed)}
  BY <1>1, <1>2, <1>3, <1>4, WithoutKeepsOthers
<1>6. ASSUME NEW c \in ToSet(wsClients), peer[c] # "gone"
      PROVE  c \in ToSet(wsClients') /\ b \in ToSet(written[c])
  <2>1. PICK k \in DOMAIN wsClients : wsClients[k] = c
    BY DEF ToSet
  <2>2. k \notin ToSet(failed)
    BY <1>1, <1>6, <2>1 DEF ToSet
  <2>3. k < i
    BY <1>1, <1>2, <1>4
  <2> QED BY <1>1, <1>5, <1>6, <2>1, <2>2, <2>3
<1> QED BY <1>1, <1>5, <1>6 DEF b, ToSet

LEMMA FinishStep ==
  ASSUME IInv, NEW g \in Caster, Finish(g)
  PROVE  IInv'
<1>1. /\ caster'[g] = Idle /\ \A h \in Caster \ {g} : caster'[h] = caster[h]
      /\ DOMAIN caster' = Caster
      /\ wsMu' = Free /\ UNCHANGED <<casts, unmarked, stream, peer, written>>
      /\ begun' = begun
  BY DEF Finish, IInv, TypeOK, begun
<1>2. /\ caster[g].at = "write"
      /\ wsClients' \in Seq(Conn) /\ IsInjective(wsClients')
      /\ ToSet(wsClients') \subseteq ToSet(wsClients)
  BY FinishDrops
<1>8. seen \subseteq seen' /\ seen' \subseteq Message
  <2>1. /\ caster[g].call \in begun /\ casts \in Seq(Message) /\ seen \subseteq Message
    BY <1>2, Shapes, Places DEF IInv, TypeOK, Busy
  <2>2. casts[caster[g].call] \in Message
    BY <2>1 DEF begun
  <2> QED BY <2>1, <2>2 DEF Finish, MarkedAgain
<1>3. TypeOK'
  <2>1. \A h \in Caster : \/ caster'[h].at = "idle"
                          \/ caster'[h].at \in {"mark", "lock", "write"} /\ caster'[h].call \in begun'
    BY <1>1, Shapes, CastersOK
  <2> QED BY <1>1, <1>2, <1>8, <2>1 DEF IInv, TypeOK
<1>4. \A h \in Caster : CasterOK(h)'
  <2>1. CasterOK(g)'
    BY <1>1 DEF CasterOK
  <2>2. ASSUME NEW h \in Caster \ {g} PROVE CasterOK(h)'
    <3>1. caster[h].at # "write"
      BY <1>2, OneWriter
    <3> QED BY <1>1, <3>1, OthersStay DEF IInv
  <2> QED BY <2>1, <2>2
<1>5. OneEach'
  BY <1>1 DEF IInv, OneEach, Busy
<1>6. ASSUME NEW c \in Conn PROVE ConnOK(c)'
  BY <1>1, <1>2 DEF IInv, ConnOK
<1>7. SameOrder'
  BY <1>1, <1>3 DEF IInv, SameOrder
<1>9. \A x \in Message : MarkOK(x)'
  <2>1. \A h \in Handler : caster[h].at = "mark" => h \in Caster \ {g}
    BY <1>2 DEF Caster
  <2> QED BY <1>1, <1>8, <2>1, MarksStay
<1> QED BY <1>3, <1>4, <1>5, <1>6, <1>7, <1>9 DEF IInv

\* Register and Unregister: nobody is in a broadcast's loop.
LEMMA ListStep ==
  ASSUME IInv, NEW c \in Conn, Register(c) \/ Unregister(c)
  PROVE  IInv'
<1>1. /\ wsMu = Free /\ UNCHANGED <<caster, wsMu, peer, written>>
      /\ UNCHANGED <<casts, seen, unmarked>> /\ begun' = begun
      /\ \A d \in Conn \ {c} : stream'[d] = stream[d]
      /\ stream' \in [Conn -> {"new", "upgraded", "registered", "leaving", "closed"}]
  BY DEF Register, Unregister, Goes, IInv, TypeOK, dbVars, begun
<1>2. wsClients \in Seq(Conn) /\ IsInjective(wsClients)
  BY DEF IInv, TypeOK
<1>3. /\ wsClients' \in Seq(Conn) /\ IsInjective(wsClients')
      /\ ToSet(wsClients') \ {c} \subseteq ToSet(wsClients) \ {c}
      /\ stream'[c] \in {"registered", "closed"}
      /\ stream'[c] = "closed" => c \notin ToSet(wsClients') /\ peer[c] = "gone"
      /\ peer'[c] # "open" => stream'[c] # "new"
  <2>1. CASE Register(c)
    <3>1. c \notin ToSet(wsClients) /\ stream'[c] = "registered"
      BY <2>1 DEF Register, Goes, IInv, ConnOK, TypeOK
    <3> QED BY <1>2, <2>1, <3>1, AppendAdds DEF Register
  <2>2. CASE Unregister(c)
    <3>1. stream'[c] = "closed" /\ peer[c] = "gone"
      BY <2>2 DEF Unregister, Goes, IInv, ConnOK, TypeOK
    <3>2. CASE \E i \in DOMAIN wsClients : wsClients[i] = c /\ wsClients' = RemoveAt(wsClients, i)
      <4>1. PICK i \in DOMAIN wsClients : wsClients[i] = c /\ wsClients' = RemoveAt(wsClients, i)
        BY <3>2
      <4>2. i \in 1 .. Len(wsClients)
        BY <1>2
      <4>3. /\ wsClients' \in Seq(Conn) /\ IsInjective(wsClients')
            /\ ToSet(wsClients') = ToSet(wsClients) \ {c}
        BY <1>2, <4>1, <4>2, RemoveAtRemoves
      <4> QED BY <3>1, <4>3
    <3>3. CASE c \notin ToSet(wsClients) /\ UNCHANGED wsClients
      BY <1>2, <3>1, <3>3
    <3> QED BY <2>2, <3>2, <3>3 DEF Unregister
  <2> QED BY <2>1, <2>2
<1>4. TypeOK'
  BY <1>1, <1>3 DEF IInv, TypeOK
<1>5. ASSUME NEW h \in Caster PROVE CasterOK(h)'
  BY <1>1, OthersStay, Places DEF IInv
<1>6. OneEach' /\ SameOrder'
  BY <1>1, <1>4 DEF IInv, OneEach, Busy, SameOrder
<1>7. ASSUME NEW d \in Conn PROVE ConnOK(d)'
  BY <1>1, <1>3 DEF IInv, ConnOK
<1>8. \A x \in Message : MarkOK(x)'
  BY <1>1, MarksStay
<1> QED BY <1>4, <1>5, <1>6, <1>7, <1>8 DEF IInv

\* What leaves the list and the messages alone.
LEMMA PeerStep ==
  ASSUME IInv, NEW c \in Conn,
         Upgrade(c) \/ ReadEnds(c) \/ Stall(c) \/ Resume(c) \/ Leave(c)
  PROVE  IInv'
<1> USE DEF Upgrade, ReadEnds, Stall, Resume, Leave, Goes
<1>1. /\ UNCHANGED <<caster, wsMu, wsClients, written>>
      /\ UNCHANGED <<casts, seen, unmarked>> /\ begun' = begun
      /\ \A d \in Conn : peer[d] = "gone" => peer'[d] = "gone"
  BY DEF IInv, TypeOK, dbVars, begun
<1>2. TypeOK'
  BY <1>1 DEF IInv, TypeOK
<1>3. ASSUME NEW h \in Caster PROVE CasterOK(h)'
  BY <1>1, OthersStay DEF IInv
<1>4. OneEach' /\ SameOrder'
  BY <1>1, <1>2 DEF IInv, OneEach, Busy, SameOrder
<1>5. ASSUME NEW d \in Conn PROVE ConnOK(d)'
  <2>1. ConnOK(d) /\ ConnOK(c) /\ stream \in [Conn -> {"new", "upgraded", "registered", "leaving", "closed"}]
        /\ peer \in [Conn -> {"open", "stalled", "gone"}]
    BY DEF IInv, TypeOK
  <2> QED BY <1>1, <2>1 DEF ConnOK
<1>6. \A x \in Message : MarkOK(x)'
  BY <1>1, MarksStay
<1> QED BY <1>2, <1>3, <1>4, <1>5, <1>6 DEF IInv

LEMMA NextIInv == IInv /\ [Next]_vars => IInv'
<1> SUFFICES ASSUME IInv, [Next]_vars PROVE IInv'
  OBVIOUS
<1>1. ASSUME NEW m \in Message, NEW h \in Handler, SendMessage(h, m) PROVE IInv'
  BY <1>1, SendMessageStep
<1>8. ASSUME NEW m \in Message, HearMessage(m) \/ ExpireSeen(m) PROVE IInv'
  BY <1>8, HearMessageStep, ExpireSeenStep
<1>9. ASSUME NEW h \in Handler, MarkSeen(h) PROVE IInv'
  BY <1>9, MarkSeenStep
<1>2. ASSUME NEW g \in Caster, Lock(g) PROVE IInv'
  BY <1>2, LockStep
<1>3. ASSUME NEW g \in Caster, WriteJSON(g) PROVE IInv'
  BY <1>3, WriteOpenStep, WriteGoneStep
<1>4. ASSUME NEW g \in Caster, Finish(g) PROVE IInv'
  BY <1>4, FinishStep
<1>5. ASSUME NEW c \in Conn, Register(c) \/ Unregister(c) PROVE IInv'
  BY <1>5, ListStep
<1>6. ASSUME NEW c \in Conn, Upgrade(c) \/ ReadEnds(c) \/ Stall(c) \/ Resume(c) \/ Leave(c)
      PROVE  IInv'
  BY <1>6, PeerStep
<1>7. CASE UNCHANGED vars
  <2>1. UNCHANGED <<casts, seen, unmarked, caster>> /\ begun' = begun
    BY <1>7 DEF vars, dbVars, begun
  <2>2. \A m \in Message : MarkOK(m)'
    BY <2>1, MarksStay
  <2> QED BY <1>7, <2>1, <2>2 DEF vars, IInv, TypeOK, CasterOK, OneEach, Busy, ConnOK, SameOrder
<1> QED BY <1>1, <1>2, <1>3, <1>4, <1>5, <1>6, <1>7, <1>8, <1>9 DEF Next

\* The invariant of every behaviour of SendMessage, handleMSG,
\* BroadcastMessage and handleStream, with what is left on the list and what
\* may still be broadcast again.
THEOREM Invariant == Spec => []IInv
BY InitIInv, NextIInv, PTL DEF Spec

(* Whatever the handlers, messages and connections: two clients see what    *)
(* both get in one order, none gets one call of BroadcastMessage twice, and *)
(* a message is broadcast once more only for a mark that expired, failed or *)
(* came too late (handleMSG, SendMessage and CleanupSeenCache in any order).*)
THEOREM OneOrder == Spec => []StreamInOrder
<1>1. IInv => StreamInOrder
  BY DEF IInv, StreamInOrder, OncePerMark, MarkOK
<1> QED BY <1>1, Invariant, PTL

-----------------------------------------------------------------------------
(* The refinement: Casting gains the call of a message that enters and      *)
(* loses it when Finish ends it, and Line moves when the connection does.   *)

LEMMA CastingIs ==
  \A b : b \in Casting <=> \E g \in Caster : Busy(g) /\ caster[g].call = b
BY DEF Casting, Busy

\* Steps that leave the goroutines' messages and this connection as they are.
LEMMA Stutters ==
  ASSUME UNCHANGED <<begun, written>>,
         \A g \in Caster : /\ Busy(g)' <=> Busy(g)
                           /\ Busy(g) => caster'[g].call = caster[g].call,
         Line' = Line
  PROVE  UNCHANGED Client!vars
<1>1. Casting' = Casting
  BY CastingIs, CastingIs' DEF Casting, Busy
<1> QED BY <1>1 DEF Client!vars

LEMMA InitStream == Init => Client!Init
BY ClientAssumption DEF Init, begun, Client!Init, Casting, Line, ToSet

\* A message that enters begins a call; marking it is no step of the stream.
LEMMA EnterBegins ==
  ASSUME IInv, NEW m \in Message, NEW g \in Caster,
         SendMessage(g, m) \/ (g = rx /\ HearMessage(m))
  PROVE  [Client!Next]_(Client!vars)
<1> DEFINE b == Len(casts')
<1> USE DEF listVars
<1>1. /\ Enters(m) /\ caster[g] = Idle /\ UNCHANGED listVars /\ DOMAIN caster = Caster
      /\ \/ caster' = [caster EXCEPT ![g] = Waiting(b)]
         \/ caster' = [caster EXCEPT ![g] = Marking(b)]
  BY DEF SendMessage, HearMessage, IInv, TypeOK
<1>2. /\ b \notin begun /\ begun' = begun \cup {b} /\ Len(casts') <= MaxCasts
  BY <1>1, EntersAdds
<1>3. b \in Call
  BY <1>1, <1>2 DEF Call, Enters, IInv, TypeOK
<1> HIDE DEF b
<1>4. /\ caster'[g] = Waiting(b) \/ caster'[g] = Marking(b)
      /\ \A h \in Caster \ {g} : caster'[h] = caster[h]
  BY <1>1
<1>5. Casting' = Casting \cup {b}
  <2>1. \A x : x \in Casting' <=> x \in Casting \/ x = b
    BY <1>1, <1>4, CastingIs, Shapes DEF Casting, Busy
  <2> QED BY <2>1
<1>6. written' = written /\ Line' = Line
  BY <1>1 DEF Line
<1>7. Client!Begin(b)
  BY <1>2, <1>3, <1>5, <1>6 DEF Client!Begin
<1> QED BY <1>3, <1>7 DEF Client!Next

LEMMA MarkStutters ==
  ASSUME IInv, (\E h \in Handler : MarkSeen(h)) \/ (\E m \in Message : ExpireSeen(m))
  PROVE  UNCHANGED Client!vars
<1> USE DEF listVars
<1>1. UNCHANGED <<begun, written>> /\ Line' = Line
  BY DEF MarkSeen, ExpireSeen, Line, begun
<1>2. ASSUME NEW h \in Handler, MarkSeen(h), NEW g \in Caster
      PROVE  /\ Busy(g)' <=> Busy(g)
             /\ Busy(g) => caster'[g].call = caster[g].call
  <2>1. /\ caster[h].at = "mark" /\ caster'[h] = Waiting(caster[h].call)
        /\ \A x \in Caster \ {h} : caster'[x] = caster[x]
    BY <1>2 DEF MarkSeen, IInv, TypeOK, Caster
  <2>2. CASE g = h
    BY <2>1, <2>2, Shapes DEF Busy
  <2>3. CASE g # h
    BY <2>1, <2>3 DEF Busy
  <2> QED BY <2>2, <2>3
<1>3. CASE \E m \in Message : ExpireSeen(m)
  BY <1>1, <1>3, Stutters DEF ExpireSeen, Busy
<1>4. CASE \E h \in Handler : MarkSeen(h)
  BY <1>1, <1>2, <1>4, Stutters
<1> QED BY <1>3, <1>4

LEMMA CasterSteps ==
  ASSUME IInv, NEW g \in Caster, Lock(g) \/ WriteJSON(g) \/ Finish(g)
  PROVE  [Client!Next]_(Client!vars)
<1>1. DOMAIN caster = Caster /\ written \in [Conn -> Seq(begun)] /\ client \in Conn
      /\ begun \subseteq Call
  BY ClientAssumption, StreamAssumption DEF IInv, TypeOK, begun, Call
<1>3. CASE Lock(g)
  <2>1. /\ caster[g].at = "lock" /\ caster'[g].at = "write" /\ caster'[g].call = caster[g].call
        /\ \A h \in Caster \ {g} : caster'[h] = caster[h]
    BY <1>1, <1>3, Shapes DEF Lock
  <2>2. UNCHANGED <<begun, written>> /\ Line' = Line
    BY <1>3 DEF Lock, Line, dbVars, begun
  <2> QED BY <2>1, <2>2, Stutters, Shapes DEF Busy
<1>4. CASE WriteJSON(g)
  <2>1. /\ caster[g].at = "write" /\ caster'[g].at = "write" /\ caster'[g].call = caster[g].call
        /\ \A h \in Caster \ {g} : caster'[h] = caster[h]
        /\ Line' = Line /\ begun' = begun
    <3>1. caster[g].at = "write" /\ caster[g].next \in 1 .. Len(wsClients)
          /\ caster[g] = Writing(caster[g].call, caster[g].next, caster[g].failed)
      <4>1. caster[g].at = "write" /\ CasterOK(g) /\ caster[g].next <= Len(wsClients)
        BY <1>4 DEF WriteJSON, AtClient, IInv
      <4>2. caster[g].next \in 1 .. Len(wsClients) + 1
        BY <4>1, Shapes DEF CasterOK
      <4>3. Len(wsClients) \in Nat
        BY DEF IInv, TypeOK
      <4> QED BY <4>1, <4>2, <4>3, Places
    <3>2. CASE caster' = [caster EXCEPT ![g].next = caster[g].next + 1]
      BY <1>1, <1>4, <3>1, <3>2 DEF WriteJSON, Line, Writing, dbVars, begun
    <3>3. CASE \E f : caster' = [caster EXCEPT ![g] = Writing(caster[g].call, caster[g].next + 1, f)]
      BY <1>1, <1>4, <3>1, <3>3, Shapes DEF WriteJSON, Line, dbVars, begun
    <3> QED BY <1>4, <3>2, <3>3 DEF WriteJSON
  <2>2. Casting' = Casting
    BY <2>1, CastingIs, Shapes DEF Casting, Busy
  <2>3. CASE written'[client] = written[client]
    BY <2>1, <2>2, <2>3 DEF Client!vars
  <2>4. CASE written'[client] # written[client]
    <3> DEFINE x == caster[g].call  i == caster[g].next
    <3>1. /\ wsClients[i] = client /\ peer[client] = "open"
          /\ written'[client] = Append(written[client], x)
      BY <1>1, <1>4, <2>4 DEF WriteJSON, Target
    <3>2. /\ i \in DOMAIN wsClients /\ x \in begun /\ x \notin ToSet(written[client])
      <4>1. caster[g].at = "write" /\ CasterOK(g) /\ i <= Len(wsClients)
        BY <1>4 DEF WriteJSON, AtClient, IInv
      <4>2. /\ i \in 1 .. Len(wsClients) + 1 /\ x \in begun
            /\ \A k \in DOMAIN wsClients :
                 IF k < i THEN peer[wsClients[k]] = "gone" \/ x \in ToSet(written[wsClients[k]])
                          ELSE x \notin ToSet(written[wsClients[k]])
        BY <4>1, Shapes DEF CasterOK
      <4>3. DOMAIN wsClients = 1 .. Len(wsClients) /\ Len(wsClients) \in Nat
        BY DEF IInv, TypeOK
      <4>4. i \in DOMAIN wsClients /\ ~(i < i)
        BY <4>1, <4>2, <4>3
      <4> QED BY <3>1, <4>2, <4>4
    <3>3. Line = "up"
      BY <3>1, <3>2 DEF Line, ToSet
    <3>4. x \in Casting
      BY <2>1, CastingIs, Shapes DEF Busy
    <3>5. Client!Bring(x)
      BY <2>1, <2>2, <3>1, <3>2, <3>3, <3>4 DEF Client!Bring, Client!ToSet, ToSet
    <3> QED BY <1>1, <3>2, <3>5 DEF Client!Next
  <2> QED BY <2>3, <2>4
<1>5. CASE Finish(g)
  <2> DEFINE x == caster[g].call
  <2>1. /\ caster'[g] = Idle /\ \A h \in Caster \ {g} : caster'[h] = caster[h]
        /\ UNCHANGED <<begun, stream, peer, written>>
    BY <1>1, <1>5 DEF Finish, begun
  <2>2. /\ caster[g].at = "write" /\ x \in begun
        /\ ToSet(wsClients') \subseteq ToSet(wsClients)
        /\ \A c \in ToSet(wsClients) : peer[c] # "gone" =>
             c \in ToSet(wsClients') /\ x \in ToSet(written[c])
    BY <1>5, FinishDrops
  <2>3. Line' = Line /\ (Line = "up" => x \in ToSet(written[client]))
    BY <2>1, <2>2 DEF Line
  <2>4. Casting' = Casting \ {x} /\ x \in Casting
    <3>1. \A h \in Caster \ {g} : Busy(h) => caster[h].call # x
      BY <2>2, Shapes DEF IInv, OneEach, Busy
    <3>2. Busy(g)
      BY <2>2, Shapes DEF Busy
    <3>3. \A y : y \in Casting' <=> y \in Casting /\ y # x
      BY <2>1, <3>1, <3>2, CastingIs DEF Casting, Busy
    <3> QED BY <3>2, <3>3, CastingIs
  <2>5. Client!End(x)
    BY <2>1, <2>3, <2>4 DEF Client!End, Client!ToSet, ToSet
  <2> QED BY <1>1, <2>2, <2>5 DEF Client!Next
<1> QED BY <1>3, <1>4, <1>5

LEMMA ConnectionSteps ==
  ASSUME IInv, NEW c \in Conn,
         \/ Upgrade(c) \/ Register(c) \/ ReadEnds(c) \/ Unregister(c)
         \/ Stall(c) \/ Resume(c) \/ Leave(c)
  PROVE  [Client!Next]_(Client!vars)
<1>1. /\ client \in Conn /\ ConnOK(client) /\ wsClients \in Seq(Conn)
      /\ stream \in [Conn -> {"new", "upgraded", "registered", "leaving", "closed"}]
      /\ peer \in [Conn -> {"open", "stalled", "gone"}]
  BY ClientAssumption DEF IInv, TypeOK
<1>2. UNCHANGED <<begun, caster, written>> /\ Casting' = Casting
  BY DEF Upgrade, Register, ReadEnds, Unregister, Stall, Resume, Leave, Casting, dbVars, begun
<1>3. CASE Line' = Line
  BY <1>2, <1>3 DEF Client!vars
<1>4. CASE Upgrade(c)
  <2>1. Line' = Line \/ (Line = "none" /\ Line' = "dialled")
    BY <1>1, <1>4 DEF Upgrade, Goes, Line, ConnOK
  <2> QED BY <1>2, <1>3, <2>1 DEF Client!Next, Client!Dial, Client!Moves
<1>5. CASE Register(c)
  <2>1. ToSet(wsClients') = ToSet(wsClients) \cup {c}
    BY <1>1, <1>5, AppendAdds DEF Register
  <2>2. Line' = Line \/ (Line = "dialled" /\ Line' = "up")
    BY <1>1, <1>5, <2>1 DEF Register, Goes, Line, ConnOK
  <2> QED BY <1>2, <1>3, <2>2 DEF Client!Next, Client!Listed, Client!Moves
<1>6. CASE Unregister(c)
  <2>1. ToSet(wsClients') \ {c} = ToSet(wsClients) \ {c}
    <3>1. CASE \E i \in DOMAIN wsClients : wsClients[i] = c /\ wsClients' = RemoveAt(wsClients, i)
      <4>1. PICK i \in DOMAIN wsClients : wsClients[i] = c /\ wsClients' = RemoveAt(wsClients, i)
        BY <3>1
      <4>2. i \in 1 .. Len(wsClients) /\ IsInjective(wsClients)
        BY <1>1 DEF IInv, TypeOK
      <4>3. ToSet(wsClients') = ToSet(wsClients) \ {c}
        BY <1>1, <4>1, <4>2, RemoveAtRemoves
      <4> QED BY <4>3
    <3> QED BY <1>6, <3>1 DEF Unregister
  <2>2. Line' = Line
    <3>1. ConnOK(c) /\ UNCHANGED peer /\ stream[c] = "leaving"
          /\ \A d \in Conn \ {c} : stream'[d] = stream[d]
      BY <1>1, <1>6 DEF IInv, Unregister, Goes
    <3> QED BY <1>1, <2>1, <3>1 DEF Line, ConnOK
  <2> QED BY <1>3, <2>2
<1>7. CASE ReadEnds(c) \/ Stall(c) \/ Resume(c)
  <2>1. Line' = Line
    BY <1>1, <1>7 DEF ReadEnds, Stall, Resume, Goes, Line, ConnOK
  <2> QED BY <1>3, <2>1
<1>8. CASE Leave(c)
  <2>1. Line' = Line \/ (Line \in {"dialled", "up"} /\ Line' = "gone")
    BY <1>1, <1>8 DEF Leave, Line
  <2> QED BY <1>2, <1>3, <2>1 DEF Client!Next, Client!Lost, Client!Moves
<1> QED BY <1>4, <1>5, <1>6, <1>7, <1>8

(* Every connection is a ClientStream: what the display, and any other      *)
(* client of /stream, may rely on, for any number of clients that come,     *)
(* stall and go and of goroutines that broadcast (client is any of Conn).   *)
THEOREM Refinement == Spec => ImplementsClientStream
<1>1. Init => Client!Init
  BY InitStream
<1>2. IInv /\ [Next]_vars => [Client!Next]_(Client!vars)
  <2> SUFFICES ASSUME IInv, [Next]_vars PROVE [Client!Next]_(Client!vars)
    OBVIOUS
  <2>1. ASSUME NEW m \in Message, HearMessage(m) \/ \E h \in Handler : SendMessage(h, m)
        PROVE  [Client!Next]_(Client!vars)
    BY <2>1, EnterBegins DEF Caster
  <2>5. ASSUME (\E h \in Handler : MarkSeen(h)) \/ (\E m \in Message : ExpireSeen(m))
        PROVE  UNCHANGED Client!vars
    BY <2>5, MarkStutters
  <2>2. ASSUME NEW g \in Caster, Lock(g) \/ WriteJSON(g) \/ Finish(g)
        PROVE  [Client!Next]_(Client!vars)
    BY <2>2, CasterSteps
  <2>3. ASSUME NEW c \in Conn,
               \/ Upgrade(c) \/ Register(c) \/ ReadEnds(c) \/ Unregister(c)
               \/ Stall(c) \/ Resume(c) \/ Leave(c)
        PROVE  [Client!Next]_(Client!vars)
    BY <2>3, ConnectionSteps
  <2>4. CASE UNCHANGED vars
    BY <2>4 DEF vars, dbVars, begun, Client!vars, Casting, Line
  <2> QED BY <2>1, <2>2, <2>3, <2>4, <2>5 DEF Next
<1> QED BY <1>1, <1>2, Invariant, PTL DEF Spec, ImplementsClientStream, Client!Spec

=============================================================================
