-------------------------- MODULE ConfigStore_proofs --------------------------
(* StoreInv is inductive: a request that runs alone (alone) has the fields  *)
(* it has assigned so far, and only those, in memory and in the link; the   *)
(* others cannot disturb it, since each change that begins takes alone away *)
(* from all.  So the last write of one that ran alone makes file, memory    *)
(* and link agree.  For the frames: the AX.25 codec loses nothing, and the  *)
(* text of a callsign and an SSID is read back as both.                     *)
EXTENDS ConfigStore, FiniteSetTheorems, SequenceTheorems, WellFoundedInduction, TLAPS

-----------------------------------------------------------------------------
(* Induction on numbers, from the library's well-founded order on finite    *)
(* sets: 0..x is the smallest of its kind.                                  *)
LEMMA SmallestNumber ==
  ASSUME NEW T, T \subseteq Nat, T # {}
  PROVE  \E x \in T : \A y \in T : x <= y
<1> DEFINE U == {0 .. x : x \in T}
<1>1. U # {} /\ U \subseteq FiniteSubsetsOf(Nat)
  <2>1. \A x \in T : IsFiniteSet(0 .. x) /\ 0 .. x \subseteq Nat
    BY FS_Interval
  <2> QED BY <2>1 DEF FiniteSubsetsOf
<1>2. \E u \in U : \A v \in U : <<v, u>> \notin StrictSubsetOrdering(Nat)
  <2> HIDE DEF U
  <2> QED BY <1>1, WFMin, FS_StrictSubsetOrderingWellFounded
<1>3. PICK x \in T : \A y \in T : <<0 .. y, 0 .. x>> \notin StrictSubsetOrdering(Nat)
  BY <1>2
<1>4. ASSUME NEW y \in T, ~(x <= y)
      PROVE  FALSE
  <2>1. y < x /\ x \in Nat /\ y \in Nat
    BY <1>4
  <2>2. 0 .. y \subseteq 0 .. x /\ x \in 0 .. x /\ x \notin 0 .. y
    BY <2>1
  <2>3. 0 .. y \in SUBSET Nat /\ 0 .. x \in SUBSET Nat
    OBVIOUS
  <2> QED BY <1>3, <2>2, <2>3 DEF StrictSubsetOrdering
<1> QED BY <1>4

\* A set of numbers that has 0 and every successor has them all.
LEMMA NumbersByInduction ==
  ASSUME NEW T, 0 \in T, \A n \in Nat : n \in T => n + 1 \in T
  PROVE  Nat \subseteq T
<1> SUFFICES ASSUME Nat \ T # {} PROVE FALSE
  OBVIOUS
<1>1. PICK x \in Nat \ T : \A y \in Nat \ T : x <= y
  BY SmallestNumber
<1>2. x # 0 /\ x - 1 \in Nat /\ x - 1 \in T
  BY <1>1
<1> QED BY <1>1, <1>2

\* Numbers within bounds have a smallest and a largest.
LEMMA MinMaxWithin ==
  ASSUME NEW n \in Nat, NEW S, S \subseteq 1 .. n, S # {}
  PROVE  /\ Min(S) \in S /\ \A y \in S : Min(S) <= y
         /\ Max(S) \in S /\ \A y \in S : y <= Max(S)
<1>1. \E x \in S : \A y \in S : x <= y
  <2>1. S \subseteq Nat
    OBVIOUS
  <2> QED BY <2>1, SmallestNumber
<1>2. \E x \in S : \A y \in S : y <= x
  <2> DEFINE T == {n - i : i \in S}
  <2>1. T \subseteq Nat /\ T # {}
    <3>1. \A i \in S : n - i \in Nat
      OBVIOUS
    <3> QED BY <3>1
  <2>2. PICK t \in T : \A u \in T : t <= u
    <3> HIDE DEF T
    <3> QED BY <2>1, SmallestNumber
  <2>3. PICK x \in S : t = n - x
    OBVIOUS
  <2>4. \A y \in S : n - x <= n - y
    BY <2>2, <2>3
  <2> QED BY <2>4
<1> QED BY <1>1, <1>2 DEF Min, Max

\* A value computed step by step from 0 to n is there.
Steps(f, V, base, n, g) ==
  f \in [0 .. n -> V] /\ f[0] = base /\ \A k \in 1 .. n : f[k] = g[k][f[k - 1]]

LEMMA StepByStep ==
  ASSUME NEW V, NEW base \in V, NEW n \in Nat, NEW g \in [1 .. n -> [V -> V]]
  PROVE  \E f : Steps(f, V, base, n, g)
<1> DEFINE Is(f, j) == /\ f \in [0 .. j -> V] /\ f[0] = base
                       /\ \A k \in 1 .. j : f[k] = g[k][f[k - 1]]
           T == {j \in Nat : j <= n => \E f : Is(f, j)}
<1>1. 0 \in T
  <2>1. Is([k \in 0 .. 0 |-> base], 0)
    OBVIOUS
  <2> QED BY <2>1
<1>2. ASSUME NEW j \in Nat, j \in T
      PROVE  j + 1 \in T
  <2>1. SUFFICES ASSUME j + 1 <= n PROVE \E h : Is(h, j + 1)
    OBVIOUS
  <2>2. PICK f : Is(f, j)
    BY <1>2, <2>1
  <2> DEFINE h == [k \in 0 .. j + 1 |-> IF k <= j THEN f[k] ELSE g[j + 1][f[j]]]
  <2>3. j + 1 \in 1 .. n /\ f[j] \in V /\ g[j + 1][f[j]] \in V
    BY <2>1, <2>2
  <2>4. h \in [0 .. j + 1 -> V] /\ h[0] = base
    BY <2>2, <2>3
  <2>5. \A k \in 0 .. j : h[k] = f[k]
    OBVIOUS
  <2>6. h[j + 1] = g[j + 1][f[j]]
    OBVIOUS
  <2> HIDE DEF h
  <2>7. ASSUME NEW k \in 1 .. j + 1
        PROVE  h[k] = g[k][h[k - 1]]
    <3>1. CASE k = j + 1
      <4>1. k - 1 = j /\ j \in 0 .. j
        BY <3>1
      <4> QED BY <2>5, <2>6, <3>1, <4>1
    <3>2. CASE k # j + 1
      <4>1. k \in 1 .. j /\ k \in 0 .. j /\ k - 1 \in 0 .. j
        BY <3>2
      <4> QED BY <2>2, <2>5, <4>1
    <3> QED BY <3>1, <3>2
  <2> QED BY <2>4, <2>7
<1>3. n \in T
  <2> HIDE DEF T
  <2> QED BY <1>1, <1>2, NumbersByInduction
<1> QED BY <1>3 DEF Steps

-----------------------------------------------------------------------------
(* Texts and numbers.                                                       *)

LEMMA NormalIsText ==
  ASSUME NEW s \in Seq(Char)
  PROVE  Normal(s) \in Seq(Char)
<1>1. Trim(s) \in Seq(Char)
  <2> DEFINE ink == {i \in DOMAIN s : s[i] # Space}
  <2>1. CASE ink = {}
    BY <2>1 DEF Trim
  <2>2. CASE ink # {}
    <3>1. Len(s) \in Nat /\ ink \subseteq 1 .. Len(s)
      OBVIOUS
    <3>2. Trim(s) = SubSeq(s, Min(ink), Max(ink))
      BY <2>2 DEF Trim
    <3> HIDE DEF ink
    <3>3. Min(ink) \in ink /\ Max(ink) \in ink
      BY <2>2, <3>1, MinMaxWithin
    <3> DEFINE a == Min(ink)
               b == Max(ink)
    <3> HIDE DEF a, b
    <3>4. a \in 1 .. Len(s) /\ b \in 1 .. Len(s)
      BY <3>1, <3>3 DEF a, b
    <3>5. SubSeq(s, a, b) \in Seq(Char)
      BY <3>4
    <3> QED BY <3>2, <3>5 DEF a, b
  <2> QED BY <2>1, <2>2
<1> DEFINE t == Trim(s)
<1> HIDE DEF t
<1>2. t \in Seq(Char) /\ Len(t) \in Nat /\ DOMAIN t = 1 .. Len(t) /\ \A i \in 1 .. Len(t) : t[i] \in Char
  BY <1>1 DEF t
<1>3. \A i \in 1 .. Len(t) : (IF t[i] \in 97 .. 122 THEN t[i] - 32 ELSE t[i]) \in Char
  BY <1>2 DEF Char
<1>4. ToUpper(t) \in [1 .. Len(t) -> Char]
  BY <1>2, <1>3 DEF ToUpper
<1>5. ToUpper(t) \in Seq(Char)
  BY <1>2, <1>4
<1> QED BY <1>5 DEF Normal, t

LEMMA SeqOfMore ==
  ASSUME NEW A, NEW B, A \subseteq B, NEW s \in Seq(A)
  PROVE  s \in Seq(B)
OBVIOUS

LEMMA UnsignedIsText ==
  ASSUME NEW s \in Seq(Char)
  PROVE  Unsigned(s) \in Seq(Char)
BY DEF Unsigned

\* Atoi of digits reads them from the left.
LEMMA AtoiReads ==
  ASSUME NEW s \in Seq(Int)
  PROVE  \E value \in [0 .. Len(Unsigned(s)) -> Int] :
           /\ value[0] = 0
           /\ \A k \in 1 .. Len(Unsigned(s)) : value[k] = 10 * value[k - 1] + Unsigned(s)[k] - 48
           /\ Atoi(s) = IF s[1] = Dash THEN -value[Len(Unsigned(s))] ELSE value[Len(Unsigned(s))]
<1> DEFINE d == Unsigned(s)
           n == Len(d)
<1>1. d \in Seq(Int)
  BY DEF Unsigned
<1>2. n \in Nat /\ \A k \in 1 .. n : d[k] \in Int
  BY <1>1
<1> HIDE DEF d
<1> DEFINE Reads(f) == f = [k \in 0 .. n |-> IF k = 0 THEN 0 ELSE 10 * f[k - 1] + d[k] - 48]
           g == [k \in 1 .. n |-> [v \in Int |-> 10 * v + d[k] - 48]]
           value == CHOOSE f : Reads(f)
<1>3. \E f : Reads(f)
  <2>1. g \in [1 .. n -> [Int -> Int]]
    BY <1>2
  <2>2. \A k \in 1 .. n : \A v \in Int : g[k][v] = 10 * v + d[k] - 48
    BY <1>2
  <2> HIDE DEF g, n
  <2>3. PICK f : Steps(f, Int, 0, n, g)
    <3>1. 0 \in Int /\ n \in Nat
      BY <1>2
    <3> QED BY <2>1, <3>1, StepByStep
  <2>4. ASSUME NEW k \in 0 .. n
        PROVE  f[k] = IF k = 0 THEN 0 ELSE 10 * f[k - 1] + d[k] - 48
    <3>1. k # 0 => k \in 1 .. n /\ k - 1 \in 0 .. n
      BY <1>2
    <3> QED BY <2>2, <2>3, <3>1 DEF Steps
  <2>5. Reads(f)
    BY <2>3, <2>4 DEF Steps
  <2> QED BY <2>5
<1>4. Reads(value)
  BY <1>3
<1>5. Atoi(s) = IF s[1] = Dash THEN -value[n] ELSE value[n]
  BY DEF Atoi, d
<1> HIDE DEF value
<1>6. value[0] = 0 /\ \A k \in 1 .. n : value[k] = 10 * value[k - 1] + d[k] - 48
  <2> HIDE DEF n
  <2>1. \A k \in 0 .. n : value[k] = IF k = 0 THEN 0 ELSE 10 * value[k - 1] + d[k] - 48
    BY <1>4
  <2>2. 0 \in 0 .. n /\ \A k \in 1 .. n : k \in 0 .. n /\ k # 0
    BY <1>2
  <2> QED BY <2>1, <2>2
<1>7. \A k \in 0 .. n : value[k] \in Int
  <2> DEFINE T == {k \in Nat : k <= n => value[k] \in Int}
  <2>1. 0 \in T
    BY <1>6
  <2>2. ASSUME NEW k \in Nat, k \in T
        PROVE  k + 1 \in T
    <3> SUFFICES ASSUME k + 1 <= n PROVE value[k + 1] \in Int
      OBVIOUS
    <3>1. PICK i : i = k + 1 /\ i \in 1 .. n /\ i - 1 = k /\ k <= n
      BY <1>2
    <3>2. value[k] \in Int /\ d[i] \in Int
      BY <1>2, <2>2, <3>1
    <3>3. value[i] = 10 * value[k] + d[i] - 48
      BY <1>6, <3>1
    <3> QED BY <3>1, <3>2, <3>3
  <2>3. Nat \subseteq T
    <3> HIDE DEF T
    <3> QED BY <2>1, <2>2, NumbersByInduction
  <2> QED BY <1>2, <2>3
<1>8. value \in [0 .. n -> Int]
  BY <1>4, <1>7
<1> QED BY <1>5, <1>6, <1>8 DEF d

LEMMA AtoiIsNumber ==
  ASSUME NEW s \in Seq(Char)
  PROVE  Atoi(s) \in Int
<1>1. s \in Seq(Int)
  <2>1. Char \subseteq Int
    BY DEF Char
  <2> HIDE DEF Char
  <2> QED BY Zenon, <2>1, SeqOfMore
<1>2. Unsigned(s) \in Seq(Int)
  BY <1>1 DEF Unsigned
<1>3. Len(Unsigned(s)) \in 0 .. Len(Unsigned(s))
  BY <1>2
<1> QED BY <1>1, <1>3, AtoiReads

\* Itoa writes a number from its first digits on.
LEMMA ItoaWrites ==
  ASSUME NEW n \in Int
  PROVE  \E text, size : /\ size = IF n < 0 THEN -n ELSE n
                         /\ \A k \in 0 .. size :
                              /\ text[k] \in Seq(Char)
                              /\ text[k] = IF k < 10 THEN <<48 + k>>
                                           ELSE Append(text[k \div 10], 48 + (k % 10))
                         /\ Itoa(n) = IF n < 0 THEN <<Dash>> \o text[size] ELSE text[size]
<1> DEFINE size == IF n < 0 THEN -n ELSE n
           Step(f, k) == IF k < 10 THEN <<48 + k>> ELSE Append(f[k \div 10], 48 + (k % 10))
           Solves(f, j) == f = [k \in 0 .. j |-> Step(f, k)]
           text == CHOOSE f : Solves(f, size)
           T == {j \in Nat : \E f : Solves(f, j)}
<1>0. size \in Nat
  OBVIOUS
<1>1. 0 \in T
  <2> DEFINE h == [k \in 0 .. 0 |-> <<48 + k>>]
  <2>1. \A k \in 0 .. 0 : k < 10
    OBVIOUS
  <2>2. Solves(h, 0)
    BY <2>1
  <2> HIDE DEF h, Solves
  <2> QED BY <2>2
<1>2. ASSUME NEW j \in Nat, j \in T
      PROVE  j + 1 \in T
  <2>1. PICK g : Solves(g, j)
    BY <1>2
  <2> DEFINE h == [k \in 0 .. j + 1 |-> Step(g, k)]
  <2>2. \A k \in 0 .. j : h[k] = g[k]
    <3>1. \A k \in 0 .. j : g[k] = Step(g, k)
      <4> HIDE DEF Step
      <4> QED BY <2>1
    <3>2. \A k \in 0 .. j + 1 : h[k] = Step(g, k)
      <4> HIDE DEF Step
      <4> QED OBVIOUS
    <3>3. 0 .. j \subseteq 0 .. j + 1
      OBVIOUS
    <3> HIDE DEF h, Step
    <3> QED BY <3>1, <3>2, <3>3
  <2>3. \A k \in 0 .. j + 1 : ~(k < 10) => k \div 10 \in 0 .. j
    OBVIOUS
  <2>4. \A k \in 0 .. j + 1 : Step(h, k) = Step(g, k)
    <3> HIDE DEF h
    <3> QED BY <2>2, <2>3
  <2>5. Solves(h, j + 1)
    <3> HIDE DEF Step
    <3> QED BY <2>4
  <2> HIDE DEF h, Solves
  <2> QED BY <2>5
<1>3. \E f : Solves(f, size)
  <2> HIDE DEF T, size
  <2>1. size \in T
    BY <1>0, <1>1, <1>2, NumbersByInduction
  <2> QED BY <2>1 DEF T
<1>4. Solves(text, size)
  <2> HIDE DEF Solves
  <2> QED BY <1>3
<1>5. Itoa(n) = IF n < 0 THEN <<Dash>> \o text[size] ELSE text[size]
  BY DEF Itoa
<1> HIDE DEF text, size
<1>6. \A k \in 0 .. size : text[k] = Step(text, k)
  <2> HIDE DEF Step
  <2> QED BY <1>4
<1>7. \A k \in 0 .. size : text[k] \in Seq(Char)
  <2> DEFINE S == {j \in Nat : \A k \in 0 .. size : k <= j => text[k] \in Seq(Char)}
  <2>1. \A k \in Nat : 48 + (k % 10) \in Char /\ (k < 10 => 48 + k \in Char)
    BY DEF Char
  <2>2. ASSUME NEW k \in 0 .. size, ~(k < 10) => text[k \div 10] \in Seq(Char)
        PROVE  text[k] \in Seq(Char)
    <3>1. k \in Nat
      BY <1>0
    <3>2. CASE k < 10
      <4>1. text[k] = <<48 + k>>
        BY <1>6, <3>2
      <4> DEFINE c == 48 + k
      <4>2. c \in Char
        BY <2>1, <3>1, <3>2
      <4> HIDE DEF c
      <4>3. <<c>> \in Seq(Char)
        BY <4>2
      <4> QED BY <4>1, <4>3 DEF c
    <3>3. CASE ~(k < 10)
      <4>1. text[k] = Append(text[k \div 10], 48 + (k % 10))
        BY <1>6, <3>3
      <4> DEFINE c == 48 + (k % 10)
                 t == text[k \div 10]
      <4>2. c \in Char /\ t \in Seq(Char)
        BY <2>1, <2>2, <3>1, <3>3
      <4> HIDE DEF c, t
      <4>3. Append(t, c) \in Seq(Char)
        BY <4>2
      <4> QED BY <4>1, <4>3 DEF c, t
    <3> QED BY <3>2, <3>3
  <2>3. 0 \in S
    <3> SUFFICES ASSUME NEW k \in 0 .. size, k <= 0
                 PROVE  text[k] \in Seq(Char)
      OBVIOUS
    <3> QED BY <1>0, <2>2
  <2>4. ASSUME NEW j \in Nat, j \in S
        PROVE  j + 1 \in S
    <3> SUFFICES ASSUME NEW k \in 0 .. size, k <= j + 1
                 PROVE  text[k] \in Seq(Char)
      OBVIOUS
    <3>1. ~(k < 10) => k \div 10 \in 0 .. size /\ k \div 10 <= j
      BY <1>0
    <3> QED BY <2>2, <2>4, <3>1
  <2>5. size \in S
    <3> HIDE DEF S
    <3> QED BY <1>0, <2>3, <2>4, NumbersByInduction
  <2>6. \A k \in 0 .. size : k <= size
    BY <1>0
  <2> QED BY <2>5, <2>6
<1> QED BY <1>5, <1>6, <1>7 DEF size

LEMMA ItoaIsText ==
  ASSUME NEW n \in Int
  PROVE  Itoa(n) \in Seq(Char)
<1>1. PICK text, size :
        /\ size = IF n < 0 THEN -n ELSE n
        /\ \A k \in 0 .. size : text[k] \in Seq(Char)
        /\ Itoa(n) = IF n < 0 THEN <<Dash>> \o text[size] ELSE text[size]
  <2>1. PICK text, size :
          /\ size = IF n < 0 THEN -n ELSE n
          /\ \A k \in 0 .. size :
               /\ text[k] \in Seq(Char)
               /\ text[k] = IF k < 10 THEN <<48 + k>>
                            ELSE Append(text[k \div 10], 48 + (k % 10))
          /\ Itoa(n) = IF n < 0 THEN <<Dash>> \o text[size] ELSE text[size]
    BY ItoaWrites
  <2> QED BY <2>1
<1>2. size \in 0 .. size /\ Dash \in Char
  BY <1>1 DEF Dash, Char
<1>3. text[size] \in Seq(Char)
  BY <1>1, <1>2
<1> DEFINE t == text[size]
<1> HIDE DEF t
<1>4. t \in Seq(Char) /\ <<Dash>> \o t \in Seq(Char)
  BY <1>2, <1>3 DEF t
<1> QED BY <1>1, <1>4 DEF t

-----------------------------------------------------------------------------
Host == {in.host : in \in Incoming} \cup {FirstConfig.host, DefaultConfig.host}

Assigning == {"callsign", "ssid", "radio", "radioSsid", "marshal"}

\* A request that assigns the fields one by one, and one that writes the file.
Assigns(r) ==
  /\ r \in [at : Assigning, id : [callsign : Seq(Char), ssid : Int],
            put : {"no"}, alone : BOOLEAN]
  /\ r.id.callsign # <<>>
Writes(r) ==
  /\ r \in [at : {"open", "write"}, data : Config, put : {"yes", "no"}, alone : BOOLEAN]
  /\ r.data.callsign # <<>>

RequestsOK == /\ DOMAIN pc = Handler
            /\ \A p \in Handler : pc[p] = Idle \/ Assigns(pc[p]) \/ Writes(pc[p])

\* What the settings screen shows can be sent.
Shown ==
  fields # Nil => /\ DOMAIN fields = {"callsign", "ssid", "host"}
                  /\ fields.callsign \in Seq(Char) /\ fields.ssid \in Seq(Char)
                  /\ fields.host \in Host

\* Requests are under way only while the daemon runs, and a change is not settled.
Running == \A p \in Handler : pc[p] # Idle => mem # Nil /\ settled = "no"

TypeInv == HasCallsign /\ RequestsOK /\ Shown /\ Running

\* How far a POST that runs alone has got.
Progress(r, cfg, rad, yaml) ==
  /\ r.at \in {"ssid", "radio", "radioSsid", "marshal"} => cfg.callsign = r.id.callsign
  /\ r.at \in {"radio", "radioSsid", "marshal"} => cfg.ssid = r.id.ssid
  /\ r.at \in {"radioSsid", "marshal"} => rad.callsign = r.id.callsign
  /\ r.at = "marshal" => rad.ssid = r.id.ssid
  /\ r.at \in {"open", "write"} => cfg = r.data /\ rad = Identity(cfg)
  /\ r.at = "write" => yaml = Empty

Alone == \A p \in Handler : pc[p] # Idle /\ pc[p].alone =>
           /\ \A q \in Handler : q # p => pc[q] = Idle
           /\ pc[p].put = "no" => Progress(pc[p], mem, radio, file)

StoreInv == TypeInv /\ Alone /\ Settled
-----------------------------------------------------------------------------
\* Where a request can be.
LEMMA AtsOK ==
  ASSUME NEW r, r = Idle \/ Assigns(r) \/ Writes(r)
  PROVE  r.at \in {"idle", "callsign", "ssid", "radio", "radioSsid", "marshal", "open", "write"}
BY DEF Assigns, Writes, Idle, Assigning

\* What every file and every merged configuration is.
LEMMA Loaded ==
  ASSUME NEW yaml \in Config \cup {Empty}, yaml # Empty => yaml.callsign # <<>>
  PROVE  Load(yaml) \in Config /\ Load(yaml).callsign # <<>> /\ (yaml # Empty => Load(yaml) = yaml)
<1>1. DefaultConfig \in Config /\ DefaultConfig.callsign # <<>>
  <2>1. N0CALL \in Seq(Char) /\ N0CALL # <<>>
    BY DEF N0CALL, Char
  <2> QED BY <2>1 DEF DefaultConfig, Config
<1> QED BY <1>1 DEF Load

LEMMA NotAConfig ==
  ASSUME NEW cfg \in Config
  PROVE  cfg # Empty /\ cfg # Garbled
<1>1. DOMAIN cfg = {"callsign", "ssid", "offline", "host"}
  BY DEF Config
<1>2. DOMAIN Empty = {"yaml"} /\ DOMAIN Garbled = {"yaml"}
  BY DEF Empty, Garbled
<1> QED BY <1>1, <1>2

LEMMA Merged ==
  ASSUME NEW cfg \in Config,
         NEW in, in.callsign \in Seq(Char), in.ssid \in Int, in.offline \in {"on", "off"}, in.host \in Host
  PROVE  Merge(cfg, in) \in Config
<1>1. Normal(in.callsign) \in Seq(Char)
  BY NormalIsText
<1> QED BY <1>1 DEF Merge, Config, Host

\* A request of any kind that begins.
LEMMA BeginKeeps ==
  ASSUME StoreInv, NEW p \in Handler, NEW step, Begin(p, step),
         Assigns(step) \/ Writes(step), step.at = "callsign" \/ step.put = "yes",
         step.alone => Active = {},
         UNCHANGED <<file, mem, radio, due, fields, faults>>
  PROVE  StoreInv'
<1>1. mem # Nil /\ settled' = "no" /\ changes' \in 0 .. MaxChanges
  BY ConfigAssumption DEF Begin, StoreInv, TypeInv, HasCallsign, TypeOK
<1>2. /\ DOMAIN pc' = Handler /\ pc'[p] = step
      /\ \A q \in Handler \ {p} : pc'[q] = IF pc[q] = Idle THEN Idle ELSE [pc[q] EXCEPT !.alone = FALSE]
  BY DEF Begin
<1>3. ASSUME NEW q \in Handler \ {p}, pc[q] # Idle
      PROVE  /\ Assigns(pc'[q]) \/ Writes(pc'[q])
             /\ ~pc'[q].alone
  <2>1. pc'[q] = [pc[q] EXCEPT !.alone = FALSE]
    BY <1>2, <1>3
  <2>2. Assigns(pc[q]) \/ Writes(pc[q])
    BY <1>3 DEF StoreInv, TypeInv, RequestsOK
  <2> QED BY <2>1, <2>2 DEF Assigns, Writes
<1>4. RequestsOK'
  BY <1>2, <1>3 DEF RequestsOK
<1>5. HasCallsign'
  <2>1. \A q \in Handler : pc'[q].at \in {"idle", "callsign", "ssid", "radio", "radioSsid",
                                           "marshal", "open", "write"}
    BY <1>4, AtsOK DEF RequestsOK
  <2> QED BY <1>1, <2>1 DEF StoreInv, TypeInv, HasCallsign, TypeOK
<1>6. Shown' /\ Running'
  BY <1>1 DEF StoreInv, TypeInv, Shown, Running
<1>7. Alone'
  <2> SUFFICES ASSUME NEW q \in Handler, pc'[q] # Idle, pc'[q].alone
               PROVE  /\ \A x \in Handler : x # q => pc'[x] = Idle
                      /\ pc'[q].put = "no" => Progress(pc'[q], mem', radio', file')
    BY DEF Alone
  <2>1. q = p /\ Active = {}
    BY <1>2, <1>3
  <2>2. \A x \in Handler : x # q => pc'[x] = Idle
    BY <1>2, <2>1 DEF Active
  <2>3. step.put = "no" => step.at = "callsign"
    OBVIOUS
  <2> QED BY <1>2, <2>1, <2>2, <2>3 DEF Progress
<1>8. Settled'
  BY <1>1 DEF Settled
<1> QED BY <1>4, <1>5, <1>6, <1>7, <1>8 DEF StoreInv, TypeInv
\* SetCallsign checks what it is given; handleConfig what it has merged.
LEMMA PostCallsignKeeps ==
  ASSUME StoreInv, NEW p \in Handler, NEW s \in Text, NEW n, PostCallsign(p, s, n)
  PROVE  StoreInv'
<1> DEFINE step == [at |-> "callsign", id |-> [callsign |-> Normal(s), ssid |-> n],
                    put |-> "no", alone |-> Active = {}]
<1>1. /\ IsCallsign(Normal(s)) /\ n \in 0 .. 15 /\ Begin(p, step)
      /\ UNCHANGED <<file, mem, radio, due, fields, faults>>
  BY DEF PostCallsign
<1>2. Normal(s) \in Seq(Char) /\ Normal(s) # <<>>
  <2>1. Len(Normal(s)) \in 1 .. 6
    BY <1>1 DEF IsCallsign
  <2>2. Normal(s) \in Seq(Char)
    BY NormalIsText, ConfigAssumption
  <2> DEFINE t == Normal(s)
  <2> HIDE DEF t
  <2>3. t \in Seq(Char) /\ Len(t) \in 1 .. 6
    BY <2>1, <2>2 DEF t
  <2>4. t # <<>>
    BY <2>3
  <2> QED BY <2>3, <2>4 DEF t
<1>3. (Active = {}) \in BOOLEAN
  OBVIOUS
<1>4. Assigns(step)
  BY <1>1, <1>2, <1>3 DEF Assigns, Assigning
<1>5. step.at = "callsign" /\ (step.alone => Active = {})
  OBVIOUS
<1> HIDE DEF step
<1> QED BY <1>1, <1>4, <1>5, BeginKeeps

LEMMA PutConfigKeeps ==
  ASSUME StoreInv, NEW p \in Handler,
         NEW in, in.callsign \in Seq(Char), in.ssid \in Int, in.offline \in {"on", "off"}, in.host \in Host,
         PutConfig(p, in)
  PROVE  StoreInv'
<1> DEFINE merged == Merge(mem, in)
           step == [at |-> "open", data |-> merged, put |-> "yes", alone |-> Active = {}]
<1>1. /\ mem # Nil /\ merged.callsign # <<>> /\ Begin(p, step)
      /\ UNCHANGED <<file, mem, radio, due, fields, faults>>
  BY DEF PutConfig
<1>2. merged \in Config
  BY <1>1, Merged DEF StoreInv, TypeInv, HasCallsign, TypeOK
<1>3. (Active = {}) \in BOOLEAN
  OBVIOUS
<1> HIDE DEF merged
<1>4. Writes(step)
  BY <1>1, <1>2, <1>3 DEF Writes
<1>5. step.put = "yes" /\ (step.alone => Active = {})
  OBVIOUS
<1> HIDE DEF step
<1> QED BY <1>1, <1>4, <1>5, BeginKeeps

\* The settings screen sends what PUT /config takes.
LEMMA SaveKeeps ==
  ASSUME StoreInv, NEW p \in Handler, Save(p)
  PROVE  StoreInv'
<1>1. fields # Nil /\ PutConfig(p, Sent)
  BY DEF Save
<1>2. fields.callsign \in Seq(Char) /\ fields.ssid \in Seq(Char) /\ fields.host \in Host
  BY <1>1 DEF StoreInv, TypeInv, Shown
<1>3. /\ Sent.callsign \in Seq(Char) /\ Sent.ssid \in Int
      /\ Sent.offline \in {"on", "off"} /\ Sent.host \in Host
  BY <1>2, AtoiIsNumber DEF Sent
<1> QED BY <1>1, <1>3, PutConfigKeeps

\* One request takes one of its own steps, and the others stay where they are.
LEMMA OwnStep ==
  ASSUME StoreInv, NEW p \in Handler, NEW step, Goes(p, step)
  PROVE  /\ DOMAIN pc' = Handler /\ pc'[p] = step
         /\ \A q \in Handler \ {p} : pc'[q] = pc[q]
BY DEF Goes, StoreInv, TypeInv, RequestsOK

\* A request that goes on, with what it has got done.
LEMMA StepKeeps ==
  ASSUME StoreInv, NEW p \in Handler, pc[p] # Idle, NEW step, Goes(p, step),
         Assigns(step) \/ Writes(step), step.alone = pc[p].alone, step.put = pc[p].put,
         step.alone /\ step.put = "no" => Progress(step, mem', radio', file'),
         mem' \in Config, mem'.callsign # <<>>,
         radio' \in [callsign : Seq(Char), ssid : Int],
         file' \in Config \cup {Empty, Garbled},
         file' \notin {Empty, Garbled} => file'.callsign # <<>>, mem' # Nil,
         UNCHANGED <<due, fields, settled, changes, faults>>
  PROVE  StoreInv'
<1>1. DOMAIN pc' = Handler /\ pc'[p] = step /\ \A q \in Handler \ {p} : pc'[q] = pc[q]
  BY OwnStep
<1>2. RequestsOK'
  BY <1>1 DEF StoreInv, TypeInv, RequestsOK
<1>3. \A q \in Handler : pc'[q].at \in {"idle", "callsign", "ssid", "radio", "radioSsid",
                                        "marshal", "open", "write"}
  BY <1>2, AtsOK DEF RequestsOK
<1>4. HasCallsign'
  BY <1>3 DEF StoreInv, TypeInv, HasCallsign, TypeOK
<1>5. settled = "no"
  BY DEF StoreInv, TypeInv, Running
<1>6. Shown' /\ Running' /\ Settled'
  BY <1>5 DEF StoreInv, TypeInv, Shown, Running, Settled
<1>7. Alone'
  <2> SUFFICES ASSUME NEW q \in Handler, pc'[q] # Idle, pc'[q].alone
               PROVE  /\ \A x \in Handler : x # q => pc'[x] = Idle
                      /\ pc'[q].put = "no" => Progress(pc'[q], mem', radio', file')
    BY DEF Alone
  <2>1. q = p
    BY <1>1 DEF StoreInv, Alone
  <2> QED BY <1>1, <2>1 DEF StoreInv, Alone
<1> QED BY <1>2, <1>4, <1>6, <1>7 DEF StoreInv, TypeInv

LEMMA SetCallsignKeeps ==
  ASSUME StoreInv, NEW p \in Handler, SetCallsign(p)
  PROVE  StoreInv'
<1> DEFINE r == pc[p]
           step(at) == [r EXCEPT !.at = at]
<1>1. r.at \in {"callsign", "ssid", "radio", "radioSsid"}
  BY DEF SetCallsign
<1>2. Assigns(r) /\ r # Idle
  BY <1>1 DEF StoreInv, TypeInv, RequestsOK, Idle, Writes
<1>3. mem # Nil /\ mem \in Config /\ mem.callsign # <<>> /\ radio \in [callsign : Seq(Char), ssid : Int]
  BY <1>2 DEF StoreInv, TypeInv, Running, HasCallsign, TypeOK
<1>4. /\ file \in Config \cup {Empty, Garbled}
      /\ file \notin {Empty, Garbled} => file.callsign # <<>>
  BY DEF StoreInv, TypeInv, HasCallsign, TypeOK
<1>5. r.alone => Progress(r, mem, radio, file)
  BY <1>2 DEF StoreInv, Alone, Assigns
<1>6. \A at \in Assigning : Assigns(step(at)) /\ step(at).at = at /\ step(at).id = r.id
                            /\ step(at).alone = r.alone /\ step(at).put = r.put
  BY <1>2 DEF Assigns
<1>7. file' = file /\ UNCHANGED <<due, fields, settled, changes, faults>>
  BY DEF SetCallsign
<1>8. PICK at \in Assigning :
        /\ Goes(p, step(at))
        /\ \/ /\ r.at = "callsign" /\ at = "ssid"
              /\ mem' = [mem EXCEPT !.callsign = r.id.callsign] /\ radio' = radio
           \/ /\ r.at = "ssid" /\ at = "radio"
              /\ mem' = [mem EXCEPT !.ssid = r.id.ssid] /\ radio' = radio
           \/ /\ r.at = "radio" /\ at = "radioSsid"
              /\ radio' = [radio EXCEPT !.callsign = mem.callsign] /\ mem' = mem
           \/ /\ r.at = "radioSsid" /\ at = "marshal"
              /\ radio' = [radio EXCEPT !.ssid = r.id.ssid] /\ mem' = mem
  BY DEF SetCallsign, Then, Assigning
<1>9. r.id.callsign \in Seq(Char) /\ r.id.callsign # <<>> /\ r.id.ssid \in Int
  BY <1>2 DEF Assigns
<1>10. mem' \in Config /\ mem'.callsign # <<>> /\ radio' \in [callsign : Seq(Char), ssid : Int]
  BY <1>3, <1>8, <1>9 DEF Config
<1>11. r.alone => Progress(step(at), mem', radio', file')
  BY <1>3, <1>5, <1>6, <1>8 DEF Progress, Config
<1>12. mem' # Nil
  BY <1>10, ConfigAssumption
<1>13. Assigns(step(at)) /\ step(at).alone = r.alone /\ step(at).put = r.put /\ Goes(p, step(at))
  BY <1>6, <1>8
<1> DEFINE new == step(at)
<1> HIDE DEF step, new
<1> QED BY <1>2, <1>4, <1>7, <1>10, <1>11, <1>12, <1>13, StepKeeps DEF new

\* What a request under way finds.
LEMMA Found ==
  ASSUME StoreInv, NEW p \in Handler, pc[p] # Idle
  PROVE  /\ Assigns(pc[p]) \/ Writes(pc[p])
         /\ mem # Nil /\ mem \in Config /\ mem.callsign # <<>> /\ settled = "no"
         /\ radio \in [callsign : Seq(Char), ssid : Int]
         /\ file \in Config \cup {Empty, Garbled}
         /\ file \notin {Empty, Garbled} => file.callsign # <<>>
         /\ pc[p].alone /\ pc[p].put = "no" => Progress(pc[p], mem, radio, file)
BY DEF StoreInv, TypeInv, RequestsOK, Running, HasCallsign, TypeOK, Alone

LEMMA MarshalKeeps ==
  ASSUME StoreInv, NEW p \in Handler, Marshal(p)
  PROVE  StoreInv'
<1> DEFINE step == [at |-> "open", data |-> mem, put |-> "no", alone |-> pc[p].alone]
<1>1. /\ pc[p].at = "marshal" /\ Goes(p, step)
      /\ UNCHANGED <<file, mem, radio, due, fields, settled, changes, faults>>
  BY DEF Marshal
<1>2. pc[p] # Idle
  BY <1>1 DEF Idle
<1>3. Assigns(pc[p])
  BY <1>1, <1>2, Found DEF Writes
<1>4. Writes(step) /\ step.alone = pc[p].alone /\ step.put = pc[p].put
  BY <1>2, <1>3, Found DEF Writes, Assigns
<1>5. step.alone => Progress(step, mem, radio, file)
  <2>1. step.alone => Progress(pc[p], mem, radio, file)
    BY <1>2, <1>3, Found DEF Assigns
  <2>2. step.alone => radio = Identity(mem)
    BY <1>1, <1>2, <2>1, Found DEF Progress, Identity
  <2> QED BY <2>2 DEF Progress
<1> HIDE DEF step
<1>6. step.alone => Progress(step, mem', radio', file')
  BY <1>1, <1>5
<1> QED BY <1>1, <1>2, <1>4, <1>6, Found, StepKeeps

LEMMA OpenKeeps ==
  ASSUME StoreInv, NEW p \in Handler, Open(p)
  PROVE  StoreInv'
<1> DEFINE step == [pc[p] EXCEPT !.at = "write"]
<1>1. /\ pc[p].at = "open" /\ Goes(p, step) /\ file' = Empty
      /\ UNCHANGED <<mem, radio, due, fields, settled, changes, faults>>
  BY DEF Open, Then
<1>2. pc[p] # Idle
  BY <1>1 DEF Idle
<1>3. Writes(pc[p])
  BY <1>1, <1>2, Found DEF Assigns, Assigning
<1>4. Writes(step) /\ step.alone = pc[p].alone /\ step.put = pc[p].put
      /\ step.at = "write" /\ step.data = pc[p].data
  BY <1>3 DEF Writes
<1> HIDE DEF step
<1>5. step.alone /\ step.put = "no" => Progress(step, mem', radio', file')
  BY <1>1, <1>2, <1>4, Found DEF Progress
<1>6. file' \in Config \cup {Empty, Garbled} /\ file' \in {Empty, Garbled}
  BY <1>1
<1> QED BY <1>1, <1>2, <1>4, <1>5, <1>6, Found, StepKeeps

\* A request ends; nobody else was there if it was alone.
LEMMA EndKeeps ==
  ASSUME StoreInv, NEW p \in Handler, pc[p] # Idle, Goes(p, Idle),
         file' \in Config \cup {Empty, Garbled},
         file' \notin {Empty, Garbled} => file'.callsign # <<>>,
         settled' \in {"yes", "no"}, due' \in {"yes", "no"}, faults' \in 0 .. MaxFaults,
         settled' = "yes" => pc[p].alone /\ file' = mem /\ radio = Identity(mem),
         \A q \in Handler : q # p /\ pc[q] # Idle /\ pc[q].alone => FALSE,
         UNCHANGED <<mem, radio, fields, changes>>
  PROVE  StoreInv'
<1>1. DOMAIN pc' = Handler /\ pc'[p] = Idle /\ \A q \in Handler \ {p} : pc'[q] = pc[q]
  BY OwnStep
<1>2. RequestsOK'
  BY <1>1 DEF StoreInv, TypeInv, RequestsOK
<1>3. \A q \in Handler : pc'[q].at \in {"idle", "callsign", "ssid", "radio", "radioSsid",
                                        "marshal", "open", "write"}
  BY <1>2, AtsOK DEF RequestsOK
<1>4. HasCallsign'
  BY <1>3 DEF StoreInv, TypeInv, HasCallsign, TypeOK
<1>5. Shown'
  BY DEF StoreInv, TypeInv, Shown
<1>6. settled' = "yes" => \A q \in Handler : pc'[q] = Idle
  BY <1>1 DEF StoreInv, Alone
<1>7. Running' /\ Settled'
  BY <1>1, <1>6 DEF StoreInv, TypeInv, Running, Settled
<1>8. Alone'
  BY <1>1 DEF Alone
<1> QED BY <1>2, <1>4, <1>5, <1>7, <1>8 DEF StoreInv, TypeInv

LEMMA NobodyElse ==
  ASSUME StoreInv, NEW p \in Handler, pc[p] # Idle, NEW q \in Handler, q # p, pc[q] # Idle
  PROVE  ~pc[q].alone
BY DEF StoreInv, Alone

LEMMA WriteKeeps ==
  ASSUME StoreInv, NEW p \in Handler, Write(p) \/ WriteFails(p)
  PROVE  StoreInv'
<1>1. pc[p].at = "write" /\ Goes(p, Idle) /\ UNCHANGED <<mem, radio, fields, changes>>
  BY DEF Write, WriteFails, Answered
<1>2. pc[p] # Idle
  BY <1>1 DEF Idle
<1>3. Writes(pc[p])
  BY <1>1, <1>2, Found DEF Assigns, Assigning
<1>4. \A q \in Handler : q # p /\ pc[q] # Idle /\ pc[q].alone => FALSE
  BY <1>2, NobodyElse
<1>5. settled = "no" /\ due \in {"yes", "no"} /\ faults \in 0 .. MaxFaults
  BY <1>2, Found DEF StoreInv, TypeInv, HasCallsign, TypeOK
<1>6. CASE Write(p)
  <2>1. /\ file' \in Over(pc[p].data)
        /\ settled' = IF pc[p].alone /\ pc[p].put = "no" THEN "yes" ELSE "no"
        /\ due' = IF pc[p].put = "yes" THEN "yes" ELSE due
        /\ faults' = faults
    BY <1>6 DEF Write, Answered
  <2>2. file' \in {pc[p].data, Garbled}
    BY <2>1 DEF Over
  <2>3. pc[p].data \in Config /\ pc[p].data.callsign # <<>> /\ pc[p].data \notin {Empty, Garbled}
    BY <1>3, NotAConfig DEF Writes
  <2>4. settled' = "yes" => /\ pc[p].alone /\ file = Empty /\ mem = pc[p].data
                            /\ radio = Identity(mem)
    BY <1>1, <1>2, <2>1, Found DEF Progress
  <2>5. settled' = "yes" => file' = mem
    BY <2>1, <2>4 DEF Over
  <2>6. /\ file' \in Config \cup {Empty, Garbled}
        /\ file' \notin {Empty, Garbled} => file'.callsign # <<>>
    BY <2>2, <2>3
  <2>7. settled' \in {"yes", "no"} /\ due' \in {"yes", "no"} /\ faults' \in 0 .. MaxFaults
    BY <1>5, <2>1
  <2> QED BY <1>1, <1>2, <1>4, <2>4, <2>5, <2>6, <2>7, EndKeeps
<1>7. CASE WriteFails(p)
  <2>1. faults < MaxFaults /\ faults' = faults + 1 /\ UNCHANGED <<file, due, settled>>
    BY <1>7 DEF WriteFails
  <2>2. faults' \in 0 .. MaxFaults
    BY <1>5, <2>1, ConfigAssumption
  <2> QED BY <1>1, <1>2, <1>4, <1>5, <2>1, <2>2, Found, EndKeeps
<1> QED BY <1>6, <1>7

\* What is on the screen changes nothing else.
LEMMA ScreenKeeps ==
  ASSUME StoreInv, OnEnter \/ Edit
  PROVE  StoreInv'
<1>1. UNCHANGED <<file, mem, radio, pc, due, settled, changes, faults>>
  BY DEF OnEnter, Edit
<1>2. HasCallsign' /\ RequestsOK' /\ Running' /\ Alone' /\ Settled'
  BY <1>1 DEF StoreInv, TypeInv, HasCallsign, TypeOK, RequestsOK, Running, Alone, Settled
<1>3. Shown'
  <2>1. CASE OnEnter
    <3>1. CASE mem = Nil
      BY <2>1, <3>1 DEF OnEnter, Shown
    <3>2. CASE mem # Nil
      <4>1. mem \in Config
        BY <3>2 DEF StoreInv, TypeInv, HasCallsign, TypeOK
      <4>2. mem.callsign \in Seq(Char) /\ Itoa(mem.ssid) \in Seq(Char) /\ mem.host \in Host
        BY <4>1, ItoaIsText DEF Config, Host
      <4>3. fields' = [callsign |-> mem.callsign, ssid |-> Itoa(mem.ssid), host |-> mem.host]
        BY <2>1, <3>2 DEF OnEnter
      <4> QED BY <4>2, <4>3 DEF Shown
    <3> QED BY <3>1, <3>2
  <2>2. CASE Edit
    BY <2>2, ConfigAssumption DEF Edit, StoreInv, TypeInv, Shown
  <2> QED BY <2>1, <2>2
<1> QED BY <1>2, <1>3 DEF StoreInv, TypeInv

\* A stop forgets all requests.
LEMMA StopKeeps ==
  ASSUME StoreInv, Restart \/ Crash
  PROVE  StoreInv'
<1>1. Stop /\ faults' \in 0 .. MaxFaults
  BY ConfigAssumption DEF Restart, Crash, StoreInv, TypeInv, HasCallsign, TypeOK
<1>2. /\ mem' = Nil /\ due' = "no" /\ pc' = [p \in Handler |-> Idle]
      /\ UNCHANGED <<file, radio, fields, settled, changes>>
  BY <1>1 DEF Stop
<1>3. \A p \in Handler : pc'[p] = Idle /\ pc'[p].at = "idle"
  BY <1>2 DEF Idle
<1>4. HasCallsign' /\ RequestsOK'
  BY <1>1, <1>2, <1>3 DEF StoreInv, TypeInv, HasCallsign, TypeOK, RequestsOK
<1>5. Shown' /\ Running' /\ Alone' /\ Settled'
  BY <1>2, <1>3 DEF StoreInv, TypeInv, Shown, Running, Alone, Settled
<1> QED BY <1>4, <1>5 DEF StoreInv, TypeInv

\* A start takes the file for the configuration, and the link gets its name.
LEMMA StartKeeps ==
  ASSUME StoreInv, Start
  PROVE  StoreInv'
<1>1. /\ mem = Nil /\ file # Garbled /\ mem' = Load(file) /\ radio' = Identity(mem')
      /\ settled' = IF file = Empty THEN "no" ELSE "yes"
      /\ UNCHANGED <<file, pc, due, fields, changes, faults>>
  BY DEF Start
<1>2. mem' \in Config /\ mem'.callsign # <<>> /\ (file # Empty => mem' = file)
  BY <1>1, Loaded DEF StoreInv, TypeInv, HasCallsign, TypeOK
<1>3. radio' \in [callsign : Seq(Char), ssid : Int]
  BY <1>1, <1>2 DEF Identity, Config
<1>4. HasCallsign' /\ RequestsOK' /\ Shown'
  BY <1>1, <1>2, <1>3 DEF StoreInv, TypeInv, HasCallsign, TypeOK, RequestsOK, Shown
<1>5. \A p \in Handler : pc'[p] = Idle
  BY <1>1 DEF StoreInv, TypeInv, Running
<1>6. Running' /\ Alone'
  BY <1>5 DEF Running, Alone
<1>7. Settled'
  BY <1>1, <1>2 DEF Settled
<1> QED BY <1>4, <1>6, <1>7 DEF StoreInv, TypeInv

LEMMA InitStore == Init => StoreInv
<1> SUFFICES ASSUME Init PROVE StoreInv
  OBVIOUS
<1>1. file \in Config /\ file.callsign # <<>> /\ mem = file
  <2>1. FirstConfig \in Config /\ FirstConfig.callsign # <<>>
    BY ConfigAssumption
  <2>2. FirstConfig # Empty
    BY <2>1, NotAConfig
  <2>3. file = FirstConfig /\ mem = Load(file)
    BY DEF Init
  <2> QED BY <2>1, <2>2, <2>3, Loaded
<1>2. radio = Identity(mem) /\ radio \in [callsign : Seq(Char), ssid : Int]
  BY <1>1 DEF Init, Identity, Config
<1>3. \A p \in Handler : pc[p] = Idle /\ pc[p].at = "idle"
  BY DEF Init, Idle
<1>4. HasCallsign /\ RequestsOK
  BY <1>1, <1>2, <1>3, ConfigAssumption DEF Init, HasCallsign, TypeOK, RequestsOK
<1>5. Shown /\ Running /\ Alone /\ Settled
  BY <1>1, <1>2, <1>3 DEF Init, Shown, Running, Alone, Settled
<1> QED BY <1>4, <1>5 DEF StoreInv, TypeInv

LEMMA NextStore == StoreInv /\ [Next]_vars => StoreInv'
<1> SUFFICES ASSUME StoreInv, [Next]_vars
             PROVE  StoreInv'
  OBVIOUS
<1>1. CASE UNCHANGED vars
  BY <1>1 DEF vars, StoreInv, TypeInv, HasCallsign, TypeOK, RequestsOK, Shown, Running, Alone, Settled
<1>2. ASSUME NEW p \in Handler, NEW in \in Incoming, PutConfig(p, in)
      PROVE  StoreInv'
  <2>1. in \in Config /\ in.host \in Host
    BY ConfigAssumption DEF Host
  <2>2. in.callsign \in Seq(Char) /\ in.ssid \in Int /\ in.offline \in {"on", "off"}
    BY <2>1 DEF Config
  <2> QED BY <1>2, <2>1, <2>2, PutConfigKeeps
<1>3. CASE Next
  BY <1>2, <1>3, PostCallsignKeeps, SetCallsignKeeps, MarshalKeeps, OpenKeeps, WriteKeeps, SaveKeeps,
     ScreenKeeps, StopKeeps, StartKeeps
     DEF Next
<1> QED BY <1>1, <1>3

(* The invariant: what every request under way has done so far, and that no *)
(* other disturbs the one that runs alone (SetCallsign, SaveToFile,         *)
(* handleConfig, main).                                                     *)
THEOREM Invariant == Spec => []StoreInv
BY InitStore, NextStore, PTL DEF Spec

(* After a change that ran alone to its end, and after every start from a   *)
(* whole file, file, memory and link agree (SetCallsign, config.Load).      *)
THEOREM AllAgree == Spec => []Settled
<1>1. StoreInv => Settled
  BY DEF StoreInv
<1> QED BY <1>1, Invariant, PTL

(* Neither memory nor a whole file is ever without a callsign (handleConfig, *)
(* handleCallsign, DefaultConfig), whatever requests overlap.                *)
THEOREM Named == Spec => []HasCallsign
<1>1. StoreInv => HasCallsign
  BY DEF StoreInv, TypeInv
<1> QED BY <1>1, Invariant, PTL

-----------------------------------------------------------------------------
(* AX.25: what Encode writes, DecodeAX25Frame reads.                        *)

\* Callsigns fit in six bytes and have no blank, as NewAX25Address takes them.
Address == {a \in [callsign : Seq(Char), ssid : 0 .. 15] :
              Len(a.callsign) <= 6 /\ \A i \in 1 .. Len(a.callsign) : a.callsign[i] # Space}

LEMMA AddressParts ==
  ASSUME NEW a \in Address
  PROVE  /\ a.callsign \in Seq(Char) /\ Len(a.callsign) \in 0 .. 6 /\ a.ssid \in 0 .. 15
         /\ \A i \in 1 .. Len(a.callsign) : a.callsign[i] \in 0 .. 127 /\ a.callsign[i] # Space
         /\ a = [callsign |-> a.callsign, ssid |-> a.ssid]
<1>1. /\ a.callsign \in Seq(Char) /\ Len(a.callsign) <= 6 /\ a.ssid \in 0 .. 15
      /\ \A i \in 1 .. Len(a.callsign) : a.callsign[i] # Space
      /\ a = [callsign |-> a.callsign, ssid |-> a.ssid]
  BY DEF Address
<1> DEFINE c == a.callsign
<1> HIDE DEF c
<1>2. c \in Seq(Char) /\ Len(c) <= 6
  BY <1>1 DEF c
<1>3. Len(c) \in Nat /\ \A i \in 1 .. Len(c) : c[i] \in Char
  BY <1>2
<1>4. Len(c) \in 0 .. 6
  <2>1. PICK n : n = Len(c)
    OBVIOUS
  <2>2. n \in Nat /\ n <= 6
    BY <1>2, <1>3, <2>1
  <2>3. n \in 0 .. 6
    BY <2>2
  <2> QED BY <2>1, <2>3
<1> QED BY <1>1, <1>3, <1>4 DEF c, Char

LEMMA Padded ==
  ASSUME NEW a \in Address, NEW i \in 1 .. 6
  PROVE  (IF i <= Len(a.callsign) THEN a.callsign[i] ELSE Space) \in 0 .. 127
<1>1. PICK L : L = Len(a.callsign)
  OBVIOUS
<1>2. L \in 0 .. 6 /\ \A j \in 1 .. L : a.callsign[j] \in 0 .. 127
  BY <1>1, AddressParts
<1>3. i <= L => i \in 1 .. L
  BY <1>2
<1>4. Space \in 0 .. 127
  BY DEF Space
<1> QED BY <1>1, <1>2, <1>3, <1>4

LEMMA EncodedAddress ==
  ASSUME NEW a \in Address, NEW isLast \in BOOLEAN
  PROVE  /\ EncodeAddress(a, isLast) \in Seq(Int) /\ Len(EncodeAddress(a, isLast)) = 7
         /\ EncodeAddress(a, isLast)[7] = 96 + 2 * a.ssid + Bit(isLast)
         /\ \A i \in 1 .. 6 : EncodeAddress(a, isLast)[i] =
              2 * (IF i <= Len(a.callsign) THEN a.callsign[i] ELSE Space)
<1> DEFINE c == a.callsign
           pad(i) == IF i <= Len(c) THEN c[i] ELSE Space
           e == EncodeAddress(a, isLast)
<1>1. /\ Len(c) \in 0 .. 6 /\ a.ssid \in 0 .. 15
      /\ \A i \in 1 .. Len(c) : c[i] \in 0 .. 127
  BY AddressParts
<1>2. Bit(isLast) \in 0 .. 1
  BY DEF Bit
<1>3. \A i \in 1 .. 6 : pad(i) \in 0 .. 127
  BY Padded
<1>4. e = [i \in 1 .. 7 |-> IF i = 7 THEN 96 + 2 * a.ssid + Bit(isLast) ELSE (2 * pad(i)) % 256]
  BY DEF EncodeAddress
<1> HIDE DEF pad, e
<1>5. \A i \in 1 .. 6 : (2 * pad(i)) % 256 = 2 * pad(i) /\ 2 * pad(i) \in Int
  BY <1>3
<1>6. e[7] = 96 + 2 * a.ssid + Bit(isLast) /\ e[7] \in Int
  <2>1. e[7] = 96 + 2 * a.ssid + Bit(isLast)
    <3>1. 7 \in 1 .. 7
      OBVIOUS
    <3> QED BY Zenon, <1>4, <3>1
  <2>2. PICK s \in 0 .. 15, b \in 0 .. 1 : s = a.ssid /\ b = Bit(isLast)
    BY <1>1, <1>2
  <2>3. 96 + 2 * s + b \in Int
    OBVIOUS
  <2> QED BY <2>1, <2>2, <2>3
<1>7. \A i \in 1 .. 6 : e[i] = 2 * pad(i) /\ e[i] \in Int
  BY <1>4, <1>5
<1>8. \A i \in 1 .. 7 : e[i] \in Int
  BY <1>6, <1>7
<1>9. e \in Seq(Int) /\ Len(e) = 7
  <2>1. PICK n \in Nat : n = 7
    OBVIOUS
  <2>2. e \in [1 .. n -> Int]
    BY <1>4, <1>8, <2>1
  <2>3. e \in Seq(Int) /\ Len(e) = n
    BY <2>2
  <2> QED BY <2>1, <2>3
<1> QED BY <1>6, <1>7, <1>9 DEF e, pad

\* DecodeAX25Address reads what Encode wrote.
LEMMA AddressRoundTrip ==
  ASSUME NEW a \in Address, NEW isLast \in BOOLEAN,
         NEW data, \A i \in 1 .. 7 : data[i] = EncodeAddress(a, isLast)[i]
  PROVE  DecodeAX25Address(data) = a
<1> DEFINE c == a.callsign
           L == Len(c)
           pad(i) == IF i <= L THEN c[i] ELSE Space
           Step(f, i) == IF i = 0 THEN <<>>
                         ELSE IF data[i] \div 2 = Space THEN f[i - 1]
                         ELSE Append(f[i - 1], data[i] \div 2)
           Reads(f) == f = [i \in 0 .. 6 |-> Step(f, i)]
           chars == CHOOSE f : Reads(f)
<1>1. /\ c \in Seq(Char) /\ L \in 0 .. 6 /\ a.ssid \in 0 .. 15
      /\ \A i \in 1 .. L : c[i] \in 0 .. 127 /\ c[i] # Space
  BY AddressParts
<1>2. \A i \in 1 .. 6 : data[i] = 2 * pad(i) /\ pad(i) \in 0 .. 127
  <2>1. \A i \in 1 .. 6 : pad(i) \in 0 .. 127
    BY Padded
  <2>2. \A i \in 1 .. 6 : EncodeAddress(a, isLast)[i] = 2 * pad(i)
    BY EncodedAddress
  <2> HIDE DEF pad
  <2> QED BY <2>1, <2>2
<1> HIDE DEF pad
<1>3. \A i \in 1 .. 6 : data[i] \div 2 = pad(i)
  BY <1>2
<1> DEFINE known(i) == IF i <= L THEN SubSeq(c, 1, i) ELSE c
<1>4. known(0) = <<>> /\ known(6) = c
  <2>1. SubSeq(c, 1, 0) = <<>> /\ SubSeq(c, 1, L) = c
    BY <1>1
  <2>2. PICK n : n = L
    OBVIOUS
  <2>3. n \in 0 .. 6
    BY <1>1, <2>2
  <2>4. 0 <= n /\ (6 <= n => n = 6)
    BY <2>3
  <2> HIDE DEF L
  <2> QED BY <2>1, <2>2, <2>4
<1>5. ASSUME NEW i \in 1 .. 6
      PROVE  known(i) = IF pad(i) = Space THEN known(i - 1) ELSE Append(known(i - 1), pad(i))
  <2>1. CASE i <= L
    <3>1. pad(i) = c[i] /\ c[i] # Space /\ i \in 1 .. L
      BY <1>1, <2>1 DEF pad
    <3>2. SubSeq(c, 1, i) = Append(SubSeq(c, 1, i - 1), c[i])
      BY <1>1, <3>1
    <3>3. known(i) = SubSeq(c, 1, i) /\ known(i - 1) = SubSeq(c, 1, i - 1)
      BY <2>1
    <3> QED BY <3>1, <3>2, <3>3
  <2>2. CASE ~(i <= L)
    <3>1. pad(i) = Space /\ known(i) = c
      BY <2>2 DEF pad
    <3>2. known(i - 1) = c
      <4>1. i - 1 <= L => i - 1 = L
        BY <1>1, <2>2
      <4>2. SubSeq(c, 1, L) = c
        BY <1>1
      <4> QED BY <4>1, <4>2
    <3> QED BY <3>1, <3>2
  <2> QED BY <2>1, <2>2
<1> HIDE DEF known
<1>6. \E f : Reads(f)
  <2> DEFINE h == [i \in 0 .. 6 |-> known(i)]
  <2>1. \A i \in 0 .. 6 : h[i] = known(i)
    OBVIOUS
  <2>2. \A i \in 0 .. 6 : i # 0 => i \in 1 .. 6 /\ i - 1 \in 0 .. 6
    OBVIOUS
  <2>3. \A i \in 0 .. 6 : known(i) = Step(h, i)
    <3> HIDE DEF h
    <3> QED BY <1>3, <1>4, <1>5, <2>1, <2>2
  <2>4. h = [i \in 0 .. 6 |-> Step(h, i)]
    <3> HIDE DEF Step
    <3> QED BY <2>3
  <2> HIDE DEF h
  <2>5. Reads(h)
    BY <2>4
  <2> QED BY <2>5
<1>7. Reads(chars)
  <2> HIDE DEF Reads
  <2> QED BY <1>6
<1>8. DecodeAX25Address(data) = [callsign |-> chars[6], ssid |-> (data[7] \div 2) % 16]
  BY DEF DecodeAX25Address
<1> HIDE DEF chars
<1>9. \A i \in 0 .. 6 : chars[i] = Step(chars, i)
  <2> HIDE DEF Step
  <2> QED BY <1>7
<1>10. chars[6] = c
  <2> DEFINE T == {i \in Nat : i <= 6 => chars[i] = known(i)}
  <2>1. 0 \in T
    BY <1>4, <1>9
  <2>2. ASSUME NEW i \in Nat, i \in T
        PROVE  i + 1 \in T
    <3> SUFFICES ASSUME i + 1 <= 6 PROVE chars[i + 1] = known(i + 1)
      OBVIOUS
    <3>1. PICK j : j = i + 1 /\ j \in 1 .. 6 /\ j \in 0 .. 6 /\ j - 1 = i /\ j # 0 /\ i <= 6
      OBVIOUS
    <3>2. chars[i] = known(i)
      BY <2>2, <3>1
    <3>3. chars[j] = IF data[j] \div 2 = Space THEN chars[i] ELSE Append(chars[i], data[j] \div 2)
      BY <1>9, <3>1
    <3>4. data[j] \div 2 = pad(j)
      BY <1>3, <3>1
    <3>5. known(j) = IF pad(j) = Space THEN known(i) ELSE Append(known(i), pad(j))
      BY <1>5, <3>1
    <3> QED BY <3>1, <3>2, <3>3, <3>4, <3>5
  <2>3. 6 \in T
    <3> HIDE DEF T
    <3> QED BY <2>1, <2>2, NumbersByInduction
  <2> QED BY <1>4, <2>3
<1>11. (data[7] \div 2) % 16 = a.ssid
  <2>1. data[7] = 96 + 2 * a.ssid + Bit(isLast)
    BY EncodedAddress
  <2>2. Bit(isLast) \in 0 .. 1
    BY DEF Bit
  <2>3. PICK s, b : s = a.ssid /\ b = Bit(isLast) /\ s \in 0 .. 15 /\ b \in 0 .. 1
    BY <1>1, <2>2
  <2>4. ((96 + 2 * s + b) \div 2) % 16 = s
    <3>1. (96 + 2 * s + b) \div 2 = 48 + s
      BY <2>3
    <3>2. (48 + s) % 16 = s
      BY <2>3
    <3> QED BY <3>1, <3>2
  <2> QED BY <2>1, <2>3, <2>4
<1>12. a = [callsign |-> c, ssid |-> a.ssid]
  BY AddressParts
<1> QED BY <1>8, <1>10, <1>11, <1>12

\* What stands where in a sequence put behind another.
LEMMA Joined ==
  ASSUME NEW a \in Seq(Int), NEW b \in Seq(Int)
  PROVE  /\ a \o b \in Seq(Int) /\ Len(a \o b) = Len(a) + Len(b)
         /\ \A x \in 1 .. Len(a) : (a \o b)[x] = a[x]
         /\ \A x \in 1 .. Len(b) : (a \o b)[Len(a) + x] = b[x]
<1>1. a \o b \in Seq(Int) /\ Len(a \o b) = Len(a) + Len(b)
  BY ConcatProperties
<1>2. \A x \in 1 .. Len(a) : (a \o b)[x] = a[x]
  BY ConcatProperties
<1>3. ASSUME NEW x \in 1 .. Len(b)
      PROVE  (a \o b)[Len(a) + x] = b[x]
  <2>1. PICK m \in Nat, n \in Nat : m = Len(a) /\ n = Len(b)
    OBVIOUS
  <2>2. PICK y : y = m + x /\ y \in 1 .. m + n /\ ~(y <= m) /\ y - m = x
    BY <2>1
  <2>3. (a \o b)[y] = b[y - m]
    BY <2>1, <2>2, ConcatProperties
  <2> QED BY <2>1, <2>2, <2>3
<1> QED BY <1>1, <1>2, <1>3

\* Sequences of seven, one behind the other.
LEMMA FlattenReads ==
  ASSUME NEW seqs \in Seq(Seq(Int)), NEW n \in Nat, n = Len(seqs), n >= 1,
         \A k \in 1 .. n : Len(seqs[k]) = 7
  PROVE  /\ FlattenSeq(seqs) \in Seq(Int) /\ Len(FlattenSeq(seqs)) = 7 * n
         /\ \A k \in 1 .. n, j \in 1 .. 7 : FlattenSeq(seqs)[7 * k - 7 + j] = seqs[k][j]
<1> DEFINE Step(f, i) == IF i = 1 THEN seqs[i] ELSE f[i - 1] \o seqs[i]
           Solves(f) == f = [i \in 1 .. n |-> Step(f, i)]
           flat == CHOOSE f : Solves(f)
           g == [k \in 1 .. n |-> [v \in Seq(Int) |-> v \o seqs[k]]]
<1>1. \A k \in 1 .. n : seqs[k] \in Seq(Int)
  OBVIOUS
<1>2. \E f : Solves(f)
  <2>1. g \in [1 .. n -> [Seq(Int) -> Seq(Int)]]
    BY <1>1
  <2>2. \A k \in 1 .. n : \A v \in Seq(Int) : g[k][v] = v \o seqs[k]
    OBVIOUS
  <2> HIDE DEF g
  <2>3. PICK f : Steps(f, Seq(Int), <<>>, n, g)
    <3>1. <<>> \in Seq(Int)
      OBVIOUS
    <3> QED BY <2>1, <3>1, StepByStep
  <2>4. f \in [0 .. n -> Seq(Int)] /\ f[0] = <<>> /\ \A k \in 1 .. n : f[k] = g[k][f[k - 1]]
    BY <2>3 DEF Steps
  <2> DEFINE h == [i \in 1 .. n |-> f[i]]
  <2>5. \A i \in 1 .. n : h[i] = f[i]
    OBVIOUS
  <2>6. ASSUME NEW i \in 1 .. n
        PROVE  f[i] = Step(h, i)
    <3>1. PICK p : p = i - 1 /\ p \in 0 .. n
      OBVIOUS
    <3>2. f[p] \in Seq(Int)
      BY <2>4, <3>1
    <3>3. f[i] = f[p] \o seqs[i]
      BY <2>2, <2>4, <3>1, <3>2
    <3>4. CASE i = 1
      <4>1. f[p] = <<>>
        BY <2>4, <3>1, <3>4
      <4>2. <<>> \o seqs[i] = seqs[i]
        BY <1>1
      <4> QED BY <3>3, <3>4, <4>1, <4>2
    <3>5. CASE i # 1
      <4>1. p \in 1 .. n
        BY <3>1, <3>5
      <4>2. h[p] = f[p]
        BY <2>5, <4>1
      <4> HIDE DEF h
      <4> QED BY <3>1, <3>3, <3>5, <4>2
    <3> QED BY <3>4, <3>5
  <2>7. h = [i \in 1 .. n |-> Step(h, i)]
    <3> HIDE DEF Step
    <3> QED BY <2>6
  <2> HIDE DEF h
  <2>8. Solves(h)
    BY <2>7
  <2> QED BY <2>8
<1>3. Solves(flat)
  <2> HIDE DEF Solves
  <2> QED BY <1>2
<1>4. FlattenSeq(seqs) = flat[n]
  BY DEF FlattenSeq
<1> HIDE DEF flat
<1>5. \A i \in 1 .. n : flat[i] = Step(flat, i)
  <2> HIDE DEF Step
  <2> QED BY <1>3
<1> DEFINE Good(m) == /\ flat[m] \in Seq(Int) /\ Len(flat[m]) = 7 * m
                      /\ \A k \in 1 .. m, j \in 1 .. 7 : flat[m][7 * k - 7 + j] = seqs[k][j]
           T == {m \in Nat : m >= 1 /\ m <= n => Good(m)}
<1>6. 0 \in T
  OBVIOUS
<1>7. ASSUME NEW m \in Nat, m \in T
      PROVE  m + 1 \in T
  <2> SUFFICES ASSUME m + 1 <= n PROVE Good(m + 1)
    OBVIOUS
  <2>1. PICK i \in 1 .. n : i = m + 1 /\ i - 1 = m
    OBVIOUS
  <2>2. seqs[i] \in Seq(Int) /\ Len(seqs[i]) = 7
    BY <1>1
  <2>3. CASE m = 0
    <3>1. i = 1
      BY <2>1, <2>3
    <3>2. flat[i] = seqs[i]
      BY <1>5, <3>1
    <3>3. \A k \in 1 .. i, j \in 1 .. 7 : k = i /\ 7 * k - 7 + j = j
      BY <3>1
    <3>4. Len(flat[i]) = 7 * i
      BY <2>2, <3>1, <3>2
    <3>5. Good(i)
      BY <2>2, <3>2, <3>3, <3>4
    <3> QED BY <2>1, <3>5
  <2>4. CASE m # 0
    <3>1. Good(m)
      BY <1>7, <2>1, <2>4
    <3> DEFINE a == flat[m]
               b == seqs[i]
    <3>2. flat[i] = a \o b
      <4>1. i # 1
        BY <2>1, <2>4
      <4> QED BY <1>5, <2>1, <4>1
    <3>3. a \in Seq(Int) /\ Len(a) = 7 * m /\ b \in Seq(Int) /\ Len(b) = 7
      BY <2>2, <3>1
    <3>4. \A k \in 1 .. m, j \in 1 .. 7 : a[7 * k - 7 + j] = seqs[k][j]
      BY <3>1
    <3> HIDE DEF a, b
    <3>5. /\ a \o b \in Seq(Int) /\ Len(a \o b) = 7 * i
          /\ \A x \in 1 .. 7 * m : (a \o b)[x] = a[x]
          /\ \A x \in 1 .. 7 : (a \o b)[7 * m + x] = b[x]
      <4>1. PICK p \in Nat : p = 7 * m
        OBVIOUS
      <4>2. PICK q \in Nat : q = 7
        OBVIOUS
      <4>3. /\ a \o b \in Seq(Int) /\ Len(a \o b) = p + q
            /\ \A x \in 1 .. p : (a \o b)[x] = a[x]
            /\ \A x \in 1 .. q : (a \o b)[p + x] = b[x]
        <5>1. a \in Seq(Int) /\ b \in Seq(Int) /\ Len(a) = p /\ Len(b) = q
          BY <3>3, <4>1, <4>2
        <5>2. /\ a \o b \in Seq(Int) /\ Len(a \o b) = Len(a) + Len(b)
              /\ \A x \in 1 .. Len(a) : (a \o b)[x] = a[x]
              /\ \A x \in 1 .. Len(b) : (a \o b)[Len(a) + x] = b[x]
          BY Zenon, <5>1, Joined
        <5> QED BY Zenon, <5>1, <5>2
      <4>4. p + q = 7 * i
        BY <2>1, <4>1, <4>2
      <4> QED BY <4>1, <4>2, <4>3, <4>4
    <3>6. ASSUME NEW k \in 1 .. i, NEW j \in 1 .. 7
          PROVE  (a \o b)[7 * k - 7 + j] = seqs[k][j]
      <4>1. CASE k <= m
        <5>1. k \in 1 .. m
          BY <4>1
        <5>2. PICK x : x = 7 * k - 7 + j /\ x \in 1 .. 7 * m
          BY <5>1
        <5>3. (a \o b)[x] = a[x]
          BY <3>5, <5>2
        <5> QED BY <3>4, <5>1, <5>2, <5>3
      <4>2. CASE ~(k <= m)
        <5>1. k = i
          BY <2>1, <4>2
        <5>2. 7 * k - 7 + j = 7 * m + j
          BY <2>1, <5>1
        <5>3. (a \o b)[7 * m + j] = b[j]
          BY <3>5
        <5> QED BY <5>1, <5>2, <5>3 DEF b
      <4> QED BY <4>1, <4>2
    <3>7. Good(i)
      <4> HIDE DEF b
      <4> QED BY <3>2, <3>5, <3>6
    <3> QED BY <2>1, <3>7
  <2> QED BY <2>3, <2>4
<1>8. n \in T
  <2> HIDE DEF T
  <2> QED BY <1>6, <1>7, NumbersByInduction
<1> QED BY <1>4, <1>8

\* UI frames with addresses that fit.
Frame == [destination : Address, source : Address, digipeaters : Seq(Address),
          control : Int, pid : Int, info : Seq(Int)]

\* The k-th address of a frame of n addresses.
Addr(f, k) == IF k = 1 THEN f.destination ELSE IF k = 2 THEN f.source ELSE f.digipeaters[k - 2]

LEMMA AddrIsAddress ==
  ASSUME NEW f \in Frame, NEW d \in Nat, d = Len(f.digipeaters), NEW k \in 1 .. d + 2
  PROVE  Addr(f, k) \in Address
<1>1. f.destination \in Address /\ f.source \in Address /\ f.digipeaters \in Seq(Address)
  BY DEF Frame
<1>2. k # 1 /\ k # 2 => k - 2 \in 1 .. d
  OBVIOUS
<1>3. k # 1 /\ k # 2 => f.digipeaters[k - 2] \in Address
  <2> HIDE DEF Address
  <2> QED BY <1>1, <1>2
<1> QED BY <1>1, <1>3 DEF Addr

\* The source and the digipeaters, seven bytes each.
LEMMA PathBytes ==
  ASSUME NEW f \in Frame, NEW d \in Nat, d = Len(f.digipeaters)
  PROVE  LET path == <<f.source>> \o f.digipeaters
             flat == FlattenSeq([i \in DOMAIN path |-> EncodeAddress(path[i], i = Len(path))])
         IN /\ flat \in Seq(Int) /\ Len(flat) = 7 * (d + 1)
            /\ \A k \in 1 .. d + 1, j \in 1 .. 7 :
                 flat[7 * k - 7 + j] = EncodeAddress(Addr(f, k + 1), k = d + 1)[j]
<1> DEFINE path == <<f.source>> \o f.digipeaters
           seqs == [i \in DOMAIN path |-> EncodeAddress(path[i], i = Len(path))]
<1>1. f.source \in Address /\ f.digipeaters \in Seq(Address)
  BY DEF Frame
<1>2. path \in Seq(Address) /\ Len(path) = d + 1
  <2> HIDE DEF Address
  <2>1. <<f.source>> \in Seq(Address) /\ Len(<<f.source>>) = 1
    BY <1>1
  <2>2. path \in Seq(Address) /\ Len(path) = Len(<<f.source>>) + Len(f.digipeaters)
    BY <1>1, <2>1, ConcatProperties
  <2> HIDE DEF path
  <2> QED BY <2>1, <2>2
<1>3. \A k \in 1 .. d + 1 : path[k] = Addr(f, k + 1)
  <2> HIDE DEF Address
  <2> TAKE k \in 1 .. d + 1
  <2>1. <<f.source>> \in Seq(Address) /\ Len(<<f.source>>) = 1 /\ <<f.source>>[1] = f.source
    BY <1>1
  <2>2. path[k] = IF k <= 1 THEN <<f.source>>[k] ELSE f.digipeaters[k - 1]
    <3>1. k \in 1 .. 1 + d
      OBVIOUS
    <3> QED BY <1>1, <2>1, <3>1, ConcatProperties
  <2>3. k <= 1 <=> k = 1
    OBVIOUS
  <2>4. PICK m : m = k + 1 /\ m # 1 /\ (m = 2 <=> k = 1) /\ m - 2 = k - 1
    OBVIOUS
  <2> HIDE DEF path
  <2>5. Addr(f, m) = IF k = 1 THEN f.source ELSE f.digipeaters[k - 1]
    BY <2>4 DEF Addr
  <2> QED BY <2>1, <2>2, <2>3, <2>4, <2>5
<1>4. DOMAIN path = 1 .. d + 1
  <2> HIDE DEF Address, path
  <2> QED BY <1>2
<1> HIDE DEF path
<1>5. seqs = [i \in 1 .. d + 1 |-> EncodeAddress(Addr(f, i + 1), i = d + 1)]
  BY <1>2, <1>3, <1>4
<1>6. ASSUME NEW k \in 1 .. d + 1
      PROVE  /\ EncodeAddress(Addr(f, k + 1), k = d + 1) \in Seq(Int)
             /\ Len(EncodeAddress(Addr(f, k + 1), k = d + 1)) = 7
  <2>1. k + 1 \in 1 .. d + 2
    OBVIOUS
  <2>2. Addr(f, k + 1) \in Address
    BY <2>1, AddrIsAddress
  <2>3. (k = d + 1) \in BOOLEAN
    OBVIOUS
  <2> HIDE DEF Address, Addr
  <2> QED BY ONLY <2>2, <2>3, EncodedAddress
<1> HIDE DEF seqs
<1>7. seqs \in Seq(Seq(Int)) /\ Len(seqs) = d + 1 /\ \A k \in 1 .. d + 1 : Len(seqs[k]) = 7
  <2>1. PICK n \in Nat : n = d + 1
    OBVIOUS
  <2>2. seqs = [i \in 1 .. n |-> EncodeAddress(Addr(f, i + 1), i = d + 1)]
    BY <1>5, <2>1
  <2>3. \A k \in 1 .. n : seqs[k] \in Seq(Int) /\ Len(seqs[k]) = 7
    BY <1>6, <2>1, <2>2
  <2>4. seqs \in [1 .. n -> Seq(Int)]
    BY <2>2, <2>3
  <2>5. seqs \in Seq(Seq(Int)) /\ Len(seqs) = n
    BY <2>4
  <2> QED BY <2>1, <2>3, <2>5
<1>8. PICK n \in Nat : n = d + 1 /\ n >= 1 /\ n = Len(seqs)
  BY <1>7
<1>9. /\ FlattenSeq(seqs) \in Seq(Int) /\ Len(FlattenSeq(seqs)) = 7 * n
      /\ \A k \in 1 .. n, j \in 1 .. 7 : FlattenSeq(seqs)[7 * k - 7 + j] = seqs[k][j]
  BY <1>7, <1>8, FlattenReads
<1>10. \A k \in 1 .. d + 1 : seqs[k] = EncodeAddress(Addr(f, k + 1), k = d + 1)
  BY <1>5
<1>11. /\ FlattenSeq(seqs) \in Seq(Int) /\ Len(FlattenSeq(seqs)) = 7 * (d + 1)
       /\ \A k \in 1 .. d + 1, j \in 1 .. 7 :
            FlattenSeq(seqs)[7 * k - 7 + j] = EncodeAddress(Addr(f, k + 1), k = d + 1)[j]
  <2>1. ASSUME NEW k \in 1 .. d + 1, NEW j \in 1 .. 7
        PROVE  FlattenSeq(seqs)[7 * k - 7 + j] = EncodeAddress(Addr(f, k + 1), k = d + 1)[j]
    <3>1. k \in 1 .. n
      BY <1>8
    <3>2. FlattenSeq(seqs)[7 * k - 7 + j] = seqs[k][j]
      BY <1>9, <3>1
    <3> QED BY <1>10, <3>2
  <2>2. FlattenSeq(seqs) \in Seq(Int) /\ Len(FlattenSeq(seqs)) = 7 * (d + 1)
    BY <1>8, <1>9
  <2> QED BY <2>1, <2>2
<1> QED BY Zenon, <1>11 DEF seqs, path

\* What Encode writes, byte by byte: the addresses, control and PID, the payload.
IsEncoding(data, f, n) ==
  /\ data \in Seq(Int) /\ Len(data) = 7 * n + 2 + Len(f.info)
  /\ \A k \in 1 .. n, j \in 1 .. 7 : data[7 * k - 7 + j] = EncodeAddress(Addr(f, k), k = n)[j]
  /\ data[7 * n + 1] = f.control /\ data[7 * n + 2] = f.pid
  /\ \A x \in 1 .. Len(f.info) : data[7 * n + 2 + x] = f.info[x]

LEMMA EncodedFrame ==
  ASSUME NEW f \in Frame, NEW d \in Nat, d = Len(f.digipeaters)
  PROVE  IsEncoding(Encode(f), f, d + 2)
<1> DEFINE path == <<f.source>> \o f.digipeaters
           flat == FlattenSeq([i \in DOMAIN path |-> EncodeAddress(path[i], i = Len(path))])
           head == EncodeAddress(f.destination, FALSE)
           two  == <<f.control, f.pid>>
           info == f.info
           addresses == head \o flat
           before == addresses \o two
<1>1. Encode(f) = before \o info
  BY DEF Encode
<1>2. /\ flat \in Seq(Int) /\ Len(flat) = 7 * (d + 1)
      /\ \A k \in 1 .. d + 1, j \in 1 .. 7 :
           flat[7 * k - 7 + j] = EncodeAddress(Addr(f, k + 1), k = d + 1)[j]
  BY Zenon, PathBytes
<1>3. head \in Seq(Int) /\ Len(head) = 7
  <2>1. f.destination \in Address /\ FALSE \in BOOLEAN
    BY DEF Frame
  <2> HIDE DEF Address
  <2> QED BY <2>1, EncodedAddress
<1>4. /\ two \in Seq(Int) /\ Len(two) = 2 /\ two[1] = f.control /\ two[2] = f.pid
      /\ info \in Seq(Int) /\ Len(info) \in Nat
  BY DEF Frame
<1>5. head = EncodeAddress(Addr(f, 1), 1 = d + 2)
  <2>1. Addr(f, 1) = f.destination /\ (1 = d + 2) = FALSE
    BY DEF Addr
  <2> QED BY <2>1
<1> HIDE DEF flat, head, two, info
<1>6. /\ addresses \in Seq(Int) /\ Len(addresses) = 7 * (d + 2)
      /\ \A x \in 1 .. 7 : addresses[x] = head[x]
      /\ \A x \in 1 .. 7 * (d + 1) : addresses[7 + x] = flat[x]
  <2>1. /\ addresses \in Seq(Int) /\ Len(addresses) = Len(head) + Len(flat)
        /\ \A x \in 1 .. Len(head) : addresses[x] = head[x]
        /\ \A x \in 1 .. Len(flat) : addresses[Len(head) + x] = flat[x]
    BY <1>2, <1>3, Joined
  <2> HIDE DEF addresses
  <2> QED BY <1>2, <1>3, <2>1
<1> HIDE DEF addresses
<1>7. /\ before \in Seq(Int) /\ Len(before) = 7 * (d + 2) + 2
      /\ \A x \in 1 .. 7 * (d + 2) : before[x] = addresses[x]
      /\ before[7 * (d + 2) + 1] = f.control /\ before[7 * (d + 2) + 2] = f.pid
  <2>1. /\ before \in Seq(Int) /\ Len(before) = Len(addresses) + Len(two)
        /\ \A x \in 1 .. Len(addresses) : before[x] = addresses[x]
        /\ \A x \in 1 .. Len(two) : before[Len(addresses) + x] = two[x]
    BY <1>4, <1>6, Joined
  <2> HIDE DEF before
  <2>2. before \in Seq(Int) /\ Len(before) = 7 * (d + 2) + 2
    BY <1>4, <1>6, <2>1
  <2>3. \A x \in 1 .. 7 * (d + 2) : before[x] = addresses[x]
    BY <1>6, <2>1
  <2>4. before[7 * (d + 2) + 1] = two[1] /\ before[7 * (d + 2) + 2] = two[2]
    <3>1. 1 \in 1 .. Len(two) /\ 2 \in 1 .. Len(two)
      BY <1>4
    <3>2. before[Len(addresses) + 1] = two[1] /\ before[Len(addresses) + 2] = two[2]
      BY <2>1, <3>1
    <3> QED BY <1>6, <3>2
  <2> QED BY <1>4, <2>2, <2>3, <2>4
<1> HIDE DEF before
<1> DEFINE data == before \o info
<1>8. /\ data \in Seq(Int) /\ Len(data) = 7 * (d + 2) + 2 + Len(info)
      /\ \A x \in 1 .. 7 * (d + 2) + 2 : data[x] = before[x]
      /\ \A x \in 1 .. Len(info) : data[7 * (d + 2) + 2 + x] = info[x]
  <2>1. /\ data \in Seq(Int) /\ Len(data) = Len(before) + Len(info)
        /\ \A x \in 1 .. Len(before) : data[x] = before[x]
        /\ \A x \in 1 .. Len(info) : data[Len(before) + x] = info[x]
    BY <1>4, <1>7, Joined
  <2> HIDE DEF data
  <2> QED BY <1>7, <2>1
<1> HIDE DEF data
<1>9. data[7 * (d + 2) + 1] = f.control /\ data[7 * (d + 2) + 2] = f.pid
  <2>1. 7 * (d + 2) + 1 \in 1 .. 7 * (d + 2) + 2 /\ 7 * (d + 2) + 2 \in 1 .. 7 * (d + 2) + 2
    OBVIOUS
  <2> QED BY <1>7, <1>8, <2>1
<1>10. ASSUME NEW k \in 1 .. d + 2, NEW j \in 1 .. 7
       PROVE  data[7 * k - 7 + j] = EncodeAddress(Addr(f, k), k = d + 2)[j]
  <2>1. PICK x : x = 7 * k - 7 + j /\ x \in 1 .. 7 * (d + 2) /\ x \in 1 .. 7 * (d + 2) + 2
    OBVIOUS
  <2>2. data[x] = addresses[x]
    BY <1>7, <1>8, <2>1
  <2>3. CASE k = 1
    <3>1. x = j
      BY <2>1, <2>3
    <3> QED BY <1>5, <1>6, <2>1, <2>2, <2>3, <3>1
  <2>4. CASE k # 1
    <3>1. PICK m : m = k - 1 /\ m \in 1 .. d + 1 /\ m + 1 = k
      BY <2>4
    <3>2. PICK y : y = 7 * m - 7 + j /\ y \in 1 .. 7 * (d + 1) /\ x = 7 + y
      BY <2>1, <3>1
    <3>3. addresses[x] = flat[y]
      BY <1>6, <3>2
    <3>4. flat[y] = EncodeAddress(Addr(f, m + 1), m = d + 1)[j]
      BY <1>2, <3>1, <3>2
    <3>5. (m = d + 1) = (k = d + 2)
      BY <3>1
    <3> QED BY <2>1, <2>2, <3>1, <3>3, <3>4, <3>5
  <2> QED BY <2>3, <2>4
<1>11. IsEncoding(data, f, d + 2)
  <2>1. Len(data) = 7 * (d + 2) + 2 + Len(f.info) /\ \A x \in 1 .. Len(f.info) : data[7 * (d + 2) + 2 + x] = f.info[x]
    BY <1>8 DEF info
  <2> QED BY Zenon, <1>8, <1>9, <1>10, <2>1 DEF IsEncoding
<1> QED BY <1>1, <1>11 DEF data

\* The extension bit ends the addresses where Encode ended them.
LEMMA LastReads ==
  ASSUME NEW f \in Frame, NEW d \in Nat, d = Len(f.digipeaters), NEW n \in Nat, n = d + 2,
         NEW data, IsEncoding(data, f, n)
  PROVE  LastAddress(data) = n
<1> DEFINE q == Len(data) \div 7
           ends == {k \in 2 .. q : data[7 * k] % 2 = 1}
<1>1. PICK size \in Nat : size = Len(f.info)
  BY DEF Frame
<1>2. q \in Nat /\ n <= q
  <2>1. Len(data) = 7 * n + 2 + size
    BY <1>1 DEF IsEncoding
  <2>2. PICK total : total = Len(data)
    OBVIOUS
  <2>3. total \in Nat /\ 7 * n <= total
    BY <2>1, <2>2
  <2>4. total \div 7 \in Nat /\ n <= total \div 7
    BY <2>3
  <2> QED BY <2>2, <2>4
<1>3. ASSUME NEW k \in 2 .. n
      PROVE  data[7 * k] % 2 = 1 <=> k = n
  <2>1. k \in 1 .. n /\ k \in 1 .. d + 2 /\ 7 \in 1 .. 7 /\ 7 * k - 7 + 7 = 7 * k
    OBVIOUS
  <2>2. data[7 * k] = EncodeAddress(Addr(f, k), k = n)[7]
    <3>1. data[7 * k - 7 + 7] = EncodeAddress(Addr(f, k), k = n)[7]
      BY Zenon, <2>1 DEF IsEncoding
    <3> QED BY <2>1, <3>1
  <2>3. Addr(f, k) \in Address /\ (k = n) \in BOOLEAN
    <3>1. Addr(f, k) \in Address
      BY <2>1, AddrIsAddress
    <3> QED BY <3>1
  <2> DEFINE a == Addr(f, k)
  <2> HIDE DEF a
  <2>4. EncodeAddress(a, k = n)[7] = 96 + 2 * a.ssid + Bit(k = n) /\ a.ssid \in 0 .. 15
    <3> HIDE DEF Address
    <3> QED BY <2>3, EncodedAddress, AddressParts DEF a
  <2>5. PICK s \in 0 .. 15 : s = a.ssid
    BY <2>4
  <2>6. (96 + 2 * s + 1) % 2 = 1 /\ (96 + 2 * s + 0) % 2 = 0
    OBVIOUS
  <2>7. Bit(k = n) = IF k = n THEN 1 ELSE 0
    BY DEF Bit
  <2> QED BY <2>2, <2>4, <2>5, <2>6, <2>7 DEF a
<1> HIDE DEF q
<1>4. n \in ends
  <2>1. n \in 2 .. q /\ n \in 2 .. n
    BY <1>2
  <2> QED BY <1>3, <2>1
<1>5. \A k \in ends : n <= k
  <2> TAKE k \in ends
  <2> SUFFICES ASSUME ~(n <= k) PROVE FALSE
    OBVIOUS
  <2>1. k \in 2 .. n /\ k # n /\ data[7 * k] % 2 = 1
    BY <1>2
  <2> QED BY <1>3, <2>1
<1>6. Min(ends) = n
  <2>1. ends \subseteq 1 .. q /\ ends # {}
    BY <1>2, <1>4
  <2> HIDE DEF ends
  <2>2. Min(ends) \in ends /\ \A y \in ends : Min(ends) <= y
    BY <1>2, <2>1, MinMaxWithin
  <2>3. Min(ends) <= n /\ n <= Min(ends) /\ Min(ends) \in 1 .. q
    BY <1>4, <1>5, <2>1, <2>2
  <2>4. PICK x : x = Min(ends)
    OBVIOUS
  <2>5. x <= n /\ n <= x /\ x \in Nat
    BY <1>2, <2>3, <2>4
  <2> QED BY <2>4, <2>5
<1> QED BY Zenon, <1>4, <1>6 DEF LastAddress, q

\* Each address is read as it was.
LEMMA AddressReads ==
  ASSUME NEW f \in Frame, NEW d \in Nat, d = Len(f.digipeaters), NEW n \in Nat, n = d + 2,
         NEW data, IsEncoding(data, f, n), NEW k \in 1 .. n
  PROVE  DecodeAX25Address(SubSeq(data, 7 * k - 6, 7 * k)) = Addr(f, k)
<1>1. Addr(f, k) \in Address /\ (k = n) \in BOOLEAN
  <2>1. k \in 1 .. d + 2
    OBVIOUS
  <2>2. Addr(f, k) \in Address
    BY <2>1, AddrIsAddress
  <2> QED BY <2>2
<1>2. PICK size \in Nat : size = Len(f.info)
  BY DEF Frame
<1>3. data \in Seq(Int) /\ Len(data) = 7 * n + 2 + size
  BY <1>2 DEF IsEncoding
<1>4. ASSUME NEW j \in 1 .. 7
      PROVE  SubSeq(data, 7 * k - 6, 7 * k)[j] = EncodeAddress(Addr(f, k), k = n)[j]
  <2>1. PICK u, v : u = 7 * k - 6 /\ v = 7 * k /\ u \in Nat /\ v \in Nat /\ v - u + 1 = 7 /\ u - 1 + j = 7 * k - 7 + j
    OBVIOUS
  <2>2. SubSeq(data, u, v) = [i \in 1 .. 7 |-> data[u - 1 + i]]
    <3>1. SubSeq(data, u, v) = [i \in 1 .. (v - u + 1) |-> data[i + u - 1]]
      BY <1>3, <2>1
    <3>2. \A i \in 1 .. 7 : i + u - 1 = u - 1 + i
      BY <2>1
    <3> QED BY <2>1, <3>1, <3>2
  <2>3. SubSeq(data, u, v)[j] = data[7 * k - 7 + j]
    BY <2>1, <2>2
  <2>4. data[7 * k - 7 + j] = EncodeAddress(Addr(f, k), k = n)[j]
    BY DEF IsEncoding
  <2> QED BY <2>1, <2>3, <2>4
<1> HIDE DEF Address
<1> DEFINE a == Addr(f, k)
           isLast == k = n
           part == SubSeq(data, 7 * k - 6, 7 * k)
<1>5. a \in Address /\ isLast \in BOOLEAN /\ \A j \in 1 .. 7 : part[j] = EncodeAddress(a, isLast)[j]
  BY <1>1, <1>4
<1> HIDE DEF a, isLast, part
<1>6. DecodeAX25Address(part) = a
  BY <1>5, AddressRoundTrip
<1> QED BY <1>6 DEF a, part

LEMMA DecodesEncoding ==
  ASSUME NEW f \in Frame
  PROVE  DecodeAX25Frame(Encode(f)) = f
<1>1. PICK d \in Nat : d = Len(f.digipeaters)
  BY DEF Frame
<1>2. PICK n \in Nat : n = d + 2
  OBVIOUS
<1>3. PICK data : data = Encode(f)
  OBVIOUS
<1>4. IsEncoding(data, f, n)
  BY <1>1, <1>2, <1>3, EncodedFrame
<1>5. LastAddress(data) = n
  BY <1>1, <1>2, <1>4, LastReads
<1> DEFINE a(k) == DecodeAX25Address(SubSeq(data, 7 * k - 6, 7 * k))
<1>6. \A k \in 1 .. n : a(k) = Addr(f, k)
  BY <1>1, <1>2, <1>4, AddressReads
<1> HIDE DEF a
<1>7. PICK size \in Nat : size = Len(f.info)
  BY DEF Frame
<1>8. PICK total \in Nat : total = Len(data) /\ total = 7 * n + 2 + size
  <2>1. 7 * n + 2 + size \in Nat
    OBVIOUS
  <2>2. Len(data) = 7 * n + 2 + Len(f.info)
    BY <1>4 DEF IsEncoding
  <2> QED BY <1>7, <2>1, <2>2
<1>9. ~(Len(data) < 16 \/ 7 * n + 2 > Len(data))
  BY <1>2, <1>8
<1>10. a(1) = f.destination /\ a(2) = f.source
  <2>1. 1 \in 1 .. n /\ 2 \in 1 .. n
    BY <1>2
  <2>2. Addr(f, 1) = f.destination /\ Addr(f, 2) = f.source
    BY DEF Addr
  <2> QED BY <1>6, <2>1, <2>2
<1>11. [k \in 1 .. n - 2 |-> a(k + 2)] = f.digipeaters
  <2>1. n - 2 = d
    BY <1>2
  <2>2. ASSUME NEW k \in 1 .. d
        PROVE  a(k + 2) = f.digipeaters[k]
    <3>1. PICK m \in 1 .. n : m = k + 2 /\ m # 1 /\ m # 2 /\ m - 2 = k
      BY <1>2
    <3> QED BY <1>6, <3>1 DEF Addr
  <2>3. f.digipeaters = [k \in 1 .. d |-> f.digipeaters[k]]
    <3> HIDE DEF Address
    <3>1. f.digipeaters \in Seq(Address)
      BY DEF Frame
    <3> QED BY <1>1, <3>1
  <2> QED BY <2>1, <2>2, <2>3
<1>12. data[7 * n + 1] = f.control /\ data[7 * n + 2] = f.pid
  BY <1>4 DEF IsEncoding
<1>13. SubSeq(data, 7 * n + 3, Len(data)) = f.info
  <2>1. data \in Seq(Int) /\ \A x \in 1 .. size : data[7 * n + 2 + x] = f.info[x]
    BY <1>4, <1>7 DEF IsEncoding
  <2>2. PICK u : u = 7 * n + 3 /\ u \in Nat /\ total - u + 1 = size
    BY <1>8
  <2>3. SubSeq(data, u, total) = [i \in 1 .. (total - u + 1) |-> data[i + u - 1]]
    BY <1>8, <2>1, <2>2
  <2>4. \A i \in 1 .. size : i + u - 1 = 7 * n + 2 + i
    BY <2>2
  <2>5. SubSeq(data, u, total) = [i \in 1 .. size |-> f.info[i]]
    BY <2>1, <2>2, <2>3, <2>4
  <2>6. f.info = [i \in 1 .. size |-> f.info[i]]
    <3>1. f.info \in Seq(Int)
      BY DEF Frame
    <3> QED BY <1>7, <3>1
  <2> QED BY <1>8, <2>2, <2>5, <2>6
<1>14. DecodeAX25Frame(data) = [destination |-> a(1), source |-> a(2),
           digipeaters |-> [k \in 1 .. n - 2 |-> a(k + 2)],
           control |-> data[7 * n + 1], pid |-> data[7 * n + 2],
           info |-> SubSeq(data, 7 * n + 3, Len(data))]
  BY <1>5, <1>9 DEF DecodeAX25Frame, a
<1>15. f = [destination |-> f.destination, source |-> f.source, digipeaters |-> f.digipeaters,
            control |-> f.control, pid |-> f.pid, info |-> f.info]
  <2> HIDE DEF Address
  <2> QED BY DEF Frame
<1> QED BY Zenon, <1>3, <1>10, <1>11, <1>12, <1>13, <1>14, <1>15

(* DecodeAX25Frame gives back every frame that Encode can carry, with any   *)
(* number of digipeaters and any payload.                                   *)
THEOREM Ax25RoundTrip == \A f \in Frame : DecodeAX25Frame(Encode(f)) = f
BY DecodesEncoding

-----------------------------------------------------------------------------
(* The name of this node in its frames.                                     *)

\* The SSIDs as text, and the text as a number.
LEMMA NumberText ==
  ASSUME NEW n \in 1 .. 15
  PROVE  /\ Itoa(n) \in Seq(Char) /\ Len(Itoa(n)) \in 1 .. 2
         /\ IsNumber(Itoa(n)) /\ Atoi(Itoa(n)) = n
<1>1. Itoa(n) = IF n < 10 THEN <<48 + n>> ELSE Append(<<49>>, 38 + n)
  <2>1. PICK text, size : /\ size = IF n < 0 THEN -n ELSE n
                          /\ \A k \in 0 .. size :
                               /\ text[k] \in Seq(Char)
                               /\ text[k] = IF k < 10 THEN <<48 + k>>
                                            ELSE Append(text[k \div 10], 48 + (k % 10))
                          /\ Itoa(n) = IF n < 0 THEN <<Dash>> \o text[size] ELSE text[size]
    <3>1. n \in Int
      OBVIOUS
    <3> QED BY Zenon, <3>1, ItoaWrites
  <2>2. size = n /\ Itoa(n) = text[n] /\ n \in 0 .. size /\ 1 \in 0 .. size
    BY <2>1
  <2>3. text[1] = <<49>>
    <3>1. text[1] = IF 1 < 10 THEN <<48 + 1>> ELSE Append(text[1 \div 10], 48 + (1 % 10))
      BY Zenon, <2>1, <2>2
    <3>2. 1 < 10 /\ 48 + 1 = 49
      OBVIOUS
    <3> QED BY Zenon, <3>1, <3>2
  <2>4. CASE n < 10
    BY <2>1, <2>2, <2>4
  <2>5. CASE ~(n < 10)
    <3>1. n \div 10 = 1 /\ 48 + (n % 10) = 38 + n
      BY <2>5
    <3>2. text[n] = Append(text[n \div 10], 48 + (n % 10))
      BY <2>1, <2>2, <2>5
    <3>3. text[n] = Append(<<49>>, 38 + n)
      BY <2>3, <3>1, <3>2
    <3> QED BY Zenon, <2>2, <2>5, <3>3
  <2> QED BY <2>4, <2>5
<1> DEFINE t == Itoa(n)
<1> HIDE DEF t
<1>2. /\ t \in Seq(Char) /\ t \in Seq(Int) /\ Len(t) \in 1 .. 2
      /\ \A i \in 1 .. Len(t) : t[i] \in Digits
      /\ Len(t) = 1 => t[1] = 48 + n
      /\ Len(t) = 2 => t[1] = 49 /\ t[2] = 38 + n
  <2>1. CASE n < 10
    <3>1. PICK c : c = 48 + n /\ c \in Digits /\ c \in Char /\ c \in Int
      BY <2>1 DEF Digits, Char
    <3>2. t = <<c>>
      BY <1>1, <2>1, <3>1 DEF t
    <3> QED BY <3>1, <3>2
  <2>2. CASE ~(n < 10)
    <3>1. PICK b, c : /\ b = 49 /\ b \in Digits /\ b \in Char /\ b \in Int
                      /\ c = 38 + n /\ c \in Digits /\ c \in Char /\ c \in Int
      BY <2>2 DEF Digits, Char
    <3>2. t = Append(<<b>>, c)
      BY <1>1, <2>2, <3>1 DEF t
    <3> DEFINE q == <<b>>
    <3>3. q \in Seq(Char) /\ q \in Seq(Int) /\ Len(q) = 1 /\ q[1] = b
      BY <3>1
    <3> HIDE DEF q
    <3>4. /\ Append(q, c) \in Seq(Char) /\ Append(q, c) \in Seq(Int) /\ Len(Append(q, c)) = 2
          /\ Append(q, c)[1] = b /\ Append(q, c)[2] = c
      <4>1. Append(q, c) \in Seq(Char) /\ Append(q, c) \in Seq(Int)
        BY <3>1, <3>3
      <4>2. /\ Len(Append(q, c)) = Len(q) + 1 /\ Append(q, c)[Len(q) + 1] = c
            /\ \A i \in 1 .. Len(q) : Append(q, c)[i] = q[i]
        <5>1. c \in Int /\ q \in Seq(Int)
          BY <3>1, <3>3
        <5>2. \A u \in Seq(Int), v \in Int :
                /\ Len(Append(u, v)) = Len(u) + 1 /\ Append(u, v)[Len(u) + 1] = v
                /\ \A i \in 1 .. Len(u) : Append(u, v)[i] = u[i]
          BY AppendProperties
        <5> QED BY Zenon, <5>1, <5>2
      <4>3. Len(q) + 1 = 2 /\ 1 \in 1 .. Len(q)
        BY <3>3
      <4> QED BY Zenon, <3>3, <4>1, <4>2, <4>3
    <3>5. t = Append(q, c)
      BY <3>2 DEF q
    <3>6. \A i \in 1 .. 2 : i = 1 \/ i = 2
      OBVIOUS
    <3> QED BY <3>1, <3>4, <3>5, <3>6
  <2> QED BY <2>1, <2>2
<1>3. t # <<>> /\ t[1] \in Digits /\ t[1] \notin {Plus, Dash}
  BY <1>2 DEF Digits, Plus, Dash
<1>4. Unsigned(t) = t /\ t[1] # Dash
  BY <1>3 DEF Unsigned
<1>5. IsNumber(t)
  <2>1. ToSet(t) \subseteq Digits
    BY <1>2 DEF ToSet
  <2> QED BY <1>3, <1>4, <2>1 DEF IsNumber
<1>6. Atoi(t) = n
  <2>1. PICK value \in [0 .. Len(t) -> Int] :
           /\ value[0] = 0
           /\ \A k \in 1 .. Len(t) : value[k] = 10 * value[k - 1] + t[k] - 48
           /\ Atoi(t) = value[Len(t)]
    <3>1. PICK value \in [0 .. Len(Unsigned(t)) -> Int] :
           /\ value[0] = 0
           /\ \A k \in 1 .. Len(Unsigned(t)) : value[k] = 10 * value[k - 1] + Unsigned(t)[k] - 48
           /\ Atoi(t) = IF t[1] = Dash THEN -value[Len(Unsigned(t))] ELSE value[Len(Unsigned(t))]
      BY <1>2, AtoiReads
    <3> QED BY <1>4, <3>1
  <2>2. CASE Len(t) = 1
    <3>1. value[1] = 10 * value[0] + t[1] - 48
      <4>1. value[1] = 10 * value[1 - 1] + t[1] - 48
        BY <2>1, <2>2
      <4> QED BY <4>1
    <3> QED BY <1>2, <2>1, <2>2, <3>1
  <2>3. CASE Len(t) = 2
    <3>1. value[1] = 10 * value[0] + t[1] - 48 /\ value[2] = 10 * value[1] + t[2] - 48
      <4>1. value[1] = 10 * value[1 - 1] + t[1] - 48 /\ value[2] = 10 * value[2 - 1] + t[2] - 48
        BY <2>1, <2>3
      <4> QED BY <4>1
    <3>2. value[1] = 1
      BY <1>2, <2>1, <2>3, <3>1
    <3> QED BY <1>2, <2>1, <2>3, <3>1, <3>2
  <2> QED BY <1>2, <2>2, <2>3
<1> QED BY <1>2, <1>5, <1>6 DEF t

\* Callsigns are in capitals, without dashes and blanks.
LEMMA CallsignChars ==
  ASSUME NEW c \in Seq(Char), IsCallsign(c)
  PROVE  /\ Len(c) \in 1 .. 6 /\ ToUpper(c) = c
         /\ \A i \in 1 .. Len(c) : c[i] \in Char /\ c[i] # Dash /\ c[i] # Space
<1>1. Len(c) \in 1 .. 6 /\ ToSet(c) \subseteq Digits \cup Capitals
  BY DEF IsCallsign
<1>2. \A i \in 1 .. Len(c) : c[i] \in Digits \cup Capitals /\ c[i] \in Char
  BY <1>1 DEF ToSet
<1>3. \A i \in 1 .. Len(c) : c[i] # Dash /\ c[i] # Space /\ c[i] \notin 97 .. 122
  <2>1. \A x \in Digits \cup Capitals : x # Dash /\ x # Space /\ x \notin 97 .. 122
    BY DEF Digits, Capitals, Dash, Space
  <2> QED BY Zenon, <1>2, <2>1
<1>4. DOMAIN c = 1 .. Len(c) /\ c = [i \in 1 .. Len(c) |-> c[i]]
  OBVIOUS
<1>5. ToUpper(c) = [i \in 1 .. Len(c) |-> c[i]]
  BY <1>3, <1>4 DEF ToUpper
<1> QED BY <1>1, <1>2, <1>3, <1>4, <1>5

\* ParseAX25Address reads what fullCallsign writes.
LEMMA FullCallsignParses ==
  ASSUME NEW c \in Seq(Char), IsCallsign(c), NEW n \in 0 .. 15
  PROVE  ParseAX25Address(FullCallsign([callsign |-> c, ssid |-> n])) = [callsign |-> c, ssid |-> n]
<1> DEFINE a == [callsign |-> c, ssid |-> n]
<1>1. /\ Len(c) \in 1 .. 6 /\ ToUpper(c) = c
      /\ \A i \in 1 .. Len(c) : c[i] \in Char /\ c[i] # Dash
  BY CallsignChars
<1>2. NewAX25Address(c, n) = a
  <2>1. ~(Len(c) > 6)
    <3>1. PICK L : L = Len(c)
      OBVIOUS
    <3> QED BY <1>1, <3>1
  <2> QED BY <1>1, <2>1 DEF NewAX25Address
<1>3. CASE n = 0
  <2>1. FullCallsign(a) = c
    BY <1>3 DEF FullCallsign
  <2>2. {i \in DOMAIN c : c[i] = Dash} = {}
    BY <1>1
  <2>3. ParseAX25Address(c) = NewAX25Address(c, 0)
    BY <2>2 DEF ParseAX25Address
  <2> QED BY <1>2, <1>3, <2>1, <2>3
<1>4. CASE n # 0
  <2> DEFINE t == Itoa(n)
             front == c \o <<Dash>>
             s == front \o t
  <2>1. t \in Seq(Char) /\ Len(t) \in 1 .. 2 /\ IsNumber(t) /\ Atoi(t) = n
    <3>1. n \in 1 .. 15
      BY <1>4
    <3> QED BY <3>1, NumberText
  <2>2. FullCallsign(a) = s
    BY <1>4 DEF FullCallsign
  <2> HIDE DEF t
  <2>3. PICK L \in 1 .. 6, M \in 1 .. 2 : L = Len(c) /\ M = Len(t)
    BY <1>1, <2>1
  <2>4. Char \subseteq Int /\ <<Dash>> \in Seq(Int) /\ Len(<<Dash>>) = 1 /\ <<Dash>>[1] = Dash
    BY DEF Char, Dash
  <2>5. c \in Seq(Int) /\ t \in Seq(Int)
    <3> HIDE DEF Char
    <3> QED BY Zenon, <2>1, <2>4, SeqOfMore
  <2>6. /\ front \in Seq(Int) /\ Len(front) = L + 1 /\ front[L + 1] = Dash
        /\ \A x \in 1 .. L : front[x] = c[x]
    <3> DEFINE dash == <<Dash>>
    <3>0. dash \in Seq(Int) /\ Len(dash) = 1 /\ dash[1] = Dash
      BY <2>4
    <3> HIDE DEF dash
    <3>1. /\ c \o dash \in Seq(Int) /\ Len(c \o dash) = Len(c) + Len(dash)
          /\ \A x \in 1 .. Len(c) : (c \o dash)[x] = c[x]
          /\ \A x \in 1 .. Len(dash) : (c \o dash)[Len(c) + x] = dash[x]
      BY <2>5, <3>0, Joined
    <3>2. 1 \in 1 .. Len(dash)
      BY <3>0
    <3>3. (c \o dash)[Len(c) + 1] = Dash
      BY <3>0, <3>1, <3>2
    <3> QED BY <2>3, <3>0, <3>1, <3>3 DEF dash
  <2> HIDE DEF front
  <2>7. /\ s \in Seq(Int) /\ Len(s) = L + 1 + M
        /\ \A x \in 1 .. L + 1 : s[x] = front[x]
        /\ \A x \in 1 .. M : s[L + 1 + x] = t[x]
    <3>1. /\ s \in Seq(Int) /\ Len(s) = Len(front) + Len(t)
          /\ \A x \in 1 .. Len(front) : s[x] = front[x]
          /\ \A x \in 1 .. Len(t) : s[Len(front) + x] = t[x]
      BY <2>5, <2>6, Joined
    <3> HIDE DEF s
    <3> QED BY <2>3, <2>6, <3>1
  <2> HIDE DEF s
  <2>8. s[L + 1] = Dash /\ \A x \in 1 .. L : s[x] = c[x]
    <3>1. L + 1 \in 1 .. L + 1 /\ \A x \in 1 .. L : x \in 1 .. L + 1
      OBVIOUS
    <3> QED BY <2>6, <2>7, <3>1
  <2> DEFINE dashes == {i \in DOMAIN s : s[i] = Dash}
  <2>9. DOMAIN s = 1 .. L + 1 + M
    BY <2>7
  <2>10. dashes \subseteq 1 .. L + 1 + M /\ L + 1 \in dashes /\ \A x \in dashes : L + 1 <= x
    <3>1. L + 1 \in 1 .. L + 1 + M
      OBVIOUS
    <3>2. ASSUME NEW x \in dashes, ~(L + 1 <= x)
          PROVE  FALSE
      <4>1. x \in 1 .. L /\ s[x] = Dash
        BY <2>9, <3>2
      <4> QED BY <1>1, <2>3, <2>8, <4>1
    <3> QED BY <2>8, <2>9, <3>1, <3>2
  <2> HIDE DEF dashes
  <2>11. Min(dashes) = L + 1
    <3>1. PICK b \in Nat : b = L + 1 + M
      OBVIOUS
    <3>2. PICK m : m = Min(dashes)
      OBVIOUS
    <3>3. m \in dashes /\ \A y \in dashes : m <= y
      BY <2>10, <3>1, <3>2, MinMaxWithin
    <3>4. m \in 1 .. b /\ m <= L + 1 /\ L + 1 <= m
      BY <2>10, <3>1, <3>3
    <3> QED BY <3>2, <3>4
  <2>12. SubSeq(s, 1, L) = c
    <3>1. SubSeq(s, 1, L) = [i \in 1 .. (L - 1 + 1) |-> s[i + 1 - 1]]
      BY <2>7
    <3>2. SubSeq(s, 1, L) = [i \in 1 .. L |-> c[i]]
      BY <2>8, <3>1
    <3>3. c = [i \in 1 .. L |-> c[i]]
      BY <2>3
    <3> QED BY <3>2, <3>3
  <2>13. SubSeq(s, L + 2, Len(s)) = t
    <3>1. PICK u, v : u = L + 2 /\ v = L + 1 + M /\ u \in Nat /\ v \in Nat /\ v - u + 1 = M
      OBVIOUS
    <3>2. SubSeq(s, u, v) = [i \in 1 .. (v - u + 1) |-> s[i + u - 1]]
      BY <2>7, <3>1
    <3>3. \A i \in 1 .. M : i + u - 1 = L + 1 + i
      BY <3>1
    <3>4. SubSeq(s, u, v) = [i \in 1 .. M |-> t[i]]
      BY <2>7, <3>1, <3>2, <3>3
    <3>5. t = [i \in 1 .. M |-> t[i]]
      BY <2>1, <2>3
    <3> QED BY <2>7, <3>1, <3>4, <3>5
  <2>14. Min(dashes) + 1 = L + 2 /\ Min(dashes) - 1 = L /\ dashes # {}
    BY <2>10, <2>11
  <2>15. ParseAX25Address(s) =
           IF dashes = {} THEN NewAX25Address(s, 0)
           ELSE IF ~IsNumber(SubSeq(s, Min(dashes) + 1, Len(s))) THEN Err
           ELSE NewAX25Address(SubSeq(s, 1, Min(dashes) - 1), Atoi(SubSeq(s, Min(dashes) + 1, Len(s))))
    BY DEF ParseAX25Address, dashes
  <2> QED BY Zenon, <1>2, <2>1, <2>2, <2>12, <2>13, <2>14, <2>15
<1> QED BY <1>3, <1>4

LEMMA CallsignIsAddress ==
  ASSUME NEW c \in Seq(Char), IsCallsign(c), NEW n \in 0 .. 15
  PROVE  [callsign |-> c, ssid |-> n] \in Address
<1>1. Len(c) \in 1 .. 6 /\ \A i \in 1 .. Len(c) : c[i] # Space
  BY CallsignChars
<1>2. Len(c) <= 6
  <2>1. PICK L : L = Len(c)
    OBVIOUS
  <2> QED BY <1>1, <2>1
<1> QED BY <1>1, <1>2 DEF Address

\* A name as POST accepts it is in every frame that SendFrame builds.
LEMMA NamesUs ==
  ASSUME radio \in [callsign : Seq(Char), ssid : Int]
  PROVE  FramesNameUs
<1> SUFFICES ASSUME IsCallsign(radio.callsign), radio.ssid \in 0 .. 15
             PROVE  FramesNameUs
  BY DEF FramesNameUs
<1> DEFINE info == <<1, 0>>
           digi == [callsign |-> N0CALL, ssid |-> 15]
           rfmp == [callsign |-> <<82, 70, 77, 80>>, ssid |-> 0]
           f    == CreateUIFrame(FullCallsign(radio), <<82, 70, 77, 80>>, info)
<1>1. radio.callsign \in Seq(Char) /\ radio = [callsign |-> radio.callsign, ssid |-> radio.ssid]
  OBVIOUS
<1>2. ParseAX25Address(FullCallsign(radio)) = radio /\ radio \in Address
  BY <1>1, FullCallsignParses, CallsignIsAddress
<1>3. N0CALL \in Seq(Char) /\ IsCallsign(N0CALL)
  <2>1. N0CALL \in Seq(Char) /\ Len(N0CALL) = 6
    BY DEF N0CALL, Char
  <2>2. ToSet(N0CALL) \subseteq Digits \cup Capitals
    BY DEF ToSet, N0CALL, Digits, Capitals
  <2> QED BY <2>1, <2>2 DEF IsCallsign
<1>4. rfmp.callsign \in Seq(Char) /\ IsCallsign(rfmp.callsign)
  <2>1. rfmp.callsign \in Seq(Char) /\ Len(rfmp.callsign) = 4
    BY DEF Char
  <2>2. ToSet(rfmp.callsign) \subseteq Digits \cup Capitals
    BY DEF ToSet, Digits, Capitals
  <2> QED BY <2>1, <2>2 DEF IsCallsign
<1>5. digi \in Address
  <2>1. 15 \in 0 .. 15
    OBVIOUS
  <2> QED BY <1>3, <2>1, CallsignIsAddress
<1>6. rfmp \in Address /\ ParseAX25Address(<<82, 70, 77, 80>>) = rfmp
  <2>1. 0 \in 0 .. 15 /\ rfmp.callsign = <<82, 70, 77, 80>>
    OBVIOUS
  <2>2. rfmp \in Address
    BY <1>4, <2>1, CallsignIsAddress
  <2>3. FullCallsign(rfmp) = <<82, 70, 77, 80>>
    BY DEF FullCallsign
  <2>4. ParseAX25Address(FullCallsign(rfmp)) = rfmp
    BY <1>4, <2>1, FullCallsignParses
  <2> QED BY <2>2, <2>3, <2>4
<1>7. info \in Seq(Int) /\ \A path \in {<<>>, <<digi>>, <<digi, digi>>} : path \in Seq(Address)
  <2> HIDE DEF Address, digi
  <2> QED BY <1>5
<1>8. radio # Err /\ rfmp # Err
  <2>1. DOMAIN radio = {"callsign", "ssid"} /\ DOMAIN rfmp = {"callsign", "ssid"} /\ DOMAIN Err = {"error"}
    BY <1>1 DEF Err
  <2> QED BY <2>1
<1> HIDE DEF rfmp, digi, Address
<1>9. f = [destination |-> rfmp, source |-> radio, digipeaters |-> <<>>,
           control |-> 3, pid |-> 240, info |-> info]
  BY <1>2, <1>6, <1>8 DEF CreateUIFrame
<1>10. f # Err
  <2>1. "info" \in DOMAIN f /\ "info" \notin DOMAIN Err
    BY <1>9 DEF Err
  <2> QED BY <2>1
<1> HIDE DEF f, info
<1>11. ASSUME NEW path \in {<<>>, <<digi>>, <<digi, digi>>}
       PROVE  LET sent == [f EXCEPT !.digipeaters = path]
                  got  == DecodeAX25Frame(Encode(sent))
              IN got = sent /\ FullCallsign(got.source) = FullCallsign(radio)
  <2> DEFINE sent == [f EXCEPT !.digipeaters = path]
  <2>1. sent = [destination |-> rfmp, source |-> radio, digipeaters |-> path,
                control |-> 3, pid |-> 240, info |-> info]
    BY <1>9
  <2>2. sent \in Frame /\ sent.source = radio
    <3>1. rfmp \in Address /\ radio \in Address /\ path \in Seq(Address) /\ info \in Seq(Int)
      BY <1>2, <1>6, <1>7
    <3>2. 3 \in Int /\ 240 \in Int
      OBVIOUS
    <3> QED BY <2>1, <3>1, <3>2 DEF Frame
  <2> HIDE DEF sent
  <2>3. DecodeAX25Frame(Encode(sent)) = sent
    BY <2>2, Ax25RoundTrip
  <2> QED BY <2>2, <2>3 DEF sent
<1> QED BY <1>10, <1>11 DEF FramesNameUs, f, info, digi

(* Every receiver reads from the frames of SendFrame the name that          *)
(* handleCallsign accepted, whatever requests overlapped before.            *)
THEOREM FramesName == Spec => []FramesNameUs
<1>1. StoreInv => radio \in [callsign : Seq(Char), ssid : Int]
  BY DEF StoreInv, TypeInv, HasCallsign, TypeOK
<1>2. StoreInv => FramesNameUs
  BY <1>1, NamesUs
<1> QED BY <1>2, Invariant, PTL

=============================================================================
