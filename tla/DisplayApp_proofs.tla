-------------------------- MODULE DisplayApp_proofs --------------------------
(* Proofs about DisplayApp, for any messages and channels, any limit of an  *)
(* answer, any capacity of the channel between the goroutines, and any      *)
(* number of broadcasts and connections.                                    *)
EXTENDS DisplayApp, FiniteSetTheorems, SequenceTheorems, TLAPS

\* Messages on their way to the screen, and those the stream could not bring.
Way == ToSet(queue) \cup Of(UnreadCalls) \cup missed \cup Of(casting \ ToSet(got))

\* What list lacks of a channel is on its way.
Covers(list, ch) == Stored(ch) \subseteq ToSet(list) \cup Way

(* The request that main is blocked in belongs to the screen, and the       *)
(* answer to GetMessages, from the moment the daemon made it to the moment  *)
(* OnEnter uses it, covers its channel: what it has no place for is missed. *)
CallOK ==
  call # NoCall =>
    /\ call.op \in {"channels", "delete"} => screen = "channels"
    /\ call.op = "messages" => screen = "timeline" /\ call.arg = channel
    /\ call.op \in {"create", "delete"} => call.arg \in Name
    /\ call.op = "channels" => call.list \in Seq(Entries)
    /\ call.op = "messages" /\ call.at = "answered" =>
         /\ call.list \in Seq(saved) /\ IsInjective(call.list)
         /\ \A m \in ToSet(call.list) : ChannelOf[m] = call.arg
         /\ Covers(call.list, call.arg)

IInv ==
  /\ SelectedInRange
  /\ NoDuplicates
  /\ ShownBelongs
  /\ CallOK
  /\ Showing => Covers(shown, channel)

-----------------------------------------------------------------------------
(* Lists and sets.                                                          *)

LEMMA SeqGrows ==
  ASSUME NEW S, NEW T, S \subseteq T, NEW s \in Seq(S)
  PROVE  s \in Seq(T)
OBVIOUS

\* What a query returns: every element of a finite set, once.
LEMMA SetToSeqListsAll ==
  ASSUME NEW S, IsFiniteSet(S)
  PROVE  /\ SetToSeq(S) \in Seq(S) /\ IsInjective(SetToSeq(S))
         /\ ToSet(SetToSeq(S)) = S
<1> DEFINE n == Cardinality(S)
<1>1. n \in Nat /\ ExistsBijection(1 .. n, S)
  BY FS_CardinalityType
<1> HIDE DEF n
<1>2. \E f \in [1 .. n -> S] : IsInjective(f)
  BY <1>1 DEF ExistsBijection, Bijection, Injection, IsInjective
<1>3. SetToSeq(S) \in [1 .. n -> S] /\ IsInjective(SetToSeq(S))
  BY <1>2 DEF SetToSeq, n
<1> DEFINE s == SetToSeq(S)
<1> HIDE DEF s
<1>4. s \in Injection(1 .. n, S)
  BY <1>3 DEF Injection, IsInjective, s
<1>5. Cardinality(1 .. n) = n
  <2>1. 1 \in Int /\ n \in Int /\ (IF 1 > n THEN 0 ELSE n - 1 + 1) = n
    BY <1>1
  <2> QED BY <2>1, FS_Interval
<1>6. s \in Surjection(1 .. n, S)
  BY <1>4, <1>5, FS_Injection DEF n
<1>7. s \in Seq(S)
  BY <1>1, <1>3 DEF s
<1>8. ToSet(s) = S
  BY <1>3, <1>6 DEF ToSet, Surjection, s
<1> QED BY <1>3, <1>7, <1>8 DEF s

LEMMA AppendAdds ==
  ASSUME NEW S, NEW s \in Seq(S), NEW m \in S
  PROVE  /\ Append(s, m) \in Seq(S) /\ Len(Append(s, m)) = Len(s) + 1
         /\ Append(s, m)[Len(s) + 1] = m
         /\ \A k \in 1 .. Len(s) : Append(s, m)[k] = s[k]
         /\ ToSet(Append(s, m)) = ToSet(s) \cup {m}
<1>1. /\ Append(s, m) \in Seq(S) /\ Len(Append(s, m)) = Len(s) + 1
      /\ Append(s, m)[Len(s) + 1] = m
      /\ \A k \in 1 .. Len(s) : Append(s, m)[k] = s[k]
  OBVIOUS
<1>2. DOMAIN s = 1 .. Len(s) /\ DOMAIN Append(s, m) = 1 .. Len(s) + 1 /\ Len(s) \in Nat
  BY <1>1
<1>3. \A k \in 1 .. Len(s) + 1 : k \in 1 .. Len(s) \/ k = Len(s) + 1
  BY <1>2
<1>4. Len(s) + 1 \in 1 .. Len(s) + 1 /\ 1 .. Len(s) \subseteq 1 .. Len(s) + 1
  BY <1>2
<1> QED BY <1>1, <1>2, <1>3, <1>4 DEF ToSet

LEMMA PrependAdds ==
  ASSUME NEW S, NEW s \in Seq(S), NEW m \in S
  PROVE  /\ <<m>> \o s \in Seq(S) /\ ToSet(<<m>> \o s) = ToSet(s) \cup {m}
         /\ IsInjective(s) /\ m \notin ToSet(s) => IsInjective(<<m>> \o s)
<1> DEFINE p == <<m>> \o s
<1>1. /\ p \in Seq(S) /\ Len(p) = Len(s) + 1 /\ p[1] = m
      /\ \A k \in 1 .. Len(s) : p[k + 1] = s[k]
  OBVIOUS
<1> HIDE DEF p
<1>2. DOMAIN s = 1 .. Len(s) /\ DOMAIN p = 1 .. Len(s) + 1 /\ Len(s) \in Nat
  BY <1>1
<1>3. \A k \in 1 .. Len(s) + 1 : k = 1 \/ (k - 1 \in 1 .. Len(s) /\ p[k] = s[k - 1])
  <2>1. \A k \in 1 .. Len(s) + 1 : k = 1 \/ (k - 1 \in 1 .. Len(s) /\ (k - 1) + 1 = k)
    BY <1>2
  <2> QED BY <1>1, <2>1
<1>4. \A k \in 1 .. Len(s) : k + 1 \in DOMAIN p
  BY <1>2
<1>5. ToSet(p) = ToSet(s) \cup {m}
  <2>1. \A x \in ToSet(p) : x \in ToSet(s) \cup {m}
    BY <1>1, <1>2, <1>3 DEF ToSet
  <2>2. \A x \in ToSet(s) : x \in ToSet(p)
    BY <1>1, <1>2, <1>4 DEF ToSet
  <2>3. m \in ToSet(p)
    BY <1>1, <1>2 DEF ToSet
  <2> QED BY <2>1, <2>2, <2>3
<1>6. ASSUME IsInjective(s), m \notin ToSet(s)
      PROVE  IsInjective(p)
  <2> SUFFICES ASSUME NEW k \in DOMAIN p, NEW l \in DOMAIN p, p[k] = p[l]
               PROVE  k = l
    BY DEF IsInjective
  <2>1. \A j \in DOMAIN p : j # 1 => p[j] # m
    BY <1>2, <1>3, <1>6 DEF ToSet
  <2>2. CASE k = 1 \/ l = 1
    BY <1>1, <2>1, <2>2
  <2>3. CASE k # 1 /\ l # 1
    <3>1. k - 1 \in DOMAIN s /\ l - 1 \in DOMAIN s /\ s[k - 1] = s[l - 1]
      BY <1>2, <1>3, <2>3
    <3>2. k - 1 = l - 1
      BY <1>6, <3>1 DEF IsInjective
    <3> QED BY <1>2, <3>2
  <2> QED BY <2>2, <2>3
<1> QED BY <1>1, <1>5, <1>6 DEF p

\* The head of a queue and the rest of it.
LEMMA HeadAndTail ==
  ASSUME NEW S, NEW s \in Seq(S), s # <<>>
  PROVE  /\ Head(s) \in S /\ Tail(s) \in Seq(S) /\ Len(Tail(s)) = Len(s) - 1
         /\ ToSet(s) = ToSet(Tail(s)) \cup {Head(s)}
<1>1. /\ Head(s) = s[1] /\ Tail(s) \in Seq(S) /\ Len(Tail(s)) = Len(s) - 1
      /\ \A k \in 1 .. Len(s) - 1 : Tail(s)[k] = s[k + 1]
      /\ Len(s) \in Nat /\ Len(s) # 0 /\ DOMAIN s = 1 .. Len(s)
  OBVIOUS
<1>2. DOMAIN Tail(s) = 1 .. Len(s) - 1 /\ 1 \in DOMAIN s
  BY <1>1
<1>3. \A x \in ToSet(s) : x = s[1] \/ x \in ToSet(Tail(s))
  <2> SUFFICES ASSUME NEW k \in DOMAIN s, k # 1 PROVE s[k] \in ToSet(Tail(s))
    BY DEF ToSet
  <2>1. k - 1 \in 1 .. Len(s) - 1 /\ (k - 1) + 1 = k
    BY <1>1
  <2>2. Tail(s)[k - 1] = s[k]
    BY <1>1, <2>1
  <2> QED BY <1>2, <2>1, <2>2 DEF ToSet
<1>4. \A k \in DOMAIN Tail(s) : k + 1 \in DOMAIN s /\ Tail(s)[k] = s[k + 1]
  BY <1>1, <1>2
<1>5. ToSet(Tail(s)) \subseteq ToSet(s) /\ s[1] \in ToSet(s)
  BY <1>2, <1>4 DEF ToSet
<1> QED BY <1>1, <1>2, <1>3, <1>5

\* What follows the first n of a list.
LEMMA LaterPart ==
  ASSUME NEW S, NEW s \in Seq(S), NEW n \in 0 .. Len(s)
  PROVE  ToSet(SubSeq(s, n + 1, Len(s))) = {s[k] : k \in n + 1 .. Len(s)}
<1> DEFINE u == SubSeq(s, n + 1, Len(s))
<1>1. /\ u \in Seq(S) /\ Len(u) = Len(s) - n
      /\ \A k \in 1 .. Len(s) - n : u[k] = s[k + n]
      /\ n \in Nat /\ Len(s) \in Nat
  OBVIOUS
<1> HIDE DEF u
<1>2. DOMAIN u = 1 .. Len(s) - n
  BY <1>1
<1>3. \A k \in DOMAIN u : k + n \in n + 1 .. Len(s) /\ u[k] = s[k + n]
  BY <1>1, <1>2
<1>4. \A k \in n + 1 .. Len(s) : k - n \in DOMAIN u /\ u[k - n] = s[k]
  <2>1. \A k \in n + 1 .. Len(s) : k - n \in 1 .. Len(s) - n /\ (k - n) + n = k
    BY <1>1
  <2> QED BY <1>1, <1>2, <2>1
<1>5. ToSet(u) = {s[k] : k \in n + 1 .. Len(s)}
  BY <1>3, <1>4 DEF ToSet
<1> QED BY <1>5 DEF u

-----------------------------------------------------------------------------
LEMMA InitIInv == Init => IInv
<1> SUFFICES ASSUME Init PROVE IInv
  OBVIOUS
<1> USE DEF Init, Stream!Init
<1>1. call # NoCall /\ call \in Calls
  BY DEF NoCall, Ask, Calls
<1>2. TypeOK
  <2>1. MaxDials \in Nat /\ Cap \in Nat /\ MaxCasts \in Nat
    BY DisplayAssumption
  <2>2. 0 \in 0 .. MaxDials /\ 0 \in 0 .. Len(<<>>) /\ Len(<<>>) <= Cap
        /\ Len(<<>>) <= MaxCasts
    BY <2>1
  <2>3. \A S : <<>> \in Seq(S)
    OBVIOUS
  <2>4. /\ casts \in Seq(Message) /\ got \in Seq(DOMAIN casts) /\ queue \in Seq(handled)
        /\ shown \in Seq(handled) /\ listed \in Seq(Entries)
    BY <2>3
  <2>5. nread \in 0 .. Len(got) /\ dials \in 0 .. MaxDials /\ Len(queue) <= Cap /\ Len(casts) <= MaxCasts
    BY <2>2
  <2>6. /\ casting \subseteq DOMAIN casts /\ rows \subseteq Name
        /\ received \in [Message -> Second \cup {0}] /\ saved \subseteq handled
        /\ line \in {"none", "dialled", "up", "gone"}
        /\ screen \in {"channels", "timeline", "compose", "create"}
        /\ channel \in Name \cup {NoName}
    BY DEF saved
  <2>7. selected \in Nat \ {0} /\ missed \subseteq handled
    OBVIOUS
  <2>8. stale \in BOOLEAN
    <3>1. stale = FALSE
      OBVIOUS
    <3> QED BY <3>1, Zenon
  <2> HIDE DEF Init, Stream!Init
  <2> QED BY <1>1, <2>4, <2>5, <2>6, <2>7, <2>8 DEF TypeOK
<1>3. call.op = "channels" /\ call.list = <<>> /\ screen = "channels" /\ <<>> \in Seq(Entries)
  BY DEF Ask
<1>4. SelectedInRange /\ NoDuplicates /\ ShownBelongs /\ (Showing => Covers(shown, channel))
  BY <1>1, <1>2 DEF SelectedInRange, Ready, NoDuplicates, IsInjective, ShownBelongs, Showing
<1>5. CallOK
  BY <1>3 DEF CallOK
<1> QED BY <1>4, <1>5 DEF IInv

-----------------------------------------------------------------------------
(* What happens away from the screen: the daemon, the stream, readLoop.     *)

\* The facts about the types that the steps need.
LEMMA Types ==
  ASSUME IInv
  PROVE  /\ TypeOK /\ saved \subseteq handled /\ casting \subseteq DOMAIN casts
         /\ casts \in Seq(Message) /\ DOMAIN casts = 1 .. Len(casts)
         /\ \A b \in DOMAIN casts : casts[b] \in handled
         /\ got \in Seq(DOMAIN casts) /\ nread \in 0 .. Len(got)
         /\ UnreadCalls = {got[k] : k \in nread + 1 .. Len(got)}
         /\ ToSet(got) \subseteq DOMAIN casts /\ UnreadCalls \subseteq DOMAIN casts
<1>1. TypeOK
  BY DEF IInv, SelectedInRange
<1>2. /\ got \in Seq(DOMAIN casts) /\ nread \in 0 .. Len(got)
      /\ saved \subseteq handled /\ casting \subseteq DOMAIN casts /\ casts \in Seq(Message)
  BY <1>1 DEF TypeOK
<1>3. DOMAIN casts = 1 .. Len(casts) /\ \A b \in DOMAIN casts : casts[b] \in handled
  BY <1>2 DEF handled, ToSet
<1>4. UnreadCalls = {got[k] : k \in nread + 1 .. Len(got)}
  BY <1>2, LaterPart DEF UnreadCalls
<1>5. ToSet(got) \subseteq DOMAIN casts
  BY <1>2 DEF ToSet
<1>6. UnreadCalls \subseteq DOMAIN casts
  <2>1. \A k \in nread + 1 .. Len(got) : k \in 1 .. Len(got)
    BY <1>2
  <2> QED BY <1>2, <1>4, <2>1
<1> QED BY <1>1, <1>2, <1>3, <1>4, <1>5, <1>6

\* A step that takes nothing from the way, and puts on it what it saves.
LEMMA AwayStep ==
  ASSUME IInv, TypeOK',
         UNCHANGED <<screen, channel, shown, listed, selected, stale>>,
         Way \subseteq Way', saved \subseteq saved', saved' \subseteq saved \cup Way',
         \/ UNCHANGED call
         \/ /\ call # NoCall /\ call' # NoCall
            /\ call.op = "post" /\ call'.op = "post"
  PROVE  IInv'
<1>1. ASSUME NEW list, NEW ch, Covers(list, ch)
      PROVE  Stored(ch)' \subseteq ToSet(list) \cup Way'
  BY <1>1 DEF Covers, Stored, saved
<1>2. SelectedInRange' /\ NoDuplicates' /\ ShownBelongs'
  BY DEF IInv, SelectedInRange, Ready, NoDuplicates, ShownBelongs, Showing
<1>3. (Showing => Covers(shown, channel))'
  <2>1. Showing' => Showing
    BY DEF Showing
  <2>2. Showing => Stored(channel)' \subseteq ToSet(shown) \cup Way'
    BY <1>1 DEF IInv
  <2> QED BY <2>1, <2>2 DEF Covers, Stored, saved
<1>4. CallOK'
  <2>1. CASE UNCHANGED call
    <3>1. call # NoCall /\ call.op = "messages" /\ call.at = "answered" =>
            /\ call.list \in Seq(saved')
            /\ Stored(call.arg)' \subseteq ToSet(call.list) \cup Way'
      BY <1>1, SeqGrows DEF IInv, CallOK
    <3> QED BY <2>1, <3>1 DEF IInv, CallOK, Covers, Stored
  <2>2. CASE ~ UNCHANGED call
    BY <2>2 DEF IInv, CallOK
  <2> QED BY <2>1, <2>2
<1> QED BY <1>2, <1>3, <1>4 DEF IInv

\* A message comes in: it is being broadcast, and on no connection yet.
LEMMA EntersStep ==
  ASSUME IInv, NEW m \in Message, Arrives(m) \/ ServePost(m)
  PROVE  IInv'
<1> DEFINE b == Len(casts')
<1>1. /\ Len(casts) < MaxCasts /\ casts' = Append(casts, m) /\ casting' = casting \cup {b}
      /\ UNCHANGED <<line, got, nread, dials, queue, missed, screen, channel, shown, listed, selected, stale>>
      /\ \/ Saved(m)
         \/ UNCHANGED <<received, rows>>
  BY DEF Arrives, ServePost, Enters, Stream!Begin, wsVars, appVars
<1>2. casts \in Seq(Message) /\ DOMAIN casts = 1 .. Len(casts) /\ Len(casts) \in Nat /\ MaxCasts \in Nat
  BY Types, DisplayAssumption
<1>3. /\ casts' \in Seq(Message) /\ b = Len(casts) + 1 /\ casts'[b] = m
      /\ DOMAIN casts' = 1 .. b
      /\ \A k \in DOMAIN casts : casts'[k] = casts[k]
      /\ handled' = handled \cup {m}
  <2>1. /\ casts' \in Seq(Message) /\ b = Len(casts) + 1 /\ casts'[Len(casts) + 1] = m
        /\ \A k \in 1 .. Len(casts) : casts'[k] = casts[k]
        /\ ToSet(casts') = ToSet(casts) \cup {m}
    BY <1>1, <1>2, AppendAdds
  <2>2. DOMAIN casts' = 1 .. b
    BY <2>1
  <2> QED BY <1>2, <2>1, <2>2 DEF handled
<1> HIDE DEF b
<1>4. b \in Call /\ b \notin DOMAIN casts /\ DOMAIN casts \subseteq DOMAIN casts' /\ b \in DOMAIN casts'
  BY <1>1, <1>2, <1>3 DEF Call
<1>5. /\ received' \in [Message -> Second \cup {0}] /\ rows' \subseteq Name
      /\ saved \subseteq saved' /\ saved' \subseteq saved \cup {m}
  <2>1. received \in [Message -> Second \cup {0}] /\ rows \subseteq Name
    BY Types DEF TypeOK
  <2>2. ChannelOf[m] \in Name /\ Second \subseteq Nat \ {0}
    BY DisplayAssumption
  <2>3. CASE Saved(m) /\ m \notin saved
    <3>1. PICK now \in Second : received' = [received EXCEPT ![m] = now]
      BY <2>3 DEF Saved
    <3>2. received' \in [Message -> Second \cup {0}] /\ received'[m] # 0
          /\ \A x \in Message : x # m => received'[x] = received[x]
      BY <2>1, <2>2, <3>1
    <3>3. rows' \subseteq Name
      BY <2>1, <2>2, <2>3 DEF Saved
    <3> QED BY <2>3, <3>2, <3>3 DEF saved
  <2>4. CASE Saved(m) /\ m \in saved
    BY <2>1, <2>2, <2>4 DEF Saved, saved
  <2>5. CASE UNCHANGED <<received, rows>>
    BY <2>1, <2>5 DEF saved
  <2> QED BY <1>1, <2>3, <2>4, <2>5
<1>6. /\ UNCHANGED call
      \/ /\ call # NoCall /\ call' # NoCall /\ call' \in Calls
         /\ call.op = "post" /\ call'.op = "post"
  <2>1. CASE Arrives(m)
    BY <2>1 DEF Arrives, appVars
  <2>2. CASE ServePost(m)
    <3>1. call \in Calls /\ call # NoCall /\ call.op = "post"
      BY <2>2, Types DEF ServePost, Sent, TypeOK
    <3>2. call' = [call EXCEPT !.at = "served", !.cast = b]
      BY <2>2 DEF ServePost, b
    <3>3. call' \in Calls /\ call'.op = "post"
      BY <1>4, <3>1, <3>2 DEF Calls
    <3>4. call' # NoCall
      BY <3>3 DEF NoCall, Calls
    <3> QED BY <3>1, <3>3, <3>4
  <2> QED BY <2>1, <2>2
<1>7. TypeOK'
  <2>1. got \in Seq(DOMAIN casts') /\ queue \in Seq(handled') /\ shown \in Seq(handled')
    BY <1>3, <1>4, Types, SeqGrows DEF TypeOK
  <2>2. Len(casts') <= MaxCasts
    BY <1>1, <1>2, <1>3 DEF b
  <2>3. casting' \subseteq DOMAIN casts' /\ saved' \subseteq handled' /\ missed' \subseteq handled'
    BY <1>1, <1>3, <1>4, <1>5, Types DEF TypeOK
  <2>4. call' \in Calls \cup {NoCall}
    BY <1>6, Types DEF TypeOK
  <2> QED BY <1>1, <1>3, <1>5, <2>1, <2>2, <2>3, <2>4, Types DEF TypeOK
<1>8. Way \subseteq Way' /\ m \in Way'
  <2>1. b \in casting' \ ToSet(got')
    BY <1>1, <1>4, Types
  <2>2. UnreadCalls' = UnreadCalls /\ got' = got /\ casting \subseteq casting'
    BY <1>1 DEF UnreadCalls
  <2>3. m \in (Of(casting \ ToSet(got)))'
    BY <1>3, <2>1 DEF Of
  <2>4. Of(UnreadCalls) \subseteq (Of(UnreadCalls))'
    BY <1>3, <2>2, Types DEF Of
  <2>5. Of(casting \ ToSet(got)) \subseteq (Of(casting \ ToSet(got)))'
    BY <1>3, <2>2, Types DEF Of
  <2> QED BY <1>1, <2>3, <2>4, <2>5 DEF Way
<1> QED BY <1>1, <1>5, <1>6, <1>7, <1>8, AwayStep

LEMMA BringStep ==
  ASSUME IInv, NEW b \in Call, Bring(b)
  PROVE  IInv'
<1>1. /\ b \in casting /\ got' = Append(got, b)
      /\ UNCHANGED <<casts, received, handled, saved, casting, line, rows, nread, dials, queue,
                     screen, call, channel, shown, listed, selected, stale, missed>>
  BY DEF Bring, Stream!Bring, wsVars, appVars, handled, saved
<1>2. b \in DOMAIN casts /\ got \in Seq(DOMAIN casts)
  BY <1>1, Types
<1>3. /\ got' \in Seq(DOMAIN casts) /\ Len(got') = Len(got) + 1 /\ got'[Len(got) + 1] = b
      /\ \A k \in 1 .. Len(got) : got'[k] = got[k]
      /\ ToSet(got') = ToSet(got) \cup {b}
  BY <1>1, <1>2, AppendAdds
<1>4. nread \in 0 .. Len(got') /\ Len(got) \in Nat /\ nread \in 0 .. Len(got)
  BY <1>2, <1>3, Types
<1>5. TypeOK'
  BY <1>1, <1>3, <1>4, Types DEF TypeOK
<1>6. Way \subseteq Way'
  <2>1. UnreadCalls' = {got'[k] : k \in nread + 1 .. Len(got')}
    <3>1. ToSet(SubSeq(got', nread + 1, Len(got'))) = {got'[k] : k \in nread + 1 .. Len(got')}
      BY <1>3, <1>4, LaterPart
    <3> QED BY <1>1, <3>1 DEF UnreadCalls
  <2>2. UnreadCalls \subseteq UnreadCalls' /\ b \in UnreadCalls'
    <3>1. \A k \in nread + 1 .. Len(got) : k \in nread + 1 .. Len(got') /\ got'[k] = got[k]
      BY <1>3, <1>4
    <3>2. Len(got) + 1 \in nread + 1 .. Len(got')
      BY <1>3, <1>4
    <3> QED BY <1>3, <2>1, <3>1, <3>2, Types
  <2>3. \A c \in casting \ ToSet(got) : c \in casting' \ ToSet(got') \/ c \in UnreadCalls'
    BY <1>1, <1>3, <2>2
  <2>4. Of(UnreadCalls) \subseteq (Of(UnreadCalls))'
    BY <1>1, <2>2 DEF Of
  <2>5. Of(casting \ ToSet(got)) \subseteq (Of(UnreadCalls))' \cup (Of(casting \ ToSet(got)))'
    BY <1>1, <2>3 DEF Of
  <2> QED BY <1>1, <2>4, <2>5 DEF Way
<1> QED BY <1>1, <1>5, <1>6, AwayStep

LEMMA EndStep ==
  ASSUME IInv, NEW b \in Call, End(b)
  PROVE  IInv'
<1>1. /\ b \in casting /\ casting' = casting \ {b}
      /\ missed' = IF b \in ToSet(got) THEN missed ELSE missed \cup {casts[b]}
      /\ UNCHANGED <<casts, received, handled, saved, line, got, rows, nread, dials, queue,
                     screen, channel, shown, listed, selected, stale>>
  BY DEF End, Stream!End, Stream!ToSet, ToSet, wsVars, handled, saved
<1>2. \/ UNCHANGED call
      \/ /\ call # NoCall /\ call' # NoCall /\ call' \in Calls
         /\ call.op = "post" /\ call'.op = "post"
  <2>1. CASE call.op = "post" /\ call.at = "served" /\ call.cast = b
    <3>1. call' = [call EXCEPT !.at = "answered"]
      BY <2>1 DEF End
    <3>2. call \in Calls /\ call # NoCall
      BY <2>1, Types DEF TypeOK, NoCall
    <3>3. call' \in Calls /\ call'.op = "post"
      BY <2>1, <3>1, <3>2 DEF Calls
    <3>4. call' # NoCall
      BY <3>3 DEF NoCall, Calls
    <3> QED BY <2>1, <3>2, <3>3, <3>4
  <2>2. CASE ~(call.op = "post" /\ call.at = "served" /\ call.cast = b)
    BY <2>2 DEF End
  <2> QED BY <2>1, <2>2
<1>3. TypeOK'
  <2>1. casts[b] \in handled
    BY <1>1, Types
  <2> QED BY <1>1, <1>2, <2>1, Types DEF TypeOK
<1>4. Way \subseteq Way'
  <2>1. \A c \in casting \ ToSet(got) : c \in casting' \ ToSet(got') \/ casts[c] \in missed'
    BY <1>1
  <2>2. Of(casting \ ToSet(got)) \subseteq missed' \cup (Of(casting \ ToSet(got)))'
    BY <1>1, <2>1 DEF Of
  <2>3. (Of(UnreadCalls))' = Of(UnreadCalls) /\ missed \subseteq missed'
    BY <1>1 DEF Of, UnreadCalls
  <2> QED BY <1>1, <2>2, <2>3 DEF Way
<1> QED BY <1>1, <1>2, <1>3, <1>4, AwayStep

\* Other clients, the line and Dial: nothing moves on the way.
LEMMA LineStep ==
  ASSUME IInv, LineMoves \/ Dial \/ \E ch \in Name : OthersChange(ch)
  PROVE  IInv'
<1>1. /\ UNCHANGED <<casts, received, handled, saved, casting, got, nread, queue,
                     screen, call, channel, shown, listed, selected, stale, missed>>
      /\ line' \in {"none", "dialled", "up", "gone"} /\ rows' \subseteq Name
      /\ dials' \in 0 .. MaxDials
  <2>1. line \in {"none", "dialled", "up", "gone"} /\ rows \subseteq Name
        /\ dials \in 0 .. MaxDials
    BY Types DEF TypeOK
  <2>2. CASE LineMoves
    BY <2>1, <2>2 DEF LineMoves, Stream!Listed, Stream!Lost, Stream!Moves, wsVars, appVars, handled, saved
  <2>3. CASE Dial
    BY <2>1, <2>3, DisplayAssumption DEF Dial, Stream!Dial, Stream!Moves, appVars, handled, saved
  <2>4. CASE \E ch \in Name : OthersChange(ch)
    BY <2>1, <2>4 DEF OthersChange, wsVars, appVars, handled, saved
  <2> QED BY <2>2, <2>3, <2>4
<1>2. TypeOK'
  BY <1>1, Types DEF TypeOK
<1>3. Way \subseteq Way'
  BY <1>1 DEF Way, UnreadCalls, Of
<1> QED BY <1>1, <1>2, <1>3, AwayStep

LEMMA ReadStep ==
  ASSUME IInv, Read
  PROVE  IInv'
<1> DEFINE b == got[nread + 1]
           m == casts[b]
<1>1. /\ nread < Len(got) /\ nread' = nread + 1
      /\ \/ Len(queue) < Cap /\ queue' = Append(queue, m) /\ UNCHANGED missed
         \/ missed' = missed \cup {m} /\ UNCHANGED queue
      /\ UNCHANGED <<casts, received, handled, saved, casting, line, got, rows, dials,
                     screen, call, channel, shown, listed, selected, stale>>
  BY DEF Read, Incoming, daemonVars, appVars, handled, saved
<1>2. got \in Seq(DOMAIN casts) /\ nread \in Nat /\ Len(got) \in Nat /\ queue \in Seq(handled)
      /\ Len(queue) <= Cap /\ Cap \in Nat
  BY Types, DisplayAssumption DEF TypeOK
<1>3. nread + 1 \in DOMAIN got /\ nread + 1 \in 0 .. Len(got)
  BY <1>1, <1>2
<1>4. b \in DOMAIN casts /\ m \in handled
  BY <1>2, <1>3, Types
<1> HIDE DEF m
<1>5. TypeOK'
  <2>1. queue' \in Seq(handled) /\ Len(queue') <= Cap
    BY <1>1, <1>2, <1>4, AppendAdds
  <2> QED BY <1>1, <1>3, <1>4, <2>1, Types DEF TypeOK
<1>6. Way \subseteq Way'
  <2>1. UnreadCalls' = {got[k] : k \in (nread + 1) + 1 .. Len(got)}
    BY <1>1, <1>2, <1>3, LaterPart DEF UnreadCalls
  <2>2. \A k \in nread + 1 .. Len(got) : k = nread + 1 \/ k \in (nread + 1) + 1 .. Len(got)
    BY <1>2
  <2>3. UnreadCalls \subseteq UnreadCalls' \cup {b}
    BY <2>1, <2>2, Types
  <2>4. Of(UnreadCalls) \subseteq (Of(UnreadCalls))' \cup {m}
    BY <1>1, <2>3 DEF Of, m
  <2>5. /\ ToSet(queue) \subseteq ToSet(queue') /\ missed \subseteq missed'
        /\ m \in ToSet(queue') \cup missed'
    <3>1. ToSet(Append(queue, m)) = ToSet(queue) \cup {m}
      BY <1>2, <1>4, AppendAdds
    <3> QED BY <1>1, <3>1
  <2>6. (Of(casting \ ToSet(got)))' = Of(casting \ ToSet(got))
    BY <1>1 DEF Of
  <2> QED BY <2>4, <2>5, <2>6 DEF Way
<1> QED BY <1>1, <1>5, <1>6, AwayStep

LEMMA LinkStep ==
  ASSUME IInv, LinkBreaks
  PROVE  IInv'
<1>1. /\ line' = "none" /\ got' = <<>> /\ nread' = 0 /\ missed' = missed \cup Of(UnreadCalls)
      /\ UNCHANGED <<casts, received, handled, saved, casting, rows, dials, queue,
                     screen, call, channel, shown, listed, selected, stale>>
  BY DEF LinkBreaks, appVars, handled, saved
<1>2. Of(UnreadCalls) \subseteq handled
  BY Types DEF Of
<1>3. TypeOK'
  BY <1>1, <1>2, Types DEF TypeOK
<1>4. Way \subseteq Way'
  <2>1. ToSet(got') = {}
    BY <1>1 DEF ToSet
  <2>2. Of(casting \ ToSet(got)) \subseteq (Of(casting \ ToSet(got)))'
    BY <1>1, <2>1 DEF Of
  <2> QED BY <1>1, <2>2 DEF Way
<1> QED BY <1>1, <1>3, <1>4, AwayStep

-----------------------------------------------------------------------------
(* Requests.                                                                *)

LEMMA AnsweredIs ==
  ASSUME call \in Calls, NEW list \in Seq(Message) \cup Seq(Entries), Answered(list)
  PROVE  /\ call' \in Calls /\ call' # NoCall
         /\ call'.op = call.op /\ call'.arg = call.arg
         /\ call'.at = "answered" /\ call'.list = list
<1>1. call' = [call EXCEPT !.at = "answered", !.list = list]
  BY DEF Answered
<1>2. /\ call' \in Calls
      /\ call'.op = call.op /\ call'.arg = call.arg
      /\ call'.at = "answered" /\ call'.list = list
  BY <1>1 DEF Calls
<1>3. call' # NoCall
  BY <1>2 DEF NoCall, Calls
<1> QED BY <1>2, <1>3

LEMMA AskIs ==
  ASSUME NEW op \in {"channels", "messages", "post", "create", "delete"},
         NEW arg \in Name \cup {NoName}
  PROVE  /\ Ask(op, arg) \in Calls /\ Ask(op, arg) # NoCall
         /\ Ask(op, arg).op = op /\ Ask(op, arg).arg = arg
         /\ Ask(op, arg).at = "sent" /\ Ask(op, arg).list = <<>>
<1>1. /\ Ask(op, arg).op = op /\ Ask(op, arg).arg = arg
      /\ Ask(op, arg).at = "sent" /\ Ask(op, arg).list = <<>>
  BY DEF Ask
<1>2. Ask(op, arg) \in Calls
  BY DEF Ask, Calls
<1>3. Ask(op, arg) # NoCall
  BY <1>2 DEF NoCall, Calls
<1> QED BY <1>1, <1>2, <1>3

(* What GetMessages is answered: stored messages of the channel, each once, *)
(* no more than the limit.                                                  *)
LEMMA NewestListed ==
  ASSUME NEW ch, NEW list \in Newest(ch)
  PROVE  list \in Seq(Stored(ch)) /\ IsInjective(list) /\ ToSet(list) \subseteq Stored(ch)
<1>1. list \in SeqOf(Stored(ch), Limit) /\ IsInjective(list)
  BY DEF Newest
<1>2. PICK n \in 0 .. Limit : list \in [1 .. n -> Stored(ch)]
  BY <1>1 DEF SeqOf
<1>3. n \in Nat
  BY <1>2, DisplayAssumption
<1>4. list \in Seq(Stored(ch))
  BY <1>2, <1>3
<1> QED BY <1>1, <1>2, <1>4 DEF ToSet

(* The daemon answers.  What a channel holds then is in the answer to       *)
(* GetMessages, or counted as missed because it was too old.                *)
LEMMA AnswerStep ==
  ASSUME IInv, Answer
  PROVE  IInv'
<1>1. /\ UNCHANGED <<casts, received, handled, saved, casting, line, got, nread, dials, queue,
                     screen, channel, shown, listed, selected, stale>>
  BY DEF Answer, wsVars, handled, saved
<1>2. TypeOK /\ call \in Calls /\ call # NoCall /\ missed \subseteq handled
  BY Types DEF TypeOK, Answer, AnswerChannels, AnswerMessages, AnswerCreate, AnswerDelete, Sent
<1>3. \A ch : Stored(ch)' = Stored(ch) /\ Stored(ch) \subseteq saved /\ Stored(ch) \subseteq Message
  BY <1>1 DEF Stored, saved
<1>4. saved \subseteq handled
  BY Types
<1>5. /\ call' \in Calls /\ call' # NoCall /\ rows' \subseteq Name
      /\ call'.op = call.op /\ call'.arg = call.arg
      /\ missed \subseteq missed' /\ missed' \subseteq handled
      /\ call.op = "channels" => call'.list \in Seq(Entries)
      /\ call.op = "messages" =>
           /\ call'.list \in Seq(saved) /\ IsInjective(call'.list)
           /\ ToSet(call'.list) \subseteq Stored(call.arg)
           /\ Stored(call.arg) \subseteq ToSet(call'.list) \cup missed'
  <2>1. rows \subseteq Name
    BY <1>2 DEF TypeOK
  <2>2. <<>> \in Seq(Message)
    OBVIOUS
  <2>3. CASE AnswerChannels
    <3> DEFINE E(ch) == Entry(ch, Stored(ch) = {})
               all == {E(ch) : ch \in rows}
               f == [ch \in rows |-> E(ch)]
    <3>1. all \subseteq Entries
      <4>1. \A ch \in rows : E(ch) \in Entries
        <5>1. \A ch : (Stored(ch) = {}) \in BOOLEAN
          BY Zenon
        <5> QED BY <2>1, <5>1, Zenon DEF Entry, Entries
      <4> QED BY <4>1
    <3>2. IsFiniteSet(all)
      <4>1. f \in Surjection(rows, all)
        <5> HIDE DEF E
        <5> QED BY DEF Surjection
      <4>2. IsFiniteSet(rows)
        BY <2>1, FS_Subset, DisplayAssumption
      <4> HIDE DEF f, all
      <4> QED BY <4>1, <4>2, FS_Surjection
    <3>3. Answered(SetToSeq(all)) /\ UNCHANGED <<rows, missed>> /\ call.op = "channels"
      BY <2>3 DEF AnswerChannels, Sent
    <3> HIDE DEF all
    <3>4. SetToSeq(all) \in Seq(Entries)
      BY <3>1, <3>2, SetToSeqListsAll, SeqGrows
    <3> QED BY <1>2, <2>1, <3>3, <3>4, AnsweredIs
  <2>4. CASE AnswerMessages
    <3>1. UNCHANGED rows /\ call.op = "messages"
      BY <2>4 DEF AnswerMessages, Sent
    <3>2. PICK list \in Newest(call.arg) :
            Answered(list) /\ missed' = missed \cup (Stored(call.arg) \ ToSet(list))
      BY <2>4 DEF AnswerMessages
    <3>3. /\ list \in Seq(Stored(call.arg)) /\ IsInjective(list)
          /\ ToSet(list) \subseteq Stored(call.arg)
      BY <3>2, NewestListed
    <3>4. list \in Seq(saved) /\ list \in Seq(Message)
      BY <1>3, <3>3, SeqGrows
    <3>5. missed' \subseteq handled
      BY <1>2, <1>3, <1>4, <3>2
    <3> QED BY <1>2, <2>1, <3>1, <3>2, <3>3, <3>4, <3>5, AnsweredIs
  <2>5. CASE AnswerCreate
    <3>1. /\ Answered(<<>>) /\ UNCHANGED missed
          /\ rows' = rows \cup {call.arg} /\ call.op = "create" /\ call.arg \in Name
      BY <1>2, <2>5 DEF AnswerCreate, Sent, IInv, CallOK
    <3> QED BY <1>2, <2>1, <2>2, <3>1, AnsweredIs
  <2>6. CASE AnswerDelete
    <3>1. Answered(<<>>) /\ UNCHANGED missed /\ rows' \subseteq rows /\ call.op = "delete"
      BY <2>6 DEF AnswerDelete, Sent
    <3> QED BY <1>2, <2>1, <2>2, <3>1, AnsweredIs
  <2> QED BY <2>3, <2>4, <2>5, <2>6 DEF Answer
<1>6. TypeOK' /\ missed' \subseteq Way'
  BY <1>1, <1>2, <1>5 DEF TypeOK, Way
<1>7. SelectedInRange' /\ NoDuplicates' /\ ShownBelongs' /\ ~Showing'
  BY <1>1, <1>5, <1>6 DEF IInv, SelectedInRange, Ready, NoDuplicates, ShownBelongs, Showing
<1>8. CallOK'
  <2>1. Stored(call.arg)' = Stored(call.arg)
    BY <1>1, <1>5 DEF Stored
  <2>2. \A m \in Stored(call.arg) : ChannelOf[m] = call.arg
    BY DEF Stored
  <2>3. call.op = "messages" =>
          /\ call'.list \in Seq(saved') /\ IsInjective(call'.list)
          /\ \A m \in ToSet(call'.list) : ChannelOf[m] = call'.arg
          /\ Covers(call.list, call.arg)'
    BY <1>1, <1>5, <1>6, <2>1, <2>2 DEF Covers
  <2> QED BY <1>1, <1>2, <1>5, <2>3 DEF IInv, CallOK
<1> QED BY <1>7, <1>8 DEF IInv

\* A key, or the end of a request, that sends a request.
LEMMA AskStep ==
  ASSUME IInv, NEW op \in {"channels", "messages", "post", "create", "delete"},
         NEW arg \in Name \cup {NoName},
         UNCHANGED <<casts, received, casting, line, got, rows, nread, dials, queue, missed,
                     shown, listed, stale>>,
         call' = Ask(op, arg),
         screen' \in {"channels", "timeline", "compose", "create"},
         channel' \in Name \cup {NoName}, selected' \in Nat \ {0},
         op \in {"channels", "delete"} => screen' = "channels",
         op = "messages" => screen' = "timeline" /\ arg = channel',
         op \in {"create", "delete"} => arg \in Name
  PROVE  IInv'
<1>1. /\ call' \in Calls /\ call' # NoCall /\ call'.op = op /\ call'.arg = arg
      /\ call'.at = "sent" /\ call'.list = <<>>
  BY AskIs
<1>2. TypeOK'
  BY <1>1, Types DEF TypeOK, handled, saved
<1>3. SelectedInRange' /\ ShownBelongs' /\ ~Showing'
  BY <1>1, <1>2 DEF SelectedInRange, Ready, ShownBelongs, Showing
<1>4. NoDuplicates'
  BY DEF IInv, NoDuplicates
<1>5. CallOK'
  <2>1. <<>> \in Seq(Entries)
    OBVIOUS
  <2> QED BY <1>1, <2>1 DEF CallOK
<1> QED BY <1>3, <1>4, <1>5 DEF IInv

\* A step of the selection, and the screens that ask nothing.
LEMMA KeyStep ==
  ASSUME IInv, Key
  PROVE  IInv'
<1>1. TypeOK /\ screen \in {"channels", "timeline", "compose", "create"}
      /\ channel \in Name \cup {NoName} /\ selected \in Nat \ {0} /\ listed \in Seq(Entries)
  BY Types DEF TypeOK
<1>2. CASE OpenChannels
  BY <1>2, <1>1, AskStep DEF OpenChannels, daemon, daemonVars, wsVars
<1>3. ASSUME NEW ch \in Name \cup {NoName}, OpenTimeline(ch) PROVE IInv'
  BY <1>3, <1>1, AskStep DEF OpenTimeline, daemon, daemonVars, wsVars
<1>4. ASSUME call = NoCall, \/ screen = "channels" /\ Opens("create")
                            \/ screen = "timeline" /\ Opens("compose")
      PROVE  IInv'
  <2>1. /\ UNCHANGED <<casts, received, handled, saved, casting, line, got, rows, nread, dials, queue, missed,
                       call, channel, shown, listed, selected, stale>>
        /\ screen' \in {"create", "compose"} /\ (screen' = "compose" => screen = "timeline")
    BY <1>4 DEF Opens, daemon, daemonVars, wsVars, handled, saved
  <2>2. TypeOK'
    BY <1>1, <2>1 DEF TypeOK
  <2>3. Way' = Way /\ (Showing' => Showing)
    BY <1>4, <2>1 DEF Way, UnreadCalls, Of, Showing
  <2>4. SelectedInRange' /\ NoDuplicates' /\ ShownBelongs' /\ CallOK'
    BY <1>4, <2>1, <2>2, <2>3 DEF IInv, SelectedInRange, Ready, NoDuplicates, ShownBelongs, CallOK
  <2>5. (Showing => Covers(shown, channel))'
    BY <2>1, <2>3 DEF IInv, Covers, Stored, saved
  <2> QED BY <2>4, <2>5 DEF IInv
<1>5. ASSUME call = NoCall, screen = "channels", NEW i, Select(i) PROVE IInv'
  <2>1. /\ UNCHANGED <<casts, received, handled, saved, casting, line, got, rows, nread, dials, queue, missed,
                       screen, call, channel, shown, listed, stale>>
        /\ selected' = i /\ i \in 1 .. Len(listed)
    BY <1>5 DEF Select, daemon, daemonVars, wsVars, handled, saved
  <2>2. Len(listed) \in Nat
    BY <1>1
  <2>3. TypeOK' /\ selected' <= Len(listed)
    BY <1>1, <2>1, <2>2 DEF TypeOK
  <2>4. ~Showing /\ ~Showing'
    BY <1>5, <2>1 DEF Showing
  <2>5. CallOK'
    BY <1>5, <2>1 DEF CallOK
  <2> QED BY <2>1, <2>3, <2>4, <2>5 DEF IInv, SelectedInRange, Ready, NoDuplicates, ShownBelongs
<1>6. ASSUME call = NoCall, screen = "channels", listed # <<>> PROVE Chosen.name \in Name
  <2>1. selected <= Len(listed) /\ Len(listed) \in Nat
    BY <1>1, <1>6 DEF IInv, SelectedInRange, Ready
  <2>2. selected \in 1 .. Len(listed)
    BY <1>1, <2>1
  <2>3. listed[selected] \in Entries
    BY <1>1, <2>2
  <2> QED BY <2>3 DEF Chosen, Entries
<1>7. CASE KeyInChannels
  <2>1. call = NoCall /\ screen = "channels"
    BY <1>7 DEF KeyInChannels, Ready
  <2>2. CASE Select(selected + 1) \/ Select(selected - 1)
    BY <1>5, <2>1, <2>2
  <2>3. CASE listed # <<>> /\ OpenTimeline(Chosen.name)
    BY <1>3, <1>6, <2>1, <2>3
  <2>4. CASE Opens("create")
    BY <1>4, <2>1, <2>4
  <2>5. CASE listed # <<>> /\ Request("delete", Chosen.name)
    <3>1. Chosen.name \in Name
      BY <1>6, <2>1, <2>5
    <3>2. /\ call' = Ask("delete", Chosen.name)
          /\ UNCHANGED <<casts, received, casting, line, got, rows, nread, dials, queue, missed,
                         screen, channel, shown, listed, selected, stale>>
      BY <2>5 DEF Request, daemon, daemonVars, wsVars
    <3> QED BY <1>1, <2>1, <3>1, <3>2, AskStep
  <2> QED BY <1>7, <2>2, <2>3, <2>4, <2>5 DEF KeyInChannels
<1>8. CASE KeyInCreate
  <2>1. ASSUME NEW ch \in Name, Request("create", ch) PROVE IInv'
    BY <1>1, <2>1, AskStep DEF Request, daemon, daemonVars, wsVars
  <2> QED BY <1>2, <1>8, <2>1 DEF KeyInCreate
<1>9. CASE KeyInTimeline
  BY <1>2, <1>4, <1>9 DEF KeyInTimeline, Ready
<1>10. CASE KeyInCompose
  <2>1. CASE Request("post", channel)
    BY <1>1, <2>1, AskStep DEF Request, daemon, daemonVars, wsVars
  <2> QED BY <1>1, <1>3, <1>10, <2>1 DEF KeyInCompose
<1> QED BY <1>7, <1>8, <1>9, <1>10 DEF Key

\* OnEnter of the list of channels, whether the request succeeded or not.
LEMMA ListLoadedStep ==
  ASSUME IInv, ListLoaded
  PROVE  IInv'
<1>1. /\ UNCHANGED <<casts, received, handled, saved, casting, line, got, rows, nread, dials, queue, missed,
                     screen, channel, shown, stale>>
      /\ call.op = "channels" /\ call' = NoCall
      /\ listed' = call.list \/ listed' = listed
      /\ selected' = IF selected > Len(listed') THEN 1 ELSE selected
  BY DEF ListLoaded, daemon, daemonVars, wsVars, handled, saved
<1>2. TypeOK /\ call # NoCall
  BY <1>1, Types DEF NoCall
<1>3. listed' \in Seq(Entries) /\ screen = "channels" /\ selected \in Nat \ {0}
  BY <1>1, <1>2 DEF IInv, CallOK, TypeOK
<1>4. Len(listed') \in Nat /\ (listed' # <<>> => Len(listed') > 0)
  BY <1>3
<1>5. selected' \in Nat \ {0} /\ (listed' = <<>> \/ selected' <= Len(listed'))
  BY <1>1, <1>3, <1>4
<1>6. TypeOK'
  BY <1>1, <1>2, <1>3, <1>5 DEF TypeOK
<1>7. ~Showing' /\ CallOK'
  BY <1>1, <1>3 DEF Showing, CallOK
<1> QED BY <1>1, <1>5, <1>6, <1>7 DEF IInv, SelectedInRange, NoDuplicates, ShownBelongs

\* OnEnter of a timeline.
LEMMA TimelineLoadedStep ==
  ASSUME IInv, TimelineLoaded
  PROVE  IInv'
<1>1. /\ UNCHANGED <<casts, received, handled, saved, casting, line, got, rows, nread, dials, queue,
                     screen, channel, listed, selected>>
      /\ call.op = "messages" /\ call' = NoCall
      /\ \/ /\ call.at = "answered" /\ shown' = call.list /\ stale' = FALSE
            /\ missed' = missed \ ToSet(call.list)
         \/ stale' = TRUE /\ UNCHANGED <<shown, missed>>
  BY DEF TimelineLoaded, Ok, daemonVars, wsVars, handled, saved
<1>2. TypeOK /\ call # NoCall
  BY <1>1, Types DEF NoCall
<1>3. screen = "timeline" /\ call.arg = channel
  BY <1>1, <1>2 DEF IInv, CallOK
<1>4. stale' \in BOOLEAN
  BY <1>1, Zenon
<1>5. CallOK' /\ ~Ready("channels")'
  BY <1>1, <1>3 DEF CallOK, Ready
<1>6. CASE stale'
  <2>1. UNCHANGED <<shown, missed>>
    BY <1>1, <1>6
  <2>2. TypeOK'
    BY <1>1, <1>2, <1>4, <2>1 DEF TypeOK
  <2>3. ~Showing'
    BY <1>6 DEF Showing
  <2> QED BY <1>5, <2>1, <2>2, <2>3 DEF IInv, SelectedInRange, NoDuplicates, ShownBelongs
<1>7. CASE ~stale'
  <2>1. call.at = "answered" /\ shown' = call.list /\ missed' = missed \ ToSet(call.list)
    BY <1>1, <1>7
  <2>2. /\ call.list \in Seq(saved) /\ IsInjective(call.list)
        /\ \A m \in ToSet(call.list) : ChannelOf[m] = channel
        /\ Covers(call.list, channel)
    BY <1>1, <1>2, <1>3, <2>1 DEF IInv, CallOK
  <2>3. shown' \in Seq(handled)
    BY <1>2, <2>1, <2>2, SeqGrows DEF TypeOK
  <2>4. TypeOK'
    BY <1>1, <1>2, <1>4, <2>1, <2>3 DEF TypeOK
  <2>5. Way \subseteq Way' \cup ToSet(shown')
    BY <1>1, <2>1 DEF Way, UnreadCalls, Of
  <2>6. Covers(shown, channel)'
    BY <1>1, <2>1, <2>2, <2>5 DEF Covers, Stored, saved
  <2>7. ShownBelongs' /\ NoDuplicates'
    BY <1>1, <2>1, <2>2 DEF ShownBelongs, NoDuplicates
  <2> QED BY <1>5, <2>4, <2>6, <2>7 DEF IInv, SelectedInRange
<1> QED BY <1>6, <1>7

\* Posted, Created and Deleted ask at once for the list they return to.
LEMMA ReturnStep ==
  ASSUME IInv, Posted \/ Created \/ Deleted
  PROVE  IInv'
<1>1. TypeOK /\ channel \in Name \cup {NoName} /\ selected \in Nat \ {0}
  BY Types DEF TypeOK
<1>2. CASE Posted
  BY <1>1, <1>2, AskStep DEF Posted, OpenTimeline, daemon, daemonVars, wsVars
<1>3. CASE Created
  BY <1>1, <1>3, AskStep DEF Created, OpenChannels, daemon, daemonVars, wsVars
<1>4. CASE Deleted
  <2>1. call # NoCall /\ call.op = "delete"
    BY <1>4 DEF Deleted, NoCall
  <2>2. screen = "channels"
    BY <2>1 DEF IInv, CallOK
  <2> QED BY <1>1, <1>4, <2>2, AskStep DEF Deleted, daemon, daemonVars, wsVars
<1> QED BY <1>2, <1>3, <1>4

\* drainWS: what leaves the queue is shown, or belongs to another channel.
LEMMA DrainStep ==
  ASSUME IInv, Drain
  PROVE  IInv'
<1> DEFINE m == Head(queue)
<1>1. /\ UNCHANGED <<casts, received, handled, saved, casting, line, got, rows, nread, dials, missed,
                     screen, call, channel, listed, selected, stale>>
      /\ call = NoCall /\ queue # <<>> /\ queue' = Tail(queue)
      /\ shown' = onNewMessage(m)
  BY DEF Drain, daemonVars, handled, saved
<1>2. TypeOK
  BY Types
<1>3. /\ m \in handled /\ queue' \in Seq(handled) /\ Len(queue') = Len(queue) - 1
      /\ ToSet(queue) = ToSet(queue') \cup {m}
  BY <1>1, <1>2, HeadAndTail DEF TypeOK
<1> HIDE DEF m
<1>4. /\ shown' \in Seq(handled) /\ IsInjective(shown')
      /\ ToSet(shown') = IF ChannelOf[m] = channel THEN ToSet(shown) \cup {m} ELSE ToSet(shown)
  <2>1. shown \in Seq(handled) /\ IsInjective(shown)
    BY <1>2 DEF TypeOK, IInv, NoDuplicates
  <2>2. CASE ChannelOf[m] = channel /\ m \notin ToSet(shown)
    BY <1>1, <1>3, <2>1, <2>2, PrependAdds DEF onNewMessage
  <2>3. CASE ~(ChannelOf[m] = channel /\ m \notin ToSet(shown))
    BY <1>1, <2>1, <2>3 DEF onNewMessage
  <2> QED BY <2>2, <2>3
<1>5. TypeOK'
  <2>1. Len(queue') <= Cap
    <3>1. Len(queue) \in Nat /\ Len(queue) <= Cap /\ Cap \in Nat
      BY <1>2, DisplayAssumption DEF TypeOK
    <3> QED BY <1>3, <3>1
  <2> QED BY <1>1, <1>2, <1>3, <1>4, <2>1 DEF TypeOK
<1>6. SelectedInRange' /\ NoDuplicates' /\ CallOK'
  BY <1>1, <1>4, <1>5 DEF IInv, SelectedInRange, Ready, NoDuplicates, CallOK
<1>7. ShownBelongs'
  BY <1>1, <1>4 DEF IInv, ShownBelongs, Showing
<1>8. (Showing => Covers(shown, channel))'
  <2>1. Way \subseteq Way' \cup {m}
    BY <1>1, <1>3 DEF Way, UnreadCalls, Of
  <2>2. Showing' => Showing
    BY <1>1 DEF Showing
  <2>3. \A x \in Stored(channel) : ChannelOf[x] = channel
    BY DEF Stored
  <2>4. Showing => Stored(channel) \subseteq ToSet(shown') \cup Way'
    BY <1>4, <2>1, <2>3 DEF IInv, Covers
  <2> QED BY <1>1, <2>2, <2>4 DEF Covers, Stored, saved
<1> QED BY <1>6, <1>7, <1>8 DEF IInv

-----------------------------------------------------------------------------
LEMMA NextIInv == IInv /\ [Next]_vars => IInv'
<1> SUFFICES ASSUME IInv, [Next]_vars PROVE IInv'
  OBVIOUS
<1>1. CASE \/ \E m \in Message : Arrives(m) \/ ServePost(m)
           \/ \E b \in Call : Bring(b) \/ End(b)
  BY <1>1, EntersStep, BringStep, EndStep
<1>2. CASE LineMoves \/ Dial \/ \E ch \in Name : OthersChange(ch)
  BY <1>2, LineStep
<1>3. CASE Read \/ LinkBreaks \/ Answer
  BY <1>3, ReadStep, LinkStep, AnswerStep
<1>4. CASE UI
  BY <1>4, KeyStep, ListLoadedStep, TimelineLoadedStep, ReturnStep, DrainStep DEF UI, Return
<1>5. CASE UNCHANGED vars
  <2>1. UNCHANGED <<casts, received, handled, saved, casting, line, got, rows, nread, dials, queue, missed,
                    screen, call, channel, shown, listed, selected, stale>>
    BY <1>5 DEF vars, daemonVars, wsVars, appVars, handled, saved
  <2>2. TypeOK' /\ Way' = Way
    BY <2>1, Types DEF TypeOK, Way, UnreadCalls, Of, handled, saved
  <2> QED BY <2>1, <2>2, AwayStep
<1> QED BY <1>1, <1>2, <1>3, <1>4, <1>5 DEF Next

\* The invariant of the display, its requests and its stream.
THEOREM Invariant == Spec => []IInv
BY InitIInv, NextIInv, PTL DEF Spec

(* Whatever the stream, the requests and the user do: a stored message of   *)
(* the channel on the screen is shown or on its way, unless the stream      *)
(* could not bring it or GetMessages, which answers no more than Limit, had *)
(* no place for it (TimelineScreen.OnEnter and readLoop leave no other      *)
(* gap).                                                                    *)
THEOREM NothingIsMissed == Spec => []NothingMissed
<1>1. IInv => NothingMissed
  BY DEF IInv, NothingMissed, Covers, Way, Of
<1> QED BY <1>1, Invariant, PTL

\* onNewMessage and OnEnter never show a message twice.
THEOREM ShownOnce == Spec => []NoDuplicates
<1>1. IInv => NoDuplicates
  BY DEF IInv
<1> QED BY <1>1, Invariant, PTL

(* What is under a channel's name belongs to the channel (onNewMessage, and *)
(* answers that arrive after the user went on).                             *)
THEOREM ShownInItsChannel == Spec => []ShownBelongs
<1>1. IInv => ShownBelongs
  BY DEF IInv
<1> QED BY <1>1, Invariant, PTL

\* The list on the screen is right (onNewMessage, OnEnter).
THEOREM ShownAsItShould == Spec => []ShownRightly
<1>1. IInv => ShownRightly
  BY DEF IInv, ShownRightly
<1> QED BY <1>1, Invariant, PTL

\* ChannelListScreen.HandleKey never indexes outside its list.
THEOREM SelectionInRange == Spec => []SelectedInRange
<1>1. IInv => SelectedInRange
  BY DEF IInv
<1> QED BY <1>1, Invariant, PTL

=============================================================================
