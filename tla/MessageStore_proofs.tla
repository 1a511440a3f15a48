-------------------------- MODULE MessageStore_proofs --------------------------
(* NumbersInOrder, AnswersHold and CountsHold of MessageStore, for any       *)
(* number of requests and messages.  First the argument for the numbers: mu  *)
(* is held by whoever is between SELECT MAX(seq) and the last statement of a *)
(* save (WhereOK), so that the number read is still the next one when the    *)
(* row is inserted.  The second half, from "The counts" on, is about what    *)
(* the tables of statistics add up to.                                       *)
EXTENDS MessageStore, FiniteSetTheorems, TLAPS

Own == DOMAIN messages \cap Post

\* Where goroutine p can be, what it holds then, and what is stored already.
WhereOK(p) ==
  \/ pc[p] = Idle
  \/ p \in Handler /\ \E ch \in Name : pc[p] = Deleting(ch)
  \/ p \in Handler /\ \E m \in Post : pc[p] = At("wait", m)
  \/ p = rx /\ \E m \in Foreign \cup DOMAIN messages : pc[p] = At("wait", m)
  \/ /\ p \in Handler /\ mu = p
     /\ \E m \in Post : pc[p] = Numbered(m, Cardinality(Own) + 1)
  \/ /\ mu = p
     /\ \E m \in DOMAIN messages, s \in {"channel", "unique", "node"} : pc[p] = At(s, m)
  \/ p \in Handler /\ \E m \in DOMAIN messages : pc[p] = At("user", m)

Numbered1toK == {messages[m] : m \in Own} = 1 .. Cardinality(Own)

IInv ==
  /\ DOMAIN messages \subseteq Message
  /\ DOMAIN pc = Proc /\ DOMAIN reply = Handler
  /\ \A p \in Proc : WhereOK(p)
  /\ Numbered1toK
  /\ AnswersHold

-----------------------------------------------------------------------------
\* The own messages are a finite set.
LEMMA OwnFinite ==
  /\ IsFiniteSet(Own) /\ Cardinality(Own) \in Nat
BY FS_Subset, FS_CardinalityType, StoreAssumption DEF Own

\* SELECT MAX(seq) counts the own messages.
LEMMA MaxSeqCounts ==
  ASSUME Numbered1toK
  PROVE  MaxSeq = Cardinality(Own)
<1> DEFINE c == Cardinality(Own)
<1>1. c \in Nat
  BY OwnFinite
<1>2. MaxSeq = CHOOSE k \in 1..c \cup {0} : \A j \in 1..c : j <= k
  BY DEF MaxSeq, Numbered1toK, Own
<1>3. c \in 1..c \cup {0} /\ \A j \in 1..c : j <= c
  BY <1>1
<1>4. \A k \in 1..c \cup {0} : (\A j \in 1..c : j <= k) => k = c
  BY <1>1
<1>5. MaxSeq = c
  <2> HIDE DEF c
  <2> QED BY <1>2, <1>3, <1>4
<1> QED BY <1>5

\* A new own message gets the next number, and the numbers have no gap.
LEMMA OwnInserted ==
  ASSUME Numbered1toK, NEW m \in Post, m \notin DOMAIN messages,
         messages' = Put(messages, m, Cardinality(Own) + 1)
  PROVE  Numbered1toK'
<1>1. Own' = Own \cup {m} /\ m \notin Own
  BY DEF Own, Put
<1>2. Cardinality(Own') = Cardinality(Own) + 1
  BY <1>1, OwnFinite, FS_AddElement
<1>3. messages'[m] = Cardinality(Own) + 1 /\ \A x \in Own : messages'[x] = messages[x]
  BY <1>1 DEF Put, Own
<1>4. {messages'[x] : x \in Own'} = 1 .. Cardinality(Own) \cup {Cardinality(Own) + 1}
  BY <1>1, <1>3 DEF Numbered1toK
<1>5. 1 .. Cardinality(Own) \cup {Cardinality(Own) + 1} = 1 .. (Cardinality(Own) + 1)
  BY OwnFinite
<1> QED BY <1>2, <1>4, <1>5 DEF Numbered1toK

\* The primary key is the only constraint an own message can run into.
LEMMA ClashIsId ==
  ASSUME IInv, NEW m \in Post, Clash(m, Cardinality(Own) + 1)
  PROVE  m \in DOMAIN messages
<1>1. SUFFICES ASSUME NEW x \in DOMAIN messages, From[x] = From[m],
                      messages[x] = Cardinality(Own) + 1
               PROVE  FALSE
  BY DEF Clash
<1>2. x \in Own
  BY <1>1, StoreAssumption DEF IInv, Own, Message
<1>3. messages[x] \in 1 .. Cardinality(Own)
  BY <1>2 DEF IInv, Numbered1toK
<1> QED BY <1>1, <1>3, OwnFinite

\* Whoever saves holds mu, so nobody else does.
LEMMA SaverHolds ==
  ASSUME IInv, NEW p \in Proc, InSave(p)
  PROVE  mu = p
BY DEF IInv, WhereOK, InSave, Idle, Deleting, At, Numbered

\* What the steps of a goroutine are made of.
LEMMA StepFields ==
  /\ Idle.at = "idle" /\ \A ch : Deleting(ch).at = "delete" /\ Deleting(ch).channel = ch
  /\ \A s, m : At(s, m).at = s /\ At(s, m).msg = m
  /\ \A m, k : Numbered(m, k).at = "insert" /\ Numbered(m, k).msg = m /\ Numbered(m, k).seq = k
BY DEF Idle, Deleting, At, Numbered

\* A goroutine that does not move stays where it may be, as long as a save
\* that it is in the midst of keeps mu and its number.
LEMMA Undisturbed ==
  ASSUME NEW q \in Proc, WhereOK(q), pc'[q] = pc[q],
         DOMAIN messages \subseteq DOMAIN messages',
         InSave(q) => mu' = mu /\ Own' = Own
  PROVE  WhereOK(q)'
<1>1. CASE InSave(q)
  BY <1>1, StepFields DEF WhereOK, InSave
<1>2. CASE ~InSave(q)
  BY <1>2, StepFields DEF WhereOK, InSave
<1> QED BY <1>1, <1>2

\* An answer stays true as long as messages are only added.
LEMMA AnswersStay ==
  ASSUME AnswersHold, DOMAIN messages \subseteq DOMAIN messages', reply' = reply
  PROVE  AnswersHold'
BY DEF AnswersHold, GetMessage, Stored

\* While a request runs its client has no answer.
LEMMA NoAnswerYet ==
  ASSUME IInv, DOMAIN messages \subseteq DOMAIN messages',
         NEW h \in Handler, reply' = [reply EXCEPT ![h] = NoReply]
  PROVE  AnswersHold' /\ DOMAIN reply' = Handler
BY DEF IInv, AnswersHold, GetMessage, Stored

\* An answer is true when what it says of the store is so.
LEMMA NewAnswer ==
  ASSUME IInv, DOMAIN messages \subseteq DOMAIN messages',
         NEW h \in Handler, NEW op, NEW arg, NEW status,
         reply' = [reply EXCEPT ![h] = Answer(op, arg, status)],
         op = "post" /\ status \in {201, 500} => arg \in DOMAIN messages',
         op = "delete" /\ status = 409 => \E x \in DOMAIN messages' : ChannelOf[x] = arg
  PROVE  AnswersHold' /\ DOMAIN reply' = Handler
<1>1. DOMAIN reply' = Handler
  BY DEF IInv
<1>2. PICK r : r = Answer(op, arg, status)
  OBVIOUS
<1>3. r.op = op /\ r.arg = arg /\ r.status = status
  BY <1>2 DEF Answer
<1>4. ASSUME NEW g \in Handler, reply'[g] # NoReply
      PROVE  /\ reply'[g].op = "post" /\ reply'[g].status \in {201, 500}
                  => reply'[g].arg \in DOMAIN messages'
             /\ reply'[g].op = "delete" /\ reply'[g].status = 409
                  => \E x \in DOMAIN messages' : ChannelOf[x] = reply'[g].arg
  <2>1. CASE g = h
    <3>1. reply'[g] = r
      BY <2>1, <1>2 DEF IInv
    <3> QED BY <3>1, <1>3
  <2>2. CASE g # h
    <3>1. reply'[g] = reply[g]
      BY <2>2 DEF IInv
    <3> QED BY <3>1, <1>4 DEF IInv, AnswersHold, GetMessage, Stored
  <2> QED BY <2>1, <2>2
<1> QED BY <1>1, <1>4 DEF AnswersHold, GetMessage, Stored, IInv

\* 201 and 500 say that the message is there.
LEMMA NewPostAnswer ==
  ASSUME IInv, DOMAIN messages \subseteq DOMAIN messages',
         NEW h \in Handler, NEW m, NEW status,
         reply' = [reply EXCEPT ![h] = Answer("post", m, status)],
         status \in {201, 500} => m \in DOMAIN messages'
  PROVE  AnswersHold' /\ DOMAIN reply' = Handler
<1>1. "post" # "delete"
  OBVIOUS
<1> QED BY <1>1, NewAnswer

\* 409 says that the channel has messages.
LEMMA NewDeleteAnswer ==
  ASSUME IInv, DOMAIN messages \subseteq DOMAIN messages',
         NEW h \in Handler, NEW ch, NEW status,
         reply' = [reply EXCEPT ![h] = Answer("delete", ch, status)],
         status = 409 => \E x \in DOMAIN messages' : ChannelOf[x] = ch
  PROVE  AnswersHold' /\ DOMAIN reply' = Handler
<1>1. "post" # "delete"
  OBVIOUS
<1> QED BY <1>1, NewAnswer

\* The answers that say nothing of what is stored.
Quiet == Nat \ {201, 409, 500}

\* Other answers say nothing of the store.
LEMMA NewRefusal ==
  ASSUME IInv, DOMAIN messages \subseteq DOMAIN messages',
         NEW h \in Handler, NEW op, NEW arg, NEW status \in Quiet,
         reply' = [reply EXCEPT ![h] = Answer(op, arg, status)]
  PROVE  AnswersHold' /\ DOMAIN reply' = Handler
<1>1. status \notin {201, 500} /\ status # 409
  BY DEF Quiet
<1> QED BY <1>1, NewAnswer

\* There is nothing at first.
LEMMA InitInv == Init => IInv
<1> SUFFICES ASSUME Init PROVE IInv
  OBVIOUS
<1>1. Own = {} /\ Cardinality(Own) = 0
  BY FS_EmptySet DEF Own, Init
<1>2. Numbered1toK
  BY <1>1 DEF Numbered1toK
<1> QED BY <1>2 DEF Init, IInv, WhereOK, AnswersHold, NoReply

-----------------------------------------------------------------------------
\* Steps that leave messages and mu alone move one goroutine, if any.
LEMMA SameStore ==
  ASSUME IInv, UNCHANGED <<messages, mu>>, NEW p \in Proc, NEW step,
         pc' = [pc EXCEPT ![p] = step], WhereOK(p)', AnswersHold', DOMAIN reply' = Handler
  PROVE  IInv'
<1>1. Own' = Own
  BY DEF Own
<1>2. \A q \in Proc : WhereOK(q)'
  BY <1>1, Undisturbed DEF IInv
<1>3. Numbered1toK'
  BY <1>1 DEF IInv, Numbered1toK
<1> QED BY <1>2, <1>3 DEF IInv

\* A post begins, or is refused.
LEMMA PostMessageKeeps ==
  ASSUME IInv, NEW h \in Handler, NEW m \in Post, PostMessage(h, m)
  PROVE  IInv'
<1>1. UNCHANGED <<messages, mu>>
  BY DEF PostMessage, tables
<1>2. CASE ChannelOf[m] \in Valid
  <2>1. pc' = [pc EXCEPT ![h] = At("wait", m)] /\ reply' = [reply EXCEPT ![h] = NoReply]
    BY <1>2 DEF PostMessage, Goes
  <2>2. WhereOK(h)'
    BY <2>1 DEF WhereOK, IInv, Proc
  <2>3. AnswersHold' /\ DOMAIN reply' = Handler
    BY <1>1, <2>1, NoAnswerYet
  <2> QED BY <1>1, <2>1, <2>2, <2>3, SameStore DEF Proc
<1>3. CASE ChannelOf[m] \notin Valid
  <2>1. pc' = [pc EXCEPT ![h] = Idle] /\ reply' = [reply EXCEPT ![h] = Answer("post", m, 422)]
    BY <1>3 DEF PostMessage, Goes, Finish
  <2>2. WhereOK(h)'
    BY <2>1 DEF WhereOK, IInv, Proc
  <2>3. AnswersHold' /\ DOMAIN reply' = Handler
    <3>1. 422 \in Quiet /\ DOMAIN messages \subseteq DOMAIN messages'
      BY <1>1 DEF Quiet
    <3> QED BY ZenonT(40), <2>1, <3>1, NewRefusal
  <2> QED BY <1>1, <2>1, <2>2, <2>3, SameStore DEF Proc
<1> QED BY <1>2, <1>3

\* The receive goroutine begins a save.
LEMMA HearMessageKeeps ==
  ASSUME IInv, NEW m, HearMessage(m)
  PROVE  IInv'
<1>1. /\ UNCHANGED <<messages, mu, reply>> /\ pc' = [pc EXCEPT ![rx] = At("wait", m)]
      /\ m \in Foreign \cup DOMAIN messages /\ rx \in Proc
  BY DEF HearMessage, Goes, tables, Proc
<1>2. WhereOK(rx)'
  BY <1>1 DEF WhereOK, IInv
<1> QED BY <1>1, <1>2, AnswersStay, SameStore DEF IInv

\* DeleteChannel counts, and may refuse.
LEMMA CountForDeleteKeeps ==
  ASSUME IInv, NEW h \in Handler, NEW ch \in Name, CountForDelete(h, ch)
  PROVE  IInv'
<1>1. UNCHANGED <<messages, mu>>
  BY DEF CountForDelete, tables
<1>2. CASE Stored(ch) # {}
  <2>1. pc' = [pc EXCEPT ![h] = Idle] /\ reply' = [reply EXCEPT ![h] = Answer("delete", ch, 409)]
    BY <1>2 DEF CountForDelete, Goes, Finish, DeleteAnswer
  <2>2. WhereOK(h)'
    BY <2>1 DEF WhereOK, IInv, Proc
  <2>3. AnswersHold' /\ DOMAIN reply' = Handler
    <3>1. \E x \in DOMAIN messages' : ChannelOf[x] = ch
      BY <1>1, <1>2 DEF Stored
    <3>2. DOMAIN messages \subseteq DOMAIN messages'
      BY <1>1
    <3> QED BY ZenonT(40), <2>1, <3>1, <3>2, NewDeleteAnswer
  <2> QED BY <1>1, <2>1, <2>2, <2>3, SameStore DEF Proc
<1>3. CASE Stored(ch) = {}
  <2>1. pc' = [pc EXCEPT ![h] = Deleting(ch)] /\ reply' = [reply EXCEPT ![h] = NoReply]
    BY <1>3 DEF CountForDelete, Goes
  <2>2. WhereOK(h)'
    BY <2>1 DEF WhereOK, IInv, Proc
  <2>3. AnswersHold' /\ DOMAIN reply' = Handler
    BY <1>1, <2>1, NoAnswerYet
  <2> QED BY <1>1, <2>1, <2>2, <2>3, SameStore DEF Proc
<1> QED BY <1>2, <1>3

\* DeleteChannel deletes a row of channels only.
LEMMA DeleteRowKeeps ==
  ASSUME IInv, NEW h \in Handler, DeleteRow(h)
  PROVE  IInv'
<1>1. UNCHANGED <<messages, mu>>
  BY DEF DeleteRow
<1>2. PICK status \in Quiet :
        reply' = [reply EXCEPT ![h] = Answer("delete", pc[h].channel, status)]
  <2>1. CASE Finish(h, DeleteAnswer(pc[h].channel, "nil"))
    <3>2. 200 \in Quiet
      BY DEF Quiet
    <3>1. reply' = [reply EXCEPT ![h] = Answer("delete", pc[h].channel, 200)]
      BY <2>1 DEF Finish, DeleteAnswer
    <3> QED BY <3>1, <3>2
  <2>2. CASE Finish(h, DeleteAnswer(pc[h].channel, "channel not found"))
    <3>2. 404 \in Quiet
      BY DEF Quiet
    <3>1. reply' = [reply EXCEPT ![h] = Answer("delete", pc[h].channel, 404)]
      BY <2>2 DEF Finish, DeleteAnswer
    <3> QED BY <3>1, <3>2
  <2> QED BY <2>1, <2>2 DEF DeleteRow
<1>0. pc' = [pc EXCEPT ![h] = Idle]
  BY DEF DeleteRow, Finish, Goes
<1>3. WhereOK(h)'
  BY <1>0 DEF WhereOK, IInv, Proc
<1>4. AnswersHold' /\ DOMAIN reply' = Handler
  <2>1. DOMAIN messages \subseteq DOMAIN messages'
    BY <1>1
  <2> QED BY <1>2, <2>1, NewRefusal
<1> QED BY <1>0, <1>1, <1>3, <1>4, SameStore DEF Proc

\* A post ends with 201 for a message that is there.
LEMMA CountForUserKeeps ==
  ASSUME IInv, NEW h \in Handler, CountForUser(h)
  PROVE  IInv'
<1>1. /\ UNCHANGED <<messages, mu>> /\ pc[h].at = "user"
      /\ pc' = [pc EXCEPT ![h] = Idle]
      /\ reply' = [reply EXCEPT ![h] = Answer("post", pc[h].msg, 201)]
  BY DEF CountForUser, Finish, Goes
<1>2. pc[h].msg \in DOMAIN messages
  BY <1>1, StepFields DEF IInv, WhereOK, Proc
<1>3. WhereOK(h)'
  BY <1>1 DEF WhereOK, IInv, Proc
<1>4. AnswersHold' /\ DOMAIN reply' = Handler
  BY <1>1, <1>2, NewPostAnswer
<1> QED BY <1>1, <1>3, <1>4, SameStore DEF Proc

\* The number is read under mu, when nobody else saves.
LEMMA ReadNumberKeeps ==
  ASSUME IInv, NEW h \in Handler, ReadNumber(h)
  PROVE  IInv'
<1>1. PICK m \in Post : pc[h] = At("wait", m)
  BY StepFields, StoreAssumption DEF ReadNumber, IInv, WhereOK, Proc
<1>2. /\ pc' = [pc EXCEPT ![h] = Numbered(m, Cardinality(Own) + 1)]
      /\ mu = Free /\ mu' = h /\ messages' = messages /\ reply' = reply
  <2>1. pc[h].msg = m
    BY <1>1, StepFields
  <2> QED BY <2>1, MaxSeqCounts DEF ReadNumber, Goes, tables, IInv
<1>3. Own' = Own
  BY <1>2 DEF Own
<1>4. \A q \in Proc : ~InSave(q)
  BY <1>2, SaverHolds, StoreAssumption
<1>5. WhereOK(h)'
  BY <1>2, <1>3 DEF WhereOK, IInv, Proc
<1>6. \A q \in Proc : WhereOK(q)'
  <2>1. ASSUME NEW q \in Proc, q # h
        PROVE  WhereOK(q)'
    <3>1. pc'[q] = pc[q]
      BY <1>2, <2>1 DEF IInv
    <3> QED BY <1>2, <1>4, <3>1, Undisturbed DEF IInv
  <2> QED BY <1>5, <2>1
<1>7. Numbered1toK'
  BY <1>2, <1>3 DEF IInv, Numbered1toK
<1>8. AnswersHold'
  BY <1>2, AnswersStay DEF IInv
<1> QED BY <1>2, <1>6, <1>7, <1>8 DEF IInv

\* The number read is still the next one; only the id can clash.
LEMMA InsertOwnKeeps ==
  ASSUME IInv, NEW h \in Handler, InsertOwn(h)
  PROVE  IInv'
<1>1. PICK m \in Post : pc[h] = Numbered(m, Cardinality(Own) + 1)
  BY StepFields DEF InsertOwn, IInv, WhereOK, Proc
<1>2. mu = h /\ h \in Proc /\ \A q \in Proc \ {h} : ~InSave(q)
  BY StepFields, SaverHolds DEF InsertOwn, InSave, Proc
<1>3. pc[h].msg = m /\ pc[h].seq = Cardinality(Own) + 1
  BY <1>1, StepFields
<1>4. CASE Clash(m, Cardinality(Own) + 1)
  <2>1. /\ messages' = messages /\ pc' = [pc EXCEPT ![h] = Idle]
        /\ reply' = [reply EXCEPT ![h] = Answer("post", m, 500)]
    BY <1>3, <1>4 DEF InsertOwn, Finish, Goes
  <2>2. m \in DOMAIN messages
    BY <1>4, ClashIsId
  <2>3. AnswersHold' /\ DOMAIN reply' = Handler
    BY ZenonT(40), <2>1, <2>2, NewPostAnswer
  <2>4. WhereOK(h)'
    BY <2>1, <1>2 DEF WhereOK, IInv
  <2>5. \A q \in Proc : WhereOK(q)'
    BY <1>2, <2>1, <2>4, Undisturbed DEF IInv
  <2>6. Numbered1toK'
    BY <2>1 DEF IInv, Numbered1toK, Own
  <2> QED BY <2>1, <2>3, <2>5, <2>6 DEF IInv
<1>5. CASE ~Clash(m, Cardinality(Own) + 1)
  <2>1. /\ messages' = Put(messages, m, Cardinality(Own) + 1) /\ m \notin DOMAIN messages
        /\ pc' = [pc EXCEPT ![h] = At("channel", m)] /\ UNCHANGED <<mu, reply>>
    BY <1>3, <1>5 DEF InsertOwn, Goes, Clash
  <2>2. DOMAIN messages' = DOMAIN messages \cup {m}
    BY <2>1 DEF Put
  <2>3. WhereOK(h)'
    BY <1>2, <2>1, <2>2 DEF WhereOK, IInv
  <2>4. \A q \in Proc : WhereOK(q)'
    BY <1>2, <2>1, <2>2, <2>3, Undisturbed DEF IInv
  <2>5. Numbered1toK'
    BY <2>1, OwnInserted DEF IInv
  <2>6. AnswersHold'
    BY <2>1, <2>2, AnswersStay DEF IInv
  <2> QED BY <2>1, <2>2, <2>4, <2>5, <2>6 DEF IInv, Message
<1> QED BY <1>4, <1>5

\* INSERT OR IGNORE of a message of another node takes no own number.
LEMMA InsertHeardKeeps ==
  ASSUME IInv, InsertHeard
  PROVE  IInv'
<1>1. PICK m \in Foreign \cup DOMAIN messages : pc[rx] = At("wait", m)
  BY StepFields, StoreAssumption DEF InsertHeard, IInv, WhereOK, Proc
<1>2. pc[rx].msg = m /\ rx \in Proc /\ reply' = reply
  BY <1>1, StepFields DEF InsertHeard, Proc
<1>3. CASE m \in DOMAIN messages
  <2>1. UNCHANGED <<messages, mu>> /\ pc' = [pc EXCEPT ![rx] = Idle]
    BY <1>2, <1>3 DEF InsertHeard, Goes
  <2>2. WhereOK(rx)'
    BY <2>1, <1>2 DEF WhereOK, IInv
  <2>3. AnswersHold' /\ DOMAIN reply' = Handler
    BY <1>2, <2>1, AnswersStay DEF IInv
  <2> QED BY <1>2, <2>1, <2>2, <2>3, SameStore
<1>4. CASE m \notin DOMAIN messages
  <2>1. /\ messages' = Put(messages, m, 0) /\ mu = Free /\ mu' = rx
        /\ pc' = [pc EXCEPT ![rx] = At("channel", m)]
    BY <1>2, <1>4 DEF InsertHeard, Goes
  <2>2. DOMAIN messages' = DOMAIN messages \cup {m} /\ m \in Foreign
    BY <1>4, <2>1 DEF Put
  <2>3. Own' = Own /\ \A x \in Own : messages'[x] = messages[x]
    BY <2>1, <2>2, StoreAssumption DEF Own, Put
  <2>4. \A q \in Proc : ~InSave(q)
    BY <2>1, SaverHolds, StoreAssumption
  <2>5. WhereOK(rx)'
    BY <1>2, <2>1, <2>2 DEF WhereOK, IInv
  <2>6. \A q \in Proc : WhereOK(q)'
    BY <2>1, <2>2, <2>4, <2>5, Undisturbed DEF IInv
  <2>7. Numbered1toK'
    BY <2>3 DEF IInv, Numbered1toK
  <2>8. AnswersHold'
    BY <1>2, <2>2, AnswersStay DEF IInv
  <2> QED BY <1>2, <2>1, <2>2, <2>6, <2>7, <2>8 DEF IInv, Message
<1> QED BY <1>3, <1>4

\* A statement of a save: the goroutine goes on, and gives mu back at the end.
LEMMA SaveGoesOn ==
  ASSUME IInv, UNCHANGED <<messages, reply>>, NEW p \in Proc, InSave(p),
         NEW m \in DOMAIN messages,
         \/ mu' = mu /\ \E s \in {"channel", "unique", "node"} :
              pc' = [pc EXCEPT ![p] = At(s, m)]
         \/ pc' = [pc EXCEPT ![p] = AfterSave(p, m)]
  PROVE  IInv'
<1>1. Own' = Own
  BY DEF Own
<1>2. mu = p /\ \A q \in Proc \ {p} : ~InSave(q)
  BY SaverHolds
<1>3. WhereOK(p)'
  <2>1. CASE mu' = mu /\ \E s \in {"channel", "unique", "node"} : pc' = [pc EXCEPT ![p] = At(s, m)]
    <3>1. PICK s \in {"channel", "unique", "node"} : pc'[p] = At(s, m)
      BY <2>1 DEF IInv
    <3> QED BY <1>2, <2>1, <3>1 DEF WhereOK
  <2>2. CASE pc' = [pc EXCEPT ![p] = AfterSave(p, m)]
    <3>1. pc'[p] = Idle \/ (p \in Handler /\ pc'[p] = At("user", m))
      BY <2>2 DEF AfterSave, IInv, Proc
    <3> QED BY <3>1 DEF WhereOK
  <2> QED BY <2>1, <2>2
<1>4. \A q \in Proc : WhereOK(q)'
  <2>1. ASSUME NEW q \in Proc, q # p
        PROVE  WhereOK(q)'
    <3>1. pc'[q] = pc[q]
      BY <2>1 DEF IInv
    <3> QED BY <1>2, <2>1, <3>1, Undisturbed DEF IInv
  <2> QED BY <1>3, <2>1
<1>5. Numbered1toK'
  BY <1>1 DEF IInv, Numbered1toK
<1>6. AnswersHold'
  BY AnswersStay DEF IInv
<1>7. DOMAIN pc' = Proc
  BY DEF IInv
<1> QED BY <1>4, <1>5, <1>6, <1>7 DEF IInv

\* The statistics of a save, whether they fail or not.
LEMMA SaveKeeps ==
  ASSUME IInv, NEW p \in Proc, Save(p) \/ StatisticsFail(p)
  PROVE  IInv'
<1>1. pc[p].at \in {"channel", "unique", "node"} /\ UNCHANGED <<messages, reply>>
  BY DEF Save, StatisticsFail, CountMessage, CountWriters, CountForNode
<1>2. PICK m \in DOMAIN messages, s \in {"channel", "unique", "node"} : pc[p] = At(s, m)
  BY <1>1, StepFields DEF IInv, WhereOK
<1>3. pc[p].msg = m /\ InSave(p)
  BY <1>1, <1>2, StepFields DEF InSave
<1>4. \/ mu' = mu /\ \E t \in {"channel", "unique", "node"} : pc' = [pc EXCEPT ![p] = At(t, m)]
      \/ pc' = [pc EXCEPT ![p] = AfterSave(p, m)]
  BY <1>3 DEF Save, StatisticsFail, CountMessage, CountWriters, CountForNode, Goes
<1> QED BY <1>1, <1>3, <1>4, SaveGoesOn

\* A statement that fails ends what its goroutine does.
LEMMA StatementFailsKeeps ==
  ASSUME IInv, NEW p \in Proc, StatementFails(p)
  PROVE  IInv'
<1>1. /\ messages' = messages /\ pc' = [pc EXCEPT ![p] = Idle]
      /\ reply' = IF p = rx THEN reply ELSE [reply EXCEPT ![p] = Failure]
      /\ InSave(p) \/ mu' = mu
  BY DEF StatementFails, Goes, InSave
<1>2. \A q \in Proc : q # p /\ InSave(q) => mu' = mu
  BY <1>1, SaverHolds
<1>3. WhereOK(p)'
  BY <1>1 DEF WhereOK, IInv
<1>4. ASSUME NEW q \in Proc, q # p
      PROVE  WhereOK(q)'
  <2>1. pc'[q] = pc[q] /\ WhereOK(q) /\ Own' = Own
    BY <1>1, <1>4 DEF IInv, Own
  <2> QED BY <1>1, <1>2, <1>4, <2>1, Undisturbed
<1>5. Numbered1toK'
  BY <1>1 DEF IInv, Numbered1toK, Own
<1>6. AnswersHold' /\ DOMAIN reply' = Handler
  <2>1. CASE reply' = reply
    BY <1>1, <2>1, AnswersStay DEF IInv
  <2>2. CASE p \in Handler /\ reply' = [reply EXCEPT ![p] = Failure]
    <3>1. /\ reply'[p].op = "failed" /\ DOMAIN reply' = Handler
          /\ \A h \in Handler \ {p} : reply'[h] = reply[h]
      BY <2>2 DEF Failure, IInv
    <3>2. ASSUME NEW h \in Handler, reply'[h] # NoReply
          PROVE  /\ reply'[h].op = "post" /\ reply'[h].status \in {201, 500}
                      => reply'[h].arg \in DOMAIN messages
                 /\ reply'[h].op = "delete" /\ reply'[h].status = 409
                      => \E x \in DOMAIN messages : ChannelOf[x] = reply'[h].arg
      <4>1. CASE h = p
        BY <3>1, <4>1
      <4>2. CASE h # p
        BY <3>1, <3>2, <4>2 DEF IInv, AnswersHold, GetMessage, Stored
      <4> QED BY <4>1, <4>2
    <3> QED BY <1>1, <3>1, <3>2 DEF AnswersHold, GetMessage, Stored
  <2> QED BY <1>1, <2>1, <2>2 DEF Proc
<1>7. DOMAIN pc' = Proc
  BY <1>1 DEF IInv
<1> QED BY <1>1, <1>3, <1>4, <1>5, <1>6, <1>7 DEF IInv

\* A crash frees mu and stops everyone.
LEMMA CrashKeeps ==
  ASSUME IInv, Crash
  PROVE  IInv'
<1>1. UNCHANGED <<messages, reply>> /\ pc' = [p \in Proc |-> Idle]
  BY DEF Crash
<1>2. \A p \in Proc : WhereOK(p)'
  BY <1>1 DEF WhereOK
<1>3. Numbered1toK'
  BY <1>1 DEF IInv, Numbered1toK, Own
<1> QED BY <1>1, <1>2, <1>3, AnswersStay DEF IInv

\* Steps that touch neither messages nor mu nor a goroutine.
LEMMA TablesOnlyKeeps ==
  ASSUME IInv, UNCHANGED <<messages, mu, pc, reply>>
  PROVE  IInv'
<1>1. Own' = Own
  BY DEF Own
<1>2. \A p \in Proc : WhereOK(p)'
  BY <1>1 DEF IInv, WhereOK
<1>3. Numbered1toK'
  BY <1>1 DEF IInv, Numbered1toK
<1> QED BY <1>2, <1>3, AnswersStay DEF IInv

\* Every step keeps the invariant.
LEMMA NextKeeps == IInv /\ [Next]_vars => IInv'
<1> SUFFICES ASSUME IInv, [Next]_vars PROVE IInv'
  OBVIOUS
<1>1. CASE UNCHANGED vars
  BY <1>1, TablesOnlyKeeps DEF vars
<1>2. ASSUME NEW h \in Handler,
             \/ \E m \in Post : PostMessage(h, m)
             \/ \E name \in Name : CreateChannel(h, name) \/ CountForDelete(h, name)
             \/ ReadNumber(h) \/ Serve(h)
      PROVE  IInv'
  <2>1. CASE \E m \in Post : PostMessage(h, m)
    BY <2>1, PostMessageKeeps
  <2>2. CASE \E name \in Name : CreateChannel(h, name)
    BY <2>2, TablesOnlyKeeps DEF CreateChannel
  <2>3. CASE \E name \in Name : CountForDelete(h, name)
    BY <2>3, CountForDeleteKeeps
  <2>4. CASE ReadNumber(h)
    BY <2>4, ReadNumberKeeps
  <2>5. CASE Serve(h)
    BY <2>5, InsertOwnKeeps, CountForUserKeeps, DeleteRowKeeps DEF Serve
  <2> QED BY <1>2, <2>1, <2>2, <2>3, <2>4, <2>5
<1>3. CASE \E m \in Message : HearMessage(m)
  BY <1>3, HearMessageKeeps
<1>4. CASE InsertHeard
  BY <1>4, InsertHeardKeeps
<1>5. CASE \E n \in Node \ {Self} : UpdateNodeSync(n)
  BY <1>5, TablesOnlyKeeps DEF UpdateNodeSync
<1>6. CASE \E p \in Proc : Save(p) \/ StatisticsFail(p) \/ StatementFails(p)
  BY <1>6, SaveKeeps, StatementFailsKeeps
<1>7. CASE Crash
  BY <1>7, CrashKeeps
<1> QED BY <1>1, <1>2, <1>3, <1>4, <1>5, <1>6, <1>7 DEF Next

(* Whatever requests, receptions, failures and crashes come in whatever     *)
(* order, the own numbers have no gap, mu is held throughout a save, and    *)
(* the answers are true (SaveMessageWithSeq, SaveMessage).                  *)
THEOREM Invariant == Spec => []IInv
BY InitInv, NextKeeps, PTL DEF Spec

(* Two handlers never read one number: own messages are numbered 1..k       *)
(* (SELECT MAX(seq) and INSERT under one lock in SaveMessageWithSeq).       *)
THEOREM OwnNumbers == Spec => []NumbersInOrder
<1>1. IInv => NumbersInOrder
  <2> SUFFICES ASSUME IInv PROVE NumbersInOrder
    OBVIOUS
  <2>1. \A p, q \in Proc : InSave(p) /\ InSave(q) => p = q
    BY SaverHolds
  <2>2. {messages[m] : m \in DOMAIN messages \cap Post} = 1 .. Cardinality(DOMAIN messages \cap Post)
    BY DEF IInv, Numbered1toK, Own
  <2> QED BY <2>1, <2>2 DEF NumbersInOrder
<1> QED BY <1>1, Invariant, PTL

(* A client's answer stays true through crashes, failed statements and      *)
(* concurrent requests: 201 and 409 say what is stored, and so does a 500   *)
(* that no failed statement gave (postMessage, DeleteChannel).              *)
THEOREM Answers == Spec => []AnswersHold
<1>1. IInv => AnswersHold
  BY DEF IInv
<1> QED BY <1>1, Invariant, PTL

-----------------------------------------------------------------------------
(* The counts.  What a count still lacks are the messages of the goroutines *)
(* on their way to the statement that counts them, so a count is compared   *)
(* with a set of messages from which those are taken away.                  *)

After == {"channel", "unique", "node", "user"}

\* Messages whose goroutine is at one of the given steps of a save.
Uncounted(steps) == {pc[p].msg : p \in {q \in Proc : pc[q].at \in steps}}

NotInChannel == Uncounted({"channel"})
NotInNode    == Uncounted({"channel", "unique", "node"})
NotInUser    == Uncounted(After)

Count(ch) == IF ch \in DOMAIN channels THEN channels[ch].count ELSE 0
Of(n) == {m \in DOMAIN messages : From[m] = n}
By(u) == {m \in DOMAIN messages \cap Post : Author[m] = u}

\* No two goroutines save one message; handlers save posts.
Savers ==
  /\ \A p, q \in Proc : pc[p].at \in After /\ pc[q].at \in After /\ pc[p].msg = pc[q].msg => p = q
  /\ \A p \in Proc : pc[p].at \in After => pc[p].msg \in (IF p = rx THEN Foreign ELSE Post)

ChannelsOK ==
  /\ DOMAIN channels \subseteq Name
  /\ channels \in [DOMAIN channels -> [count : Nat, nodes : Nat]]
  /\ \A ch \in Name :
       /\ Count(ch) <= Cardinality(Stored(ch) \ NotInChannel)
       /\ ch \notin disturbed => Count(ch) = Cardinality(Stored(ch) \ NotInChannel)
  /\ \A ch \in DOMAIN channels :
       /\ channels[ch].nodes <= Cardinality(Writers(ch))
       /\ ch \notin disturbed /\ (\A p \in Proc : Counting(p) => ChannelOf[pc[p].msg] # ch) =>
            channels[ch].nodes = Cardinality(Writers(ch))

NodesOK ==
  /\ nodes \in [Node -> [count : Nat, syncs : 0 .. MaxSyncs]]
  /\ \A n \in Node : /\ nodes[n].count <= Cardinality(Of(n) \ NotInNode)
                     /\ faults = 0 => nodes[n].count = Cardinality(Of(n) \ NotInNode)

UsersOK ==
  /\ users \in [User -> Nat]
  /\ \A u \in User : users[u] <= Cardinality(By(u) \ NotInUser)

\* The rest of the types.
ReplyOK ==
  \A h \in Handler : \/ reply[h] = NoReply
                     \/ /\ reply[h].op \in {"post", "delete", "failed"}
                        /\ reply[h].status \in {200, 201, 404, 409, 422, 500}
RestOK ==
  /\ messages \in [DOMAIN messages -> 0 .. Cardinality(Post)]
  /\ mu \in Proc \cup {Free}
  /\ ReplyOK
  /\ faults \in 0 .. MaxFaults /\ disturbed \subseteq Name

CountsOK == Savers /\ ChannelsOK /\ NodesOK /\ UsersOK

CountInv == IInv /\ CountsOK /\ RestOK /\ IsFiniteSet(DOMAIN channels)

-----------------------------------------------------------------------------
\* Sets of messages are finite and have a size.
LEMMA Sizes ==
  ASSUME DOMAIN messages \subseteq Message
  PROVE  /\ IsFiniteSet(Message) /\ IsFiniteSet(DOMAIN messages)
         /\ \A S \in SUBSET DOMAIN messages : IsFiniteSet(S) /\ Cardinality(S) \in Nat
<1>1. IsFiniteSet(Message)
  BY FS_Union, StoreAssumption DEF Message
<1>2. IsFiniteSet(DOMAIN messages)
  BY <1>1, FS_Subset
<1> QED BY <1>1, <1>2, FS_Subset, FS_CardinalityType

\* A part of the stored messages is no larger than the whole.
LEMMA Smaller ==
  ASSUME DOMAIN messages \subseteq Message, NEW S \in SUBSET DOMAIN messages, NEW T \in SUBSET S
  PROVE  Cardinality(T) <= Cardinality(S)
BY Sizes, FS_Subset

\* One more message.
LEMMA OneMore ==
  ASSUME DOMAIN messages \subseteq Message, NEW S \in SUBSET DOMAIN messages,
         NEW m \in DOMAIN messages, m \notin S
  PROVE  Cardinality(S \cup {m}) = Cardinality(S) + 1
BY Sizes, FS_AddElement

\* There are finitely many nodes, and the writers of some messages are no
\* more than those of more messages.
LEMMA WritersSize ==
  ASSUME DOMAIN messages \subseteq Message, NEW ch
  PROVE  /\ IsFiniteSet(Node) /\ Writers(ch) \subseteq Node
         /\ IsFiniteSet(Writers(ch)) /\ Cardinality(Writers(ch)) \in 0 .. Cardinality(Node)
<1>1. IsFiniteSet(Node)
  <2> DEFINE f == [m \in Message |-> From[m]]
  <2>1. f \in [Message -> Node] /\ \A n \in Node : \E m \in Message : f[m] = n
    BY DEF Node
  <2>2. f \in Surjection(Message, Node)
    BY <2>1 DEF Surjection
  <2> QED BY <2>2, Sizes, FS_Surjection
<1>2. Writers(ch) \subseteq Node
  BY DEF Writers, Stored, Node
<1> QED BY <1>1, <1>2, FS_Subset, FS_CardinalityType

\* Who is saving has stored its message.
LEMMA UncountedStored ==
  ASSUME IInv, NEW p \in Proc, pc[p].at \in After
  PROVE  pc[p].msg \in DOMAIN messages
BY StepFields DEF IInv, WhereOK, After

\* One goroutine moves: its old message leaves, and its new one joins, those
\* that are not counted yet.
LEMMA UncountedMoves ==
  ASSUME IInv, Savers, NEW p \in Proc, NEW step, pc' = [pc EXCEPT ![p] = step],
         NEW steps \in SUBSET After
  PROVE  Uncounted(steps)' =
           (Uncounted(steps) \ (IF pc[p].at \in steps THEN {pc[p].msg} ELSE {}))
             \cup (IF step.at \in steps THEN {step.msg} ELSE {})
<1>1. pc'[p] = step /\ \A q \in Proc \ {p} : pc'[q] = pc[q]
  BY DEF IInv
<1>2. \A q \in Proc \ {p} : pc[q].at \in steps /\ pc[p].at \in steps => pc[q].msg # pc[p].msg
  BY DEF Savers
<1> QED BY <1>1, <1>2 DEF Uncounted

\* And Savers goes on to hold when nobody else saves that message.
LEMMA SaversMove ==
  ASSUME IInv, Savers, NEW p \in Proc, NEW step, pc' = [pc EXCEPT ![p] = step],
         step.at \in After =>
           /\ step.msg \in (IF p = rx THEN Foreign ELSE Post)
           /\ \A q \in Proc \ {p} : pc[q].at \in After => pc[q].msg # step.msg
  PROVE  Savers'
<1>1. pc'[p] = step /\ \A q \in Proc \ {p} : pc'[q] = pc[q]
  BY DEF IInv
<1> QED BY <1>1 DEF Savers
-----------------------------------------------------------------------------
(* Steps that leave messages and one table alone.  What is not counted yet  *)
(* may shrink where a fault is recorded.                                    *)

\* The rows of channels.
LEMMA ChannelsStay ==
  ASSUME IInv, ChannelsOK, UNCHANGED <<messages, channels>>, disturbed \subseteq disturbed',
         NotInChannel' \subseteq NotInChannel,
         \A m \in NotInChannel \ NotInChannel' : ChannelOf[m] \in disturbed',
         \A p \in Proc : Counting(p) =>
            \/ Counting(p)' /\ pc'[p].msg = pc[p].msg
            \/ ChannelOf[pc[p].msg] \in disturbed'
  PROVE  ChannelsOK'
<1>1. DOMAIN messages \subseteq Message
  BY DEF IInv
<1>2. \A ch : Stored(ch)' = Stored(ch) /\ Writers(ch)' = Writers(ch) /\ Count(ch)' = Count(ch)
              /\ Stored(ch) \subseteq DOMAIN messages
  BY DEF Stored, Writers, Count
<1>3. ASSUME NEW ch \in Name
      PROVE  /\ Count(ch) <= Cardinality(Stored(ch) \ NotInChannel')
             /\ ch \notin disturbed' => Count(ch) = Cardinality(Stored(ch) \ NotInChannel')
  <2>1. Cardinality(Stored(ch) \ NotInChannel) <= Cardinality(Stored(ch) \ NotInChannel')
    BY <1>1, <1>2, Smaller
  <2>2. Cardinality(Stored(ch) \ NotInChannel) \in Nat /\ Cardinality(Stored(ch) \ NotInChannel') \in Nat
    BY <1>1, <1>2, Sizes
  <2>3. Count(ch) \in Nat
    BY DEF ChannelsOK, Count
  <2>4. Count(ch) <= Cardinality(Stored(ch) \ NotInChannel')
    BY <2>1, <2>2, <2>3 DEF ChannelsOK
  <2>5. ASSUME ch \notin disturbed'
        PROVE  Count(ch) = Cardinality(Stored(ch) \ NotInChannel')
    <3>1. Stored(ch) \ NotInChannel' = Stored(ch) \ NotInChannel
      BY <2>5 DEF Stored
    <3> QED BY <2>5, <3>1 DEF ChannelsOK
  <2> QED BY <2>4, <2>5
<1>4. ASSUME NEW ch \in DOMAIN channels, ch \notin disturbed',
             \A p \in Proc : Counting(p)' => ChannelOf[pc'[p].msg] # ch
      PROVE  channels[ch].nodes = Cardinality(Writers(ch))
  <2>1. \A p \in Proc : Counting(p) => ChannelOf[pc[p].msg] # ch
    BY <1>4
  <2> QED BY <2>1, <1>4 DEF ChannelsOK
<1> QED BY <1>2, <1>3, <1>4 DEF ChannelsOK

\* The rows of nodes.
LEMMA NodesStay ==
  ASSUME IInv, NodesOK, UNCHANGED <<messages, nodes>>, NotInNode' \subseteq NotInNode,
         faults' = 0 => faults = 0 /\ NotInNode' = NotInNode
  PROVE  NodesOK'
<1>1. DOMAIN messages \subseteq Message
  BY DEF IInv
<1>2. \A n : Of(n)' = Of(n) /\ Of(n) \subseteq DOMAIN messages
  BY DEF Of
<1>3. ASSUME NEW n \in Node
      PROVE  nodes[n].count <= Cardinality(Of(n) \ NotInNode')
  <2>1. Cardinality(Of(n) \ NotInNode) <= Cardinality(Of(n) \ NotInNode')
    BY <1>1, <1>2, Smaller
  <2>2. Cardinality(Of(n) \ NotInNode) \in Nat /\ Cardinality(Of(n) \ NotInNode') \in Nat
    BY <1>1, <1>2, Sizes
  <2>3. nodes[n].count \in Nat
    BY DEF NodesOK
  <2> QED BY <2>1, <2>2, <2>3 DEF NodesOK
<1> QED BY <1>2, <1>3 DEF NodesOK

\* The rows of users.
LEMMA UsersStay ==
  ASSUME IInv, UsersOK, UNCHANGED <<messages, users>>, NotInUser' \subseteq NotInUser
  PROVE  UsersOK'
<1>1. DOMAIN messages \subseteq Message
  BY DEF IInv
<1>2. \A u : By(u)' = By(u) /\ By(u) \subseteq DOMAIN messages
  BY DEF By
<1>3. ASSUME NEW u \in User
      PROVE  users[u] <= Cardinality(By(u) \ NotInUser')
  <2>1. Cardinality(By(u) \ NotInUser) <= Cardinality(By(u) \ NotInUser')
    BY <1>1, <1>2, Smaller
  <2>2. Cardinality(By(u) \ NotInUser) \in Nat /\ Cardinality(By(u) \ NotInUser') \in Nat
    BY <1>1, <1>2, Sizes
  <2>3. users[u] \in Nat
    BY DEF UsersOK
  <2> QED BY <2>1, <2>2, <2>3 DEF UsersOK
<1> QED BY <1>2, <1>3 DEF UsersOK

-----------------------------------------------------------------------------
\* Steps before the INSERT, or that do not come to one.
LEMMA NothingMore ==
  ASSUME IInv, CountsOK, UNCHANGED <<messages, channels, nodes, users, disturbed>>,
         faults' = 0 => faults = 0, NEW p \in Proc, NEW step,
         pc' = [pc EXCEPT ![p] = step], pc[p].at \notin After, step.at \notin After
  PROVE  CountsOK'
<1>1. ASSUME NEW steps \in SUBSET After
      PROVE  Uncounted(steps)' = Uncounted(steps)
  <2>1. pc[p].at \notin steps /\ step.at \notin steps
    OBVIOUS
  <2>2. Savers
    BY DEF CountsOK
  <2>3. Uncounted(steps)' =
          (Uncounted(steps) \ (IF pc[p].at \in steps THEN {pc[p].msg} ELSE {}))
            \cup (IF step.at \in steps THEN {step.msg} ELSE {})
    BY <2>2, UncountedMoves
  <2> QED BY <2>1, <2>3
<1>2. NotInChannel' = NotInChannel /\ NotInNode' = NotInNode /\ NotInUser' = NotInUser
  BY <1>1 DEF NotInChannel, NotInNode, NotInUser, After
<1>3. Savers'
  BY SaversMove DEF CountsOK
<1>4. \A q \in Proc : Counting(q) => Counting(q)' /\ pc'[q].msg = pc[q].msg
  BY DEF Counting, After, IInv
<1>5. ChannelsOK'
  BY <1>2, <1>4, ChannelsStay DEF CountsOK
<1>6. NodesOK'
  BY <1>2, NodesStay DEF CountsOK
<1>7. UsersOK'
  BY <1>2, UsersStay DEF CountsOK
<1> QED BY <1>3, <1>5, <1>6, <1>7 DEF CountsOK

\* Those of them that are no failures.
LEMMA NothingCounted ==
  ASSUME IInv, CountsOK, UNCHANGED tables, NEW p \in Proc, NEW step,
         pc' = [pc EXCEPT ![p] = step], pc[p].at \notin After, step.at \notin After
  PROVE  CountsOK'
BY NothingMore DEF tables

\* A statement that fails leaves all counts as they are.
LEMMA StatementFailsCounts ==
  ASSUME IInv, CountsOK, faults \in Nat, NEW p \in Proc, StatementFails(p)
  PROVE  CountsOK'
<1>1. /\ UNCHANGED <<messages, channels, nodes, users, disturbed>> /\ faults' # 0
      /\ pc' = [pc EXCEPT ![p] = Idle] /\ pc[p].at \notin After
  BY DEF StatementFails, Goes, After
<1>2. Idle.at \notin After
  BY StepFields DEF After
<1> QED BY <1>1, <1>2, NothingMore

\* PostMessage, HearMessage, ReadNumber and CountForDelete.
LEMMA BeforeInsertCounts ==
  ASSUME IInv, CountsOK, NEW p \in Proc,
         \/ \E m \in Post : PostMessage(p, m)
         \/ p = rx /\ \E m \in Message : HearMessage(m)
         \/ ReadNumber(p)
         \/ \E ch \in Name : CountForDelete(p, ch)
  PROVE  CountsOK'
<1>1. UNCHANGED tables
  BY DEF PostMessage, HearMessage, ReadNumber, CountForDelete
<1>2. pc[p].at \notin After
  BY StepFields DEF PostMessage, HearMessage, ReadNumber, CountForDelete, After
<1>3. PICK step : pc' = [pc EXCEPT ![p] = step] /\ step.at \notin After
  <2>1. CASE \E m \in Post : PostMessage(p, m)
    <3>1. PICK m \in Post : PostMessage(p, m)
      BY <2>1
    <3>2. At("wait", m).at \notin After /\ Idle.at \notin After
      BY StepFields DEF After
    <3> QED BY <3>1, <3>2 DEF PostMessage, Goes, Finish
  <2>2. CASE p = rx /\ \E m \in Message : HearMessage(m)
    <3>1. PICK m \in Message : HearMessage(m)
      BY <2>2
    <3>2. At("wait", m).at \notin After
      BY StepFields DEF After
    <3> QED BY <2>2, <3>1, <3>2 DEF HearMessage, Goes
  <2>3. CASE ReadNumber(p)
    <3>1. Numbered(pc[p].msg, MaxSeq + 1).at \notin After
      BY StepFields DEF After
    <3> QED BY <2>3, <3>1 DEF ReadNumber, Goes
  <2>4. CASE \E ch \in Name : CountForDelete(p, ch)
    <3>1. PICK ch \in Name : CountForDelete(p, ch)
      BY <2>4
    <3>2. Deleting(ch).at \notin After /\ Idle.at \notin After
      BY StepFields DEF After
    <3> QED BY <3>1, <3>2 DEF CountForDelete, Goes, Finish
  <2> QED BY <2>1, <2>2, <2>3, <2>4
<1> QED BY <1>1, <1>2, <1>3, NothingCounted

\* The message that is inserted is counted nowhere yet.
LEMMA InsertedCounts ==
  ASSUME IInv, CountsOK, UNCHANGED <<channels, nodes, users, faults, disturbed>>,
         NEW p \in Proc, pc[p].at \notin After, NEW m \in (IF p = rx THEN Foreign ELSE Post), NEW k,
         m \notin DOMAIN messages, messages' = Put(messages, m, k),
         pc' = [pc EXCEPT ![p] = At("channel", m)]
  PROVE  CountsOK'
<1>1. DOMAIN messages' = DOMAIN messages \cup {m} /\ DOMAIN messages \subseteq Message /\ m \in Message
  BY DEF Put, IInv, Message
<1>2. \A q \in Proc : pc[q].at \in After => pc[q].msg # m
  BY UncountedStored
<1>9. PICK step : step = At("channel", m)
  OBVIOUS
<1>10. pc' = [pc EXCEPT ![p] = step] /\ step.at = "channel" /\ step.msg = m /\ Savers
  BY <1>9, StepFields DEF CountsOK
<1>3. Savers'
  BY <1>2, <1>10, SaversMove
<1>4. ASSUME NEW steps \in SUBSET After, "channel" \in steps
      PROVE  Uncounted(steps)' = Uncounted(steps) \cup {m} /\ m \notin Uncounted(steps)
  <2>1. m \notin Uncounted(steps)
    BY <1>2 DEF Uncounted
  <2>2. Uncounted(steps)' =
          (Uncounted(steps) \ (IF pc[p].at \in steps THEN {pc[p].msg} ELSE {}))
            \cup (IF step.at \in steps THEN {step.msg} ELSE {})
    BY <1>10, UncountedMoves
  <2>3. pc[p].at \notin steps
    OBVIOUS
  <2>4. step.at \in steps /\ step.msg = m
    BY <1>10, <1>4
  <2>5. Uncounted(steps)' = (Uncounted(steps) \ {}) \cup {m}
    BY <2>2, <2>3, <2>4
  <2> QED BY <2>1, <2>5
<1>5. /\ NotInChannel' = NotInChannel \cup {m} /\ m \notin NotInChannel
      /\ NotInNode' = NotInNode \cup {m} /\ m \notin NotInNode
      /\ NotInUser' = NotInUser \cup {m} /\ m \notin NotInUser
  BY <1>4 DEF NotInChannel, NotInNode, NotInUser, After
<1>6. ChannelsOK'
  <2>1. \A ch : /\ Stored(ch)' \ NotInChannel' = Stored(ch) \ NotInChannel
                /\ Count(ch)' = Count(ch)
                /\ Stored(ch) \subseteq Stored(ch)' /\ Stored(ch)' \subseteq DOMAIN messages'
    BY <1>1, <1>5 DEF Stored, Count
  <2>2. ASSUME NEW ch \in DOMAIN channels
        PROVE  channels[ch].nodes <= Cardinality(Writers(ch)')
    <3>1. Writers(ch) \subseteq Writers(ch)' /\ Writers(ch)' \subseteq Node
      BY <1>1 DEF Writers, Stored, Node
    <3>2. IsFiniteSet(Writers(ch)')
      BY <3>1, <1>1, WritersSize, FS_Subset
    <3>3. Cardinality(Writers(ch)) <= Cardinality(Writers(ch)')
      BY <3>1, <3>2, FS_Subset
    <3>4. Cardinality(Writers(ch)) \in Nat /\ Cardinality(Writers(ch)') \in Nat
      BY <3>2, <1>1, WritersSize, FS_CardinalityType
    <3> QED BY <3>3, <3>4 DEF CountsOK, ChannelsOK
  <2>3. ASSUME NEW ch \in DOMAIN channels, ch \notin disturbed,
               \A q \in Proc : Counting(q)' => ChannelOf[pc'[q].msg] # ch
        PROVE  channels[ch].nodes = Cardinality(Writers(ch)')
    <3>1. pc'[p] = At("channel", m) /\ \A q \in Proc \ {p} : pc'[q] = pc[q]
      BY DEF IInv
    <3>2. ChannelOf[m] # ch
      BY <2>3, <3>1, StepFields DEF Counting
    <3>3. Writers(ch)' = Writers(ch)
      BY <3>2, <1>1 DEF Writers, Stored
    <3>4. \A q \in Proc : Counting(q) => ChannelOf[pc[q].msg] # ch
      BY <2>3, <3>1 DEF Counting, After
    <3> QED BY <2>3, <3>3, <3>4 DEF CountsOK, ChannelsOK
  <2> QED BY <2>1, <2>2, <2>3 DEF CountsOK, ChannelsOK
<1>7. NodesOK'
  <2>1. \A n : Of(n)' \ NotInNode' = Of(n) \ NotInNode
    BY <1>1, <1>5 DEF Of
  <2> QED BY <2>1 DEF CountsOK, NodesOK
<1>8. UsersOK'
  <2>1. \A u : By(u)' \ NotInUser' = By(u) \ NotInUser
    BY <1>1, <1>5 DEF By
  <2> QED BY <2>1 DEF CountsOK, UsersOK
<1> QED BY <1>3, <1>6, <1>7, <1>8 DEF CountsOK

\* InsertOwn, with the clash that ends the request.
LEMMA InsertOwnCounts ==
  ASSUME IInv, CountsOK, NEW h \in Handler, InsertOwn(h)
  PROVE  CountsOK'
<1>1. PICK m \in Post : pc[h] = Numbered(m, Cardinality(Own) + 1)
  BY StepFields DEF InsertOwn, IInv, WhereOK, Proc
<1>2. pc[h].msg = m /\ pc[h].seq = Cardinality(Own) + 1 /\ pc[h].at \notin After
  BY <1>1, StepFields DEF After
<1>3. CASE Clash(m, Cardinality(Own) + 1)
  <2>1. UNCHANGED tables /\ pc' = [pc EXCEPT ![h] = Idle] /\ Idle.at \notin After
    BY <1>2, <1>3, StepFields DEF InsertOwn, Finish, Goes, tables, After
  <2> QED BY <1>2, <2>1, NothingCounted DEF Proc
<1>4. CASE ~Clash(m, Cardinality(Own) + 1)
  <2>1. /\ messages' = Put(messages, m, Cardinality(Own) + 1) /\ m \notin DOMAIN messages
        /\ pc' = [pc EXCEPT ![h] = At("channel", m)]
        /\ UNCHANGED <<channels, nodes, users, faults, disturbed>>
    BY <1>2, <1>4 DEF InsertOwn, Goes, Clash
  <2>2. h \in Proc /\ m \in (IF h = rx THEN Foreign ELSE Post)
    BY StoreAssumption DEF Proc
  <2> QED BY <1>2, <2>1, <2>2, InsertedCounts
<1> QED BY <1>3, <1>4

\* InsertHeard, with the row that is there already.
LEMMA InsertHeardCounts ==
  ASSUME IInv, CountsOK, InsertHeard
  PROVE  CountsOK'
<1>1. PICK m \in Foreign \cup DOMAIN messages : pc[rx] = At("wait", m)
  BY StepFields, StoreAssumption DEF InsertHeard, IInv, WhereOK, Proc
<1>2. pc[rx].msg = m /\ rx \in Proc /\ pc[rx].at \notin After
  BY <1>1, StepFields DEF Proc, After
<1>3. CASE m \in DOMAIN messages
  <2>1. UNCHANGED tables /\ pc' = [pc EXCEPT ![rx] = Idle] /\ Idle.at \notin After
    BY <1>2, <1>3, StepFields DEF InsertHeard, Goes, tables, After
  <2> QED BY <1>2, <2>1, NothingCounted
<1>4. CASE m \notin DOMAIN messages
  <2>1. /\ messages' = Put(messages, m, 0)
        /\ pc' = [pc EXCEPT ![rx] = At("channel", m)]
        /\ UNCHANGED <<channels, nodes, users, faults, disturbed>>
    BY <1>2, <1>4 DEF InsertHeard, Goes
  <2> QED BY <1>2, <1>4, <2>1, InsertedCounts
<1> QED BY <1>3, <1>4

\* Where a goroutine in a save is, and that nobody else saves its message.
LEMMA SaverStored ==
  ASSUME IInv, CountsOK, NEW p \in Proc, pc[p].at \in After
  PROVE  /\ pc[p].msg \in DOMAIN messages /\ ChannelOf[pc[p].msg] \in Name
         /\ pc[p].msg \in (IF p = rx THEN Foreign ELSE Post)
         /\ \A q \in Proc \ {p} : pc[q].at \in After => pc[q].msg # pc[p].msg
<1>1. pc[p].msg \in DOMAIN messages /\ DOMAIN messages \subseteq Message
  BY UncountedStored DEF IInv
<1>2. ChannelOf[pc[p].msg] \in Name
  BY <1>1, StoreAssumption
<1> QED BY <1>1, <1>2 DEF CountsOK, Savers

\* A goroutine goes on to a later step of its save: its message is counted in
\* the meantime, or not.
LEMMA SaverGoesOn ==
  ASSUME IInv, CountsOK, NEW p \in Proc, pc[p].at \in After,
         NEW step, pc' = [pc EXCEPT ![p] = step], step.at \in After => step.msg = pc[p].msg
  PROVE  /\ Savers'
         /\ \A steps \in SUBSET After :
              Uncounted(steps)' = IF step.at \in steps THEN Uncounted(steps) \cup {pc[p].msg}
                                                       ELSE Uncounted(steps) \ {pc[p].msg}
         /\ \A steps \in SUBSET After : pc[p].at \in steps <=> pc[p].msg \in Uncounted(steps)
<1>1. Savers
  BY DEF CountsOK
<1>2. Savers'
  BY <1>1, SaverStored, SaversMove
<1>3. ASSUME NEW steps \in SUBSET After
      PROVE  pc[p].at \in steps <=> pc[p].msg \in Uncounted(steps)
  BY <1>1 DEF Savers, Uncounted
<1>4. ASSUME NEW steps \in SUBSET After
      PROVE  Uncounted(steps)' = IF step.at \in steps THEN Uncounted(steps) \cup {pc[p].msg}
                                                      ELSE Uncounted(steps) \ {pc[p].msg}
  <2>1. Uncounted(steps)' =
          (Uncounted(steps) \ (IF pc[p].at \in steps THEN {pc[p].msg} ELSE {}))
            \cup (IF step.at \in steps THEN {step.msg} ELSE {})
    BY <1>1, UncountedMoves
  <2>2. CASE step.at \in steps
    <3>1. step.msg = pc[p].msg
      BY <2>2
    <3> QED BY <2>1, <2>2, <3>1
  <2>3. CASE step.at \notin steps
    BY <2>1, <2>3, <1>3
  <2> QED BY <2>2, <2>3
<1> QED BY <1>2, <1>3, <1>4

-----------------------------------------------------------------------------
\* The statement that counts the message in its channel.
LEMMA CountMessageCounts ==
  ASSUME IInv, CountsOK, NEW p \in Proc, CountMessage(p)
  PROVE  CountsOK'
<1>0. PICK m, ch : m = pc[p].msg /\ ch = ChannelOf[m]
  OBVIOUS
<1>1. PICK step : step = At("unique", m)
  OBVIOUS
<1>2. /\ pc' = [pc EXCEPT ![p] = step] /\ step.at = "unique" /\ step.msg = pc[p].msg
      /\ pc[p].at = "channel" /\ pc[p].at \in After
      /\ UNCHANGED <<messages, nodes, users, faults, disturbed>>
  BY <1>0, <1>1, StepFields DEF CountMessage, Goes, After
<1>3. m \in DOMAIN messages /\ ch \in Name /\ DOMAIN messages \subseteq Message
  BY <1>0, <1>2, SaverStored DEF IInv
<1>4. Savers' /\ \A steps \in SUBSET After :
        /\ Uncounted(steps)' = IF step.at \in steps THEN Uncounted(steps) \cup {pc[p].msg}
                                                    ELSE Uncounted(steps) \ {pc[p].msg}
        /\ pc[p].at \in steps <=> pc[p].msg \in Uncounted(steps)
  BY <1>2, SaverGoesOn
<1>5. /\ NotInChannel' = NotInChannel \ {m} /\ m \in NotInChannel
      /\ NotInNode' = NotInNode /\ NotInUser' = NotInUser
  <2>1. NotInChannel' = NotInChannel \ {m} /\ m \in NotInChannel
    BY <1>0, <1>2, <1>4 DEF NotInChannel, After
  <2>2. NotInNode' = NotInNode
    BY <1>2, <1>4 DEF NotInNode, After
  <2>3. NotInUser' = NotInUser
    BY <1>2, <1>4 DEF NotInUser, After
  <2> QED BY <2>1, <2>2, <2>3
<1>6. channels' = Put(channels, ch, IF ch \in DOMAIN channels
                                    THEN [channels[ch] EXCEPT !.count = @ + 1]
                                    ELSE [count |-> 1, nodes |-> 1])
  BY <1>0 DEF CountMessage
<1>7. /\ DOMAIN channels' = DOMAIN channels \cup {ch}
      /\ \A c \in DOMAIN channels \ {ch} : channels'[c] = channels[c]
      /\ channels'[ch] \in [count : Nat, nodes : Nat] /\ channels'[ch].count = Count(ch) + 1
      /\ channels'[ch].nodes = IF ch \in DOMAIN channels THEN channels[ch].nodes ELSE 1
  <2>1. CASE ch \in DOMAIN channels
    <3>1. channels[ch] \in [count : Nat, nodes : Nat]
      BY <2>1 DEF CountsOK, ChannelsOK
    <3> QED BY <1>6, <2>1, <3>1 DEF Put, Count
  <2>2. CASE ch \notin DOMAIN channels
    BY <1>6, <2>2 DEF Put, Count
  <2> QED BY <2>1, <2>2
<1>8. channels' \in [DOMAIN channels' -> [count : Nat, nodes : Nat]]
  <2>1. channels' = [c \in DOMAIN channels' |-> channels'[c]]
    BY <1>6 DEF Put
  <2>2. \A c \in DOMAIN channels' : channels'[c] \in [count : Nat, nodes : Nat]
    BY <1>7 DEF CountsOK, ChannelsOK
  <2> QED BY <2>1, <2>2
<1>9. /\ \A c : Stored(c)' = Stored(c) /\ Stored(c) \subseteq DOMAIN messages
      /\ \A c : Writers(c)' = Writers(c)
      /\ m \in Stored(ch) /\ \A c : c # ch => m \notin Stored(c)
  BY <1>0, <1>2, <1>3 DEF Stored, Writers
<1>10. Count(ch)' = Count(ch) + 1 /\ \A c : c # ch => Count(c)' = Count(c)
  BY <1>7 DEF Count
<1>11. /\ Cardinality(Stored(ch) \ NotInChannel') = Cardinality(Stored(ch) \ NotInChannel) + 1
       /\ \A c : c # ch => Stored(c) \ NotInChannel' = Stored(c) \ NotInChannel
  <2>1. Stored(ch) \ NotInChannel' = (Stored(ch) \ NotInChannel) \cup {m}
    BY <1>5, <1>9
  <2> QED BY <2>1, <1>3, <1>5, <1>9, OneMore
<1>12. ASSUME NEW c \in Name
       PROVE  /\ Count(c)' <= Cardinality(Stored(c) \ NotInChannel')
              /\ c \notin disturbed => Count(c)' = Cardinality(Stored(c) \ NotInChannel')
  <2>1. Cardinality(Stored(c) \ NotInChannel) \in Nat /\ Count(c) \in Nat
    BY <1>3, <1>9, Sizes DEF CountsOK, ChannelsOK, Count
  <2>2. /\ Count(c) <= Cardinality(Stored(c) \ NotInChannel)
        /\ c \notin disturbed => Count(c) = Cardinality(Stored(c) \ NotInChannel)
    BY DEF CountsOK, ChannelsOK
  <2>3. CASE c = ch
    BY <2>1, <2>2, <2>3, <1>10, <1>11
  <2>4. CASE c # ch
    BY <2>2, <2>4, <1>10, <1>11
  <2> QED BY <2>3, <2>4
<1>13. ASSUME NEW c \in DOMAIN channels'
       PROVE  channels'[c].nodes <= Cardinality(Writers(c))
  <2>1. CASE c \in DOMAIN channels
    BY <2>1, <1>7 DEF CountsOK, ChannelsOK
  <2>2. CASE c \notin DOMAIN channels
    <3>1. c = ch /\ channels'[c].nodes = 1
      BY <1>7, <2>2
    <3>2. Writers(ch) # {} /\ IsFiniteSet(Writers(ch)) /\ Cardinality(Writers(ch)) \in Nat
      BY <1>3, <1>9, WritersSize DEF Writers
    <3>3. Cardinality(Writers(ch)) # 0
      BY <3>2, FS_EmptySet
    <3> QED BY <3>1, <3>2, <3>3
  <2> QED BY <2>1, <2>2
<1>14. ASSUME NEW c \in DOMAIN channels', c \notin disturbed,
              \A q \in Proc : Counting(q)' => ChannelOf[pc'[q].msg] # c
       PROVE  channels'[c].nodes = Cardinality(Writers(c))
  <2>1. pc'[p] = step /\ \A q \in Proc \ {p} : pc'[q] = pc[q]
    BY <1>2 DEF IInv
  <2>2. c # ch
    BY <1>0, <1>2, <1>14, <2>1 DEF Counting
  <2>3. \A q \in Proc : Counting(q) => ChannelOf[pc[q].msg] # c
    BY <1>0, <1>14, <2>1, <2>2 DEF Counting
  <2> QED BY <1>7, <1>14, <2>2, <2>3 DEF CountsOK, ChannelsOK
<1>15. ChannelsOK'
  <2>1. DOMAIN channels' \subseteq Name
    BY <1>3, <1>7 DEF CountsOK, ChannelsOK
  <2> QED BY <2>1, <1>2, <1>8, <1>9, <1>12, <1>13, <1>14 DEF ChannelsOK
<1>16. NodesOK'
  BY <1>2, <1>5, NodesStay DEF CountsOK
<1>17. UsersOK'
  BY <1>2, <1>5, UsersStay DEF CountsOK
<1> QED BY <1>4, <1>15, <1>16, <1>17 DEF CountsOK

\* The statement that counts the nodes of the channel.
LEMMA CountWritersCounts ==
  ASSUME IInv, CountsOK, NEW p \in Proc, CountWriters(p)
  PROVE  CountsOK'
<1>0. PICK m, ch : m = pc[p].msg /\ ch = ChannelOf[m]
  OBVIOUS
<1>1. PICK step : step = At("node", m)
  OBVIOUS
<1>2. /\ pc' = [pc EXCEPT ![p] = step] /\ step.at = "node" /\ step.msg = pc[p].msg
      /\ pc[p].at = "unique" /\ pc[p].at \in After
      /\ UNCHANGED <<messages, nodes, users, faults, disturbed>>
  BY <1>0, <1>1, StepFields DEF CountWriters, Goes, After
<1>3. m \in DOMAIN messages /\ ch \in Name /\ DOMAIN messages \subseteq Message
  BY <1>0, <1>2, SaverStored DEF IInv
<1>4. Savers' /\ \A steps \in SUBSET After :
        /\ Uncounted(steps)' = IF step.at \in steps THEN Uncounted(steps) \cup {pc[p].msg}
                                                    ELSE Uncounted(steps) \ {pc[p].msg}
        /\ pc[p].at \in steps <=> pc[p].msg \in Uncounted(steps)
  BY <1>2, SaverGoesOn
<1>5. NotInChannel' = NotInChannel /\ NotInNode' = NotInNode /\ NotInUser' = NotInUser
  BY <1>0, <1>2, <1>4 DEF NotInChannel, NotInNode, NotInUser, After
<1>6. \A c : /\ Stored(c)' = Stored(c) /\ Writers(c)' = Writers(c)
             /\ Cardinality(Writers(c)) \in Nat
  <2>1. \A c : Stored(c)' = Stored(c) /\ Writers(c)' = Writers(c)
    BY <1>2 DEF Stored, Writers
  <2>2. \A c : Cardinality(Writers(c)) \in Nat
    BY <1>3, WritersSize
  <2> QED BY <2>1, <2>2
<1>7. /\ DOMAIN channels' = DOMAIN channels
      /\ channels' \in [DOMAIN channels -> [count : Nat, nodes : Nat]]
      /\ \A c \in DOMAIN channels : /\ c # ch => channels'[c] = channels[c]
                                    /\ channels'[c].count = channels[c].count
                                    /\ c = ch => channels'[c].nodes = Cardinality(Writers(c))
  <2>1. channels \in [DOMAIN channels -> [count : Nat, nodes : Nat]]
    BY DEF CountsOK, ChannelsOK
  <2>2. CASE ch \in DOMAIN channels
    <3>1. channels' = [channels EXCEPT ![ch].nodes = Cardinality(Writers(ch))]
      BY <1>0, <2>2 DEF CountWriters
    <3> QED BY <1>6, <2>1, <2>2, <3>1
  <2>3. CASE ch \notin DOMAIN channels
    <3>1. channels' = channels
      BY <1>0, <2>3 DEF CountWriters
    <3> QED BY <2>1, <2>3, <3>1
  <2> QED BY <2>2, <2>3
<1>8. \A c : Count(c)' = Count(c)
  BY <1>7 DEF Count
<1>9. ASSUME NEW c \in DOMAIN channels
      PROVE  channels'[c].nodes <= Cardinality(Writers(c))
  BY <1>6, <1>7 DEF CountsOK, ChannelsOK
<1>10. ASSUME NEW c \in DOMAIN channels, c \notin disturbed,
              \A q \in Proc : Counting(q)' => ChannelOf[pc'[q].msg] # c
       PROVE  channels'[c].nodes = Cardinality(Writers(c))
  <2>1. CASE c = ch
    BY <1>7, <2>1
  <2>2. CASE c # ch
    <3>1. \A q \in Proc \ {p} : pc'[q] = pc[q]
      BY <1>2 DEF IInv
    <3>2. \A q \in Proc : Counting(q) => ChannelOf[pc[q].msg] # c
      BY <1>0, <1>10, <2>2, <3>1 DEF Counting
    <3> QED BY <1>7, <1>10, <2>2, <3>2 DEF CountsOK, ChannelsOK
  <2> QED BY <2>1, <2>2
<1>11. ChannelsOK'
  BY <1>2, <1>5, <1>6, <1>7, <1>8, <1>9, <1>10 DEF CountsOK, ChannelsOK
<1>12. NodesOK'
  BY <1>2, <1>5, NodesStay DEF CountsOK
<1>13. UsersOK'
  BY <1>2, <1>5, UsersStay DEF CountsOK
<1> QED BY <1>4, <1>11, <1>12, <1>13 DEF CountsOK

\* The statement that counts the message for its node, and ends the save.
LEMMA CountForNodeCounts ==
  ASSUME IInv, CountsOK, NEW p \in Proc, CountForNode(p)
  PROVE  CountsOK'
<1>0. PICK m, n : m = pc[p].msg /\ n = From[m]
  OBVIOUS
<1>1. PICK step : step = AfterSave(p, m)
  OBVIOUS
<1>2. /\ pc' = [pc EXCEPT ![p] = step] /\ pc[p].at = "node" /\ pc[p].at \in After
      /\ step.at \in {"idle", "user"} /\ (step.at \in After => step.msg = pc[p].msg)
      /\ UNCHANGED <<messages, channels, users, faults, disturbed>>
      /\ nodes' = [nodes EXCEPT ![n].count = @ + 1]
  BY <1>0, <1>1, StepFields DEF CountForNode, Goes, After, AfterSave
<1>3. m \in DOMAIN messages /\ DOMAIN messages \subseteq Message /\ n \in Node
  BY <1>0, <1>2, SaverStored DEF IInv, Node
<1>4. Savers' /\ \A steps \in SUBSET After :
        /\ Uncounted(steps)' = IF step.at \in steps THEN Uncounted(steps) \cup {pc[p].msg}
                                                    ELSE Uncounted(steps) \ {pc[p].msg}
        /\ pc[p].at \in steps <=> pc[p].msg \in Uncounted(steps)
  BY <1>2, SaverGoesOn
<1>5. NotInChannel' = NotInChannel
  BY <1>2, <1>4 DEF NotInChannel, After
<1>6. NotInNode' = NotInNode \ {m} /\ m \in NotInNode
  BY <1>0, <1>2, <1>4 DEF NotInNode, After
<1>7. NotInUser' \subseteq NotInUser
  BY <1>2, <1>4 DEF NotInUser, After
<1>8. /\ \A x : Of(x)' = Of(x) /\ Of(x) \subseteq DOMAIN messages
      /\ m \in Of(n) /\ \A x : x # n => m \notin Of(x)
  BY <1>0, <1>2, <1>3 DEF Of
<1>9. /\ Cardinality(Of(n) \ NotInNode') = Cardinality(Of(n) \ NotInNode) + 1
      /\ \A x : x # n => Of(x) \ NotInNode' = Of(x) \ NotInNode
  <2>1. Of(n) \ NotInNode' = (Of(n) \ NotInNode) \cup {m}
    BY <1>6, <1>8
  <2> QED BY <2>1, <1>3, <1>6, <1>8, OneMore
<1>10. /\ nodes' \in [Node -> [count : Nat, syncs : 0 .. MaxSyncs]]
       /\ nodes'[n].count = nodes[n].count + 1
       /\ \A x \in Node : x # n => nodes'[x] = nodes[x]
  BY <1>2, <1>3 DEF CountsOK, NodesOK
<1>11. ASSUME NEW x \in Node
       PROVE  /\ nodes'[x].count <= Cardinality(Of(x) \ NotInNode')
              /\ faults = 0 => nodes'[x].count = Cardinality(Of(x) \ NotInNode')
  <2>1. /\ nodes[x].count <= Cardinality(Of(x) \ NotInNode)
        /\ faults = 0 => nodes[x].count = Cardinality(Of(x) \ NotInNode)
    BY DEF CountsOK, NodesOK
  <2>2. CASE x = n
    <3>1. Cardinality(Of(x) \ NotInNode) \in Nat /\ nodes[x].count \in Nat
      BY <1>3, <1>8, Sizes DEF CountsOK, NodesOK
    <3> QED BY <2>1, <2>2, <3>1, <1>9, <1>10
  <2>3. CASE x # n
    BY <2>1, <2>3, <1>9, <1>10
  <2> QED BY <2>2, <2>3
<1>12. NodesOK'
  BY <1>2, <1>8, <1>10, <1>11 DEF NodesOK
<1>13. ChannelsOK'
  <2>1. \A q \in Proc : Counting(q) => Counting(q)' /\ pc'[q].msg = pc[q].msg
    BY <1>2 DEF Counting, IInv
  <2> QED BY <2>1, <1>2, <1>5, ChannelsStay DEF CountsOK
<1>14. UsersOK'
  BY <1>2, <1>7, UsersStay DEF CountsOK
<1> QED BY <1>4, <1>12, <1>13, <1>14 DEF CountsOK

\* A statement of the statistics fails: its channel is disturbed for good.
LEMMA StatisticsFailCounts ==
  ASSUME IInv, CountsOK, faults \in Nat, NEW p \in Proc, StatisticsFail(p)
  PROVE  CountsOK'
<1>0. PICK m : m = pc[p].msg
  OBVIOUS
<1>1. PICK step \in {At("unique", m), At("node", m), AfterSave(p, m)} :
        pc' = [pc EXCEPT ![p] = step] /\ (step.at = "unique" => pc[p].at = "channel")
  BY <1>0, StepFields DEF StatisticsFail, Goes, AfterSave
<1>2. /\ pc[p].at \in {"channel", "unique", "node"} /\ pc[p].at \in After
      /\ step.at \in {"unique", "node", "user", "idle"}
      /\ (step.at \in After => step.msg = pc[p].msg)
      /\ UNCHANGED <<messages, channels, nodes, users>>
      /\ faults' # 0 /\ disturbed' = disturbed \cup {ChannelOf[m]}
  BY <1>0, <1>1, StepFields DEF StatisticsFail, After, AfterSave
<1>3. Savers' /\ \A steps \in SUBSET After :
        /\ Uncounted(steps)' = IF step.at \in steps THEN Uncounted(steps) \cup {pc[p].msg}
                                                    ELSE Uncounted(steps) \ {pc[p].msg}
        /\ pc[p].at \in steps <=> pc[p].msg \in Uncounted(steps)
  BY <1>1, <1>2, SaverGoesOn
<1>4. NotInChannel' = NotInChannel \ {m}
  BY <1>0, <1>2, <1>3 DEF NotInChannel, After
<1>5. NotInNode' \subseteq NotInNode
  BY <1>2, <1>3 DEF NotInNode, After
<1>6. NotInUser' \subseteq NotInUser
  BY <1>2, <1>3 DEF NotInUser, After
<1>7. ChannelsOK'
  <2>1. \A q \in Proc : Counting(q) =>
           \/ Counting(q)' /\ pc'[q].msg = pc[q].msg
           \/ ChannelOf[pc[q].msg] \in disturbed'
    BY <1>0, <1>1, <1>2 DEF Counting, IInv
  <2> QED BY <2>1, <1>2, <1>4, ChannelsStay DEF CountsOK
<1>8. NodesOK'
  BY <1>2, <1>5, NodesStay DEF CountsOK
<1>9. UsersOK'
  BY <1>2, <1>6, UsersStay DEF CountsOK
<1> QED BY <1>3, <1>7, <1>8, <1>9 DEF CountsOK

\* A post is counted for its author, if it has one.
LEMMA CountForUserCounts ==
  ASSUME IInv, CountsOK, faults \in Nat, NEW h \in Handler, CountForUser(h)
  PROVE  CountsOK'
<1>0. PICK m, u : m = pc[h].msg /\ u = Author[m]
  OBVIOUS
<1>1. PICK step : step = Idle
  OBVIOUS
<1>2. /\ pc' = [pc EXCEPT ![h] = step] /\ pc[h].at = "user" /\ pc[h].at \in After /\ h \in Proc
      /\ step.at = "idle" /\ step.at \notin After
      /\ UNCHANGED <<messages, channels, nodes, disturbed>> /\ (faults' = 0 => faults = 0)
      /\ users' \in {users, IF u = NoUser THEN users ELSE [users EXCEPT ![u] = @ + 1]}
  BY <1>0, <1>1, StepFields DEF CountForUser, Finish, Goes, After, Proc
<1>3. /\ m \in DOMAIN messages /\ DOMAIN messages \subseteq Message /\ m \in Post
      /\ (u # NoUser => u \in User)
  BY <1>0, <1>2, SaverStored, StoreAssumption DEF IInv, User
<1>4. Savers' /\ \A steps \in SUBSET After :
        /\ Uncounted(steps)' = IF step.at \in steps THEN Uncounted(steps) \cup {pc[h].msg}
                                                    ELSE Uncounted(steps) \ {pc[h].msg}
        /\ pc[h].at \in steps <=> pc[h].msg \in Uncounted(steps)
  BY <1>2, SaverGoesOn
<1>5. NotInChannel' = NotInChannel
  BY <1>2, <1>4 DEF NotInChannel, After
<1>6. NotInNode' = NotInNode
  BY <1>2, <1>4 DEF NotInNode, After
<1>7. NotInUser' = NotInUser \ {m} /\ m \in NotInUser
  BY <1>0, <1>2, <1>4 DEF NotInUser, After
<1>8. /\ \A x : By(x)' = By(x) /\ By(x) \subseteq DOMAIN messages
      /\ m \in By(u)
  BY <1>0, <1>2, <1>3 DEF By
<1>9. UsersOK'
  <2>1. CASE users' = users
    <3>1. UNCHANGED <<messages, users>> /\ NotInUser' \subseteq NotInUser
      BY <1>2, <1>7, <2>1
    <3> QED BY <3>1, UsersStay DEF CountsOK
  <2>2. CASE u # NoUser /\ users' = [users EXCEPT ![u] = @ + 1]
    <3>1. /\ users' \in [User -> Nat] /\ users'[u] = users[u] + 1
          /\ \A x \in User : x # u => users'[x] = users[x]
      BY <1>2, <1>3, <2>2 DEF CountsOK, UsersOK
    <3>2. Cardinality(By(u) \ NotInUser') = Cardinality(By(u) \ NotInUser) + 1
      <4>1. By(u) \ NotInUser' = (By(u) \ NotInUser) \cup {m}
        BY <1>7, <1>8
      <4> QED BY <4>1, <1>3, <1>7, <1>8, OneMore
    <3>3. \A x : x # u => By(x) \ NotInUser' = By(x) \ NotInUser
      BY <1>0, <1>7 DEF By
    <3>4. ASSUME NEW x \in User
          PROVE  users'[x] <= Cardinality(By(x) \ NotInUser')
      <4>1. users[x] <= Cardinality(By(x) \ NotInUser)
        BY DEF CountsOK, UsersOK
      <4>2. CASE x = u
        <5>1. Cardinality(By(x) \ NotInUser) \in Nat /\ users[x] \in Nat
          BY <1>3, <1>8, Sizes DEF CountsOK, UsersOK
        <5> QED BY <3>1, <3>2, <4>1, <4>2, <5>1
      <4>3. CASE x # u
        BY <3>1, <3>3, <4>1, <4>3
      <4> QED BY <4>2, <4>3
    <3> QED BY <1>2, <1>8, <3>1, <3>4 DEF UsersOK
  <2> QED BY <1>2, <2>1, <2>2
<1>10. ChannelsOK'
  <2>1. \A q \in Proc : Counting(q) => Counting(q)' /\ pc'[q].msg = pc[q].msg
    BY <1>2 DEF Counting, IInv
  <2> QED BY <2>1, <1>2, <1>5, ChannelsStay DEF CountsOK
<1>11. NodesOK'
  BY <1>2, <1>6, NodesStay DEF CountsOK
<1> QED BY <1>4, <1>9, <1>10, <1>11 DEF CountsOK

\* A crash loses what was not counted yet.
LEMMA CrashCounts ==
  ASSUME IInv, CountsOK, faults \in Nat, Crash
  PROVE  CountsOK'
<1>1. /\ UNCHANGED <<messages, channels, nodes, users>> /\ faults' # 0
      /\ disturbed' = disturbed \cup {ChannelOf[pc[q].msg] : q \in {r \in Proc : Counting(r)}}
      /\ \A q \in Proc : pc'[q].at = "idle"
  BY StepFields DEF Crash
<1>2. \A q \in Proc : pc'[q].at \notin After
  BY <1>1 DEF After
<1>3. NotInChannel' = {} /\ NotInNode' = {} /\ NotInUser' = {}
  BY <1>2 DEF NotInChannel, NotInNode, NotInUser, Uncounted, After
<1>4. Savers'
  BY <1>2 DEF Savers
<1>5. \A m \in NotInChannel : ChannelOf[m] \in disturbed'
  BY <1>1 DEF NotInChannel, Uncounted, Counting
<1>6. \A q \in Proc : Counting(q) => ChannelOf[pc[q].msg] \in disturbed'
  BY <1>1
<1>7. ChannelsOK'
  BY <1>1, <1>3, <1>5, <1>6, ChannelsStay DEF CountsOK
<1>8. NodesOK'
  BY <1>1, <1>3, NodesStay DEF CountsOK
<1>9. UsersOK'
  BY <1>1, <1>3, UsersStay DEF CountsOK
<1> QED BY <1>4, <1>7, <1>8, <1>9 DEF CountsOK

\* An SVEC is counted for its node.
LEMMA UpdateNodeSyncCounts ==
  ASSUME IInv, CountsOK, NEW n \in Node, UpdateNodeSync(n)
  PROVE  CountsOK'
<1>1. /\ UNCHANGED <<messages, channels, users, faults, disturbed, pc>>
      /\ nodes[n].syncs < MaxSyncs /\ nodes' = [nodes EXCEPT ![n].syncs = @ + 1]
  BY DEF UpdateNodeSync
<1>2. nodes \in [Node -> [count : Nat, syncs : 0 .. MaxSyncs]]
  BY DEF CountsOK, NodesOK
<1>3. /\ nodes' \in [Node -> [count : Nat, syncs : 0 .. MaxSyncs]]
      /\ \A x \in Node : nodes'[x].count = nodes[x].count
  BY <1>1, <1>2, StoreAssumption
<1>4. NotInChannel' = NotInChannel /\ NotInNode' = NotInNode /\ NotInUser' = NotInUser
  BY <1>1 DEF NotInChannel, NotInNode, NotInUser, Uncounted
<1>5. NodesOK'
  <2>1. \A x : Of(x)' = Of(x)
    BY <1>1 DEF Of
  <2> QED BY <2>1, <1>1, <1>3, <1>4 DEF CountsOK, NodesOK
<1>6. Savers'
  BY <1>1 DEF CountsOK, Savers
<1>7. ChannelsOK'
  <2>1. \A q \in Proc : Counting(q) => Counting(q)' /\ pc'[q].msg = pc[q].msg
    BY <1>1 DEF Counting
  <2> QED BY <2>1, <1>1, <1>4, ChannelsStay DEF CountsOK
<1>8. UsersOK'
  BY <1>1, <1>4, UsersStay DEF CountsOK
<1> QED BY <1>5, <1>6, <1>7, <1>8 DEF CountsOK

\* A row that is not there counts as a row with zeros.
LEMMA EmptyRow ==
  ASSUME IInv, CountsOK, NEW ch \in Name, ch \notin disturbed, ch \notin DOMAIN channels,
         \A p \in Proc : Counting(p) => ChannelOf[pc[p].msg] # ch
  PROVE  Cardinality(Writers(ch)) = 0
<1>1. Cardinality(Stored(ch) \ NotInChannel) = 0
  BY DEF CountsOK, ChannelsOK, Count
<1>2. IsFiniteSet(Stored(ch) \ NotInChannel)
  BY Sizes DEF IInv, Stored
<1>3. Stored(ch) \subseteq NotInChannel
  BY <1>1, <1>2, FS_EmptySet
<1>4. \A m \in NotInChannel : ChannelOf[m] # ch
  BY DEF NotInChannel, Uncounted, Counting
<1>5. Writers(ch) = {}
  BY <1>3, <1>4 DEF Writers, Stored
<1> QED BY <1>5, FS_EmptySet

\* CreateChannel: a new channel has zeros.
LEMMA CreateChannelCounts ==
  ASSUME IInv, CountsOK, NEW h \in Handler, NEW name \in Name, CreateChannel(h, name)
  PROVE  CountsOK'
<1>1. PICK ch : ch = Lower[name]
  OBVIOUS
<1>2. ch \in Name /\ UNCHANGED <<messages, nodes, users, faults, disturbed, pc>>
  BY <1>1, StoreAssumption DEF CreateChannel
<1>3. NotInChannel' = NotInChannel /\ NotInNode' = NotInNode /\ NotInUser' = NotInUser
  BY <1>2 DEF NotInChannel, NotInNode, NotInUser, Uncounted
<1>4. \A q \in Proc : Counting(q)' <=> Counting(q)
  BY <1>2 DEF Counting
<1>5. CASE channels' = channels
  BY <1>2, <1>3, <1>4, <1>5, ChannelsStay, NodesStay, UsersStay DEF CountsOK, Savers
<1>6. CASE ch \notin DOMAIN channels /\ channels' = Put(channels, ch, [count |-> 0, nodes |-> 0])
  <2>1. /\ DOMAIN channels' = DOMAIN channels \cup {ch}
        /\ channels' \in [DOMAIN channels' -> [count : Nat, nodes : Nat]]
        /\ channels'[ch].count = 0 /\ channels'[ch].nodes = 0
        /\ \A c \in DOMAIN channels : channels'[c] = channels[c]
    BY <1>6 DEF CountsOK, ChannelsOK, Put
  <2>2. \A c : Stored(c)' = Stored(c)
    BY <1>2 DEF Stored
  <2>3. \A c : Writers(c)' = Writers(c)
    BY <2>2 DEF Writers
  <2>4. \A c : Count(c)' = Count(c)
    BY <1>6, <2>1 DEF Count
  <2>5. ASSUME NEW c \in DOMAIN channels'
        PROVE  channels'[c].nodes <= Cardinality(Writers(c))
    <3>1. CASE c \in DOMAIN channels
      BY <2>1, <3>1 DEF CountsOK, ChannelsOK
    <3>2. CASE c = ch
      <4>1. Cardinality(Writers(ch)) \in Nat
        BY WritersSize DEF IInv
      <4> QED BY <2>1, <3>2, <4>1
    <3> QED BY <2>1, <3>1, <3>2
  <2>6. ASSUME NEW c \in DOMAIN channels', c \notin disturbed,
               \A q \in Proc : Counting(q) => ChannelOf[pc[q].msg] # c
        PROVE  channels'[c].nodes = Cardinality(Writers(c))
    <3>1. CASE c \in DOMAIN channels
      BY <2>1, <2>6, <3>1 DEF CountsOK, ChannelsOK
    <3>2. CASE c = ch
      <4>1. Cardinality(Writers(ch)) = 0
        BY <1>2, <1>6, <2>6, <3>2, EmptyRow
      <4> QED BY <2>1, <3>2, <4>1
    <3> QED BY <2>1, <3>1, <3>2
  <2>7. DOMAIN channels' \subseteq Name
    BY <1>2, <2>1 DEF CountsOK, ChannelsOK
  <2>8. ChannelsOK'
    BY <1>2, <1>3, <1>4, <2>1, <2>2, <2>3, <2>4, <2>5, <2>6, <2>7 DEF CountsOK, ChannelsOK
  <2> QED BY <1>2, <1>3, <2>8, NodesStay, UsersStay DEF CountsOK, Savers
<1> QED BY <1>1, <1>5, <1>6 DEF CreateChannel, InsertChannel

\* DeleteRow: a row that goes while its channel has messages is a disturbance.
LEMMA DeleteRowCounts ==
  ASSUME IInv, CountsOK, NEW h \in Handler, DeleteRow(h)
  PROVE  CountsOK'
<1>1. PICK ch : ch = pc[h].channel
  OBVIOUS
<1>2. /\ UNCHANGED <<messages, nodes, users, faults>> /\ h \in Proc
      /\ pc' = [pc EXCEPT ![h] = Idle] /\ pc[h].at \notin After /\ Idle.at \notin After
  BY StepFields DEF DeleteRow, Finish, Goes, After, Proc
<1>3. CASE UNCHANGED <<channels, disturbed>>
  BY <1>2, <1>3, NothingCounted DEF tables
<1>4. CASE /\ ch \in DOMAIN channels
           /\ channels' = [c \in DOMAIN channels \ {ch} |-> channels[c]]
           /\ disturbed' = IF Stored(ch) = {} THEN disturbed ELSE disturbed \cup {ch}
  <2>1. ASSUME NEW steps \in SUBSET After
        PROVE  Uncounted(steps)' = Uncounted(steps)
    <3>1. pc[h].at \notin steps /\ Idle.at \notin steps
      BY <1>2
    <3>2. \A q \in Proc \ {h} : pc'[q] = pc[q]
      BY <1>2 DEF IInv
    <3>3. pc'[h] = Idle
      BY <1>2 DEF IInv
    <3> QED BY <3>1, <3>2, <3>3 DEF Uncounted
  <2>2. NotInChannel' = NotInChannel /\ NotInNode' = NotInNode /\ NotInUser' = NotInUser
    BY <2>1 DEF NotInChannel, NotInNode, NotInUser, After
  <2>3. Savers'
    BY <1>2, SaversMove DEF CountsOK
  <2>4. /\ DOMAIN channels' = DOMAIN channels \ {ch}
        /\ channels' \in [DOMAIN channels' -> [count : Nat, nodes : Nat]]
        /\ \A c \in DOMAIN channels' : channels'[c] = channels[c]
    BY <1>4 DEF CountsOK, ChannelsOK
  <2>5. \A c : Stored(c)' = Stored(c)
    BY <1>2 DEF Stored
  <2>6. \A c : Writers(c)' = Writers(c)
    BY <2>5 DEF Writers
  <2>7. Count(ch)' = 0 /\ \A c : c # ch => Count(c)' = Count(c)
    BY <2>4 DEF Count
  <2>8. ASSUME NEW c \in Name
        PROVE  /\ Count(c)' <= Cardinality(Stored(c) \ NotInChannel)
               /\ c \notin disturbed' => Count(c)' = Cardinality(Stored(c) \ NotInChannel)
    <3>1. CASE c = ch
      <4>1. Cardinality(Stored(c) \ NotInChannel) \in Nat
        BY Sizes DEF IInv, Stored
      <4>2. c \notin disturbed' => Stored(c) \ NotInChannel = {}
        BY <1>4, <3>1
      <4> QED BY <2>7, <3>1, <4>1, <4>2, FS_EmptySet
    <3>2. CASE c # ch
      BY <1>4, <2>7, <3>2 DEF CountsOK, ChannelsOK
    <3> QED BY <3>1, <3>2
  <2>9. ASSUME NEW c \in DOMAIN channels', c \notin disturbed',
               \A q \in Proc : Counting(q)' => ChannelOf[pc'[q].msg] # c
        PROVE  channels'[c].nodes = Cardinality(Writers(c))
    <3>1. c \notin disturbed
      BY <1>4, <2>9
    <3>2. \A q \in Proc : Counting(q) => ChannelOf[pc[q].msg] # c
      BY <1>2, <2>9 DEF Counting, After, IInv
    <3> QED BY <2>4, <2>9, <3>1, <3>2 DEF CountsOK, ChannelsOK
  <2>10. ChannelsOK'
    <3>1. DOMAIN channels' \subseteq Name
      BY <2>4 DEF CountsOK, ChannelsOK
    <3>2. \A c \in DOMAIN channels' : channels'[c].nodes <= Cardinality(Writers(c))
      BY <2>4 DEF CountsOK, ChannelsOK
    <3> QED BY <2>2, <2>4, <2>5, <2>6, <2>8, <2>9, <3>1, <3>2 DEF ChannelsOK
  <2> QED BY <1>2, <2>2, <2>3, <2>10, NodesStay, UsersStay DEF CountsOK
<1> QED BY <1>1, <1>3, <1>4 DEF DeleteRow

-----------------------------------------------------------------------------
\* Answers have the fields and the status codes of the handlers.
LEMMA AnswerTyped ==
  ASSUME IInv, ReplyOK, NEW h \in Handler, NEW op \in {"post", "delete"}, NEW arg,
         NEW status \in {200, 201, 404, 409, 422, 500},
         reply' = [reply EXCEPT ![h] = Answer(op, arg, status)]
  PROVE  ReplyOK'
<1>1. reply'[h].op = op /\ reply'[h].status = status
  BY DEF IInv, Answer
<1>2. \A g \in Handler \ {h} : reply'[g] = reply[g]
  BY DEF IInv
<1> QED BY <1>1, <1>2 DEF ReplyOK

\* An own message gets a number no larger than the posts there are.
LEMMA NumberTyped ==
  ASSUME NEW m \in Post, m \notin DOMAIN messages
  PROVE  Cardinality(Own) + 1 \in 0 .. Cardinality(Post)
<1>1. Own \cup {m} \in SUBSET Post /\ m \notin Own
  BY DEF Own
<1>2. Cardinality(Own \cup {m}) = Cardinality(Own) + 1
  BY <1>1, OwnFinite, FS_AddElement
<1>3. Cardinality(Own \cup {m}) <= Cardinality(Post) /\ Cardinality(Post) \in Nat
  BY <1>1, StoreAssumption, FS_Subset, FS_CardinalityType
<1> QED BY <1>2, <1>3, OwnFinite

\* The types of the other variables.
LEMMA HandlerTyped ==
  ASSUME IInv, CountsOK, RestOK, NEW h \in Handler,
         \/ \E m \in Post : PostMessage(h, m)
         \/ \E name \in Name : CreateChannel(h, name) \/ CountForDelete(h, name)
         \/ ReadNumber(h) \/ Serve(h)
  PROVE  RestOK'
<1>1. CASE \E m \in Post : PostMessage(h, m)
  <2>1. PICK m \in Post : PostMessage(h, m)
    BY <1>1
  <2>2. UNCHANGED <<tables, mu>> /\
        (reply' = [reply EXCEPT ![h] = NoReply] \/ reply' = [reply EXCEPT ![h] = Answer("post", m, 422)])
    BY <2>1 DEF PostMessage, Finish
  <2>3. ReplyOK'
    BY <2>2, AnswerTyped DEF RestOK, ReplyOK, IInv
  <2> QED BY <2>2, <2>3 DEF RestOK, tables
<1>2. CASE \E name \in Name : CreateChannel(h, name)
  BY <1>2 DEF CreateChannel, RestOK, ReplyOK
<1>3. CASE \E ch \in Name : CountForDelete(h, ch)
  <2>1. PICK ch \in Name : CountForDelete(h, ch)
    BY <1>3
  <2>2. UNCHANGED <<tables, mu>> /\
        (reply' = [reply EXCEPT ![h] = NoReply] \/ reply' = [reply EXCEPT ![h] = Answer("delete", ch, 409)])
    BY <2>1 DEF CountForDelete, Finish, DeleteAnswer
  <2>3. ReplyOK'
    BY <2>2, AnswerTyped DEF RestOK, ReplyOK, IInv
  <2> QED BY <2>2, <2>3 DEF RestOK, tables
<1>4. CASE ReadNumber(h)
  BY <1>4 DEF ReadNumber, tables, RestOK, ReplyOK, Proc
<1>5. CASE InsertOwn(h)
  <2>1. PICK m \in Post : pc[h] = Numbered(m, Cardinality(Own) + 1)
    BY <1>5, StepFields DEF InsertOwn, IInv, WhereOK, Proc
  <2>2. pc[h].msg = m /\ pc[h].seq = Cardinality(Own) + 1
    BY <2>1, StepFields
  <2>3. CASE Clash(m, Cardinality(Own) + 1)
    <3>1. UNCHANGED tables /\ mu' = Free /\ reply' = [reply EXCEPT ![h] = Answer("post", m, 500)]
      BY <1>5, <2>2, <2>3 DEF InsertOwn, Finish, tables
    <3>2. ReplyOK'
      BY <3>1, AnswerTyped DEF RestOK, ReplyOK, IInv, Answer
    <3> QED BY <3>1, <3>2 DEF RestOK, tables
  <2>4. CASE ~Clash(m, Cardinality(Own) + 1)
    <3>1. /\ messages' = Put(messages, m, Cardinality(Own) + 1) /\ m \notin DOMAIN messages
          /\ UNCHANGED <<mu, reply, faults, disturbed>>
      BY <1>5, <2>2, <2>4 DEF InsertOwn, Clash
    <3>2. messages' \in [DOMAIN messages' -> 0 .. Cardinality(Post)]
      BY <3>1, NumberTyped DEF Put, RestOK
    <3> QED BY <3>1, <3>2 DEF RestOK, ReplyOK
  <2> QED BY <2>3, <2>4
<1>6. CASE CountForUser(h)
  <2>0. PICK m : m = pc[h].msg
    OBVIOUS
  <2>1. /\ UNCHANGED <<messages, disturbed, mu>>
        /\ faults' = faults \/ (faults < MaxFaults /\ faults' = faults + 1)
        /\ reply' = [reply EXCEPT ![h] = Answer("post", m, 201)]
    <3>1. Finish(h, Answer("post", m, 201)) /\ UNCHANGED <<messages, disturbed, mu>>
      BY <1>6, <2>0 DEF CountForUser
    <3>2. faults' = faults \/ (faults < MaxFaults /\ faults' = faults + 1)
      BY <1>6 DEF CountForUser
    <3> QED BY <3>1, <3>2 DEF Finish
  <2>2. ReplyOK'
    BY <2>1, AnswerTyped DEF RestOK, ReplyOK, IInv, Answer
  <2> QED BY <2>1, <2>2, StoreAssumption DEF RestOK
<1>7. CASE DeleteRow(h)
  <2>1. PICK status \in {200, 404} : reply' = [reply EXCEPT ![h] = Answer("delete", pc[h].channel, status)]
    BY <1>7 DEF DeleteRow, Finish, DeleteAnswer
  <2>2. ReplyOK'
    BY <2>1, AnswerTyped DEF RestOK, ReplyOK, IInv, Answer
  <2>3. pc[h].channel \in Name
    <3>1. pc[h].at = "delete" /\ WhereOK(h)
      BY <1>7 DEF DeleteRow, IInv, Proc
    <3> QED BY <3>1, StepFields DEF WhereOK
  <2>4. UNCHANGED <<messages, faults, mu>> /\ disturbed' \subseteq Name
    <3>1. PICK ch : ch = pc[h].channel
      OBVIOUS
    <3>2. disturbed' = disturbed \/ disturbed' = disturbed \cup {ch}
      BY <1>7, <3>1 DEF DeleteRow
    <3>3. UNCHANGED <<messages, faults, mu>>
      BY <1>7 DEF DeleteRow
    <3> QED BY <2>3, <3>1, <3>2, <3>3 DEF RestOK
  <2> QED BY <2>2, <2>4 DEF RestOK
<1> QED BY <1>1, <1>2, <1>3, <1>4, <1>5, <1>6, <1>7 DEF Serve

\* The same for the other steps.
LEMMA OtherTyped ==
  ASSUME IInv, CountsOK, RestOK,
         \/ \E m \in Message : HearMessage(m)
         \/ InsertHeard
         \/ \E n \in Node \ {Self} : UpdateNodeSync(n)
         \/ \E p \in Proc : Save(p) \/ StatisticsFail(p) \/ StatementFails(p)
         \/ Crash
  PROVE  RestOK'
<1>1. CASE \E m \in Message : HearMessage(m)
  BY <1>1 DEF HearMessage, tables, RestOK, ReplyOK
<1>2. CASE InsertHeard
  <2>1. messages' = messages \/ messages' = Put(messages, pc[rx].msg, 0)
    BY <1>2 DEF InsertHeard
  <2>2. 0 \in 0 .. Cardinality(Post)
    BY FS_CardinalityType, StoreAssumption
  <2>3. messages' \in [DOMAIN messages' -> 0 .. Cardinality(Post)]
    BY <2>1, <2>2 DEF RestOK, Put
  <2>4. UNCHANGED <<reply, faults, disturbed>> /\ mu' \in {mu, rx}
    BY <1>2 DEF InsertHeard
  <2> QED BY <2>3, <2>4 DEF RestOK, ReplyOK, Proc
<1>3. CASE \E n \in Node \ {Self} : UpdateNodeSync(n)
  BY <1>3 DEF UpdateNodeSync, RestOK, ReplyOK
<1>4. CASE \E p \in Proc : Save(p)
  <2>1. UNCHANGED <<messages, reply, faults, disturbed>> /\ mu' \in {mu, Free}
    BY <1>4 DEF Save, CountMessage, CountWriters, CountForNode
  <2> QED BY <2>1 DEF RestOK, ReplyOK
<1>5. CASE \E p \in Proc : StatisticsFail(p)
  <2>1. PICK p \in Proc : StatisticsFail(p)
    BY <1>5
  <2>2. pc[p].at \in After
    BY <2>1 DEF StatisticsFail, After
  <2>3. ChannelOf[pc[p].msg] \in Name
    BY <2>2, SaverStored
  <2>4. /\ UNCHANGED <<messages, reply>> /\ mu' \in {mu, Free} /\ faults < MaxFaults
        /\ faults' = faults + 1 /\ disturbed' = disturbed \cup {ChannelOf[pc[p].msg]}
    BY <2>1 DEF StatisticsFail
  <2> QED BY <2>3, <2>4, StoreAssumption DEF RestOK, ReplyOK
<1>6. CASE Crash
  <2>1. \A p \in Proc : Counting(p) => ChannelOf[pc[p].msg] \in Name
    BY SaverStored DEF Counting, After
  <2>2. /\ UNCHANGED <<messages, reply>> /\ mu' = Free /\ faults < MaxFaults
        /\ faults' = faults + 1 /\ disturbed' \subseteq Name
    BY <1>6, <2>1 DEF Crash, RestOK
  <2> QED BY <2>2, StoreAssumption DEF RestOK, ReplyOK
<1>7. CASE \E p \in Proc : StatementFails(p)
  <2>1. PICK p \in Proc : StatementFails(p)
    BY <1>7
  <2>2. /\ UNCHANGED <<messages, disturbed>> /\ mu' \in {mu, Free}
        /\ faults < MaxFaults /\ faults' = faults + 1
        /\ reply' = IF p = rx THEN reply ELSE [reply EXCEPT ![p] = Failure]
    BY <2>1 DEF StatementFails
  <2>3. ReplyOK'
    BY <2>2 DEF RestOK, ReplyOK, Failure, Proc, IInv
  <2> QED BY <2>2, <2>3, StoreAssumption DEF RestOK
<1> QED BY <1>1, <1>2, <1>3, <1>4, <1>5, <1>6, <1>7

\* A statement adds one row to channels, or none.
LEMMA ChannelsFinite ==
  ASSUME IsFiniteSet(DOMAIN channels), [Next]_vars
  PROVE  IsFiniteSet(DOMAIN channels')
<1>1. SUFFICES \E ch : DOMAIN channels' \subseteq DOMAIN channels \cup {ch}
  <2>1. \A ch : IsFiniteSet(DOMAIN channels \cup {ch})
    BY FS_AddElement
  <2> QED BY <2>1, FS_Subset
<1>2. CASE channels' = channels
  BY <1>2
<1>3. CASE \E p \in Proc : CountMessage(p) \/ CountWriters(p)
  BY <1>3 DEF CountMessage, CountWriters, Put
<1>4. CASE \E h \in Handler, name \in Name : CreateChannel(h, name)
  BY <1>4 DEF CreateChannel, InsertChannel, Put
<1>5. CASE \E h \in Handler : DeleteRow(h)
  BY <1>5 DEF DeleteRow
<1> QED BY <1>2, <1>3, <1>4, <1>5 DEF Next, vars, tables, Serve, Save, PostMessage, HearMessage,
           CountForDelete, ReadNumber, InsertOwn, InsertHeard, CountForNode, StatisticsFail,
           CountForUser, UpdateNodeSync, StatementFails, Crash

\* There is nothing to count at first.
LEMMA InitCounts == Init => CountInv
<1> SUFFICES ASSUME Init PROVE CountInv
  OBVIOUS
<1>1. /\ DOMAIN messages = {} /\ DOMAIN channels = {} /\ \A p \in Proc : pc[p].at = "idle"
      /\ mu = Free /\ faults = 0 /\ disturbed = {}
  BY StepFields DEF Init
<1>2. /\ \A ch : Stored(ch) \ NotInChannel = {} /\ Count(ch) = 0
      /\ \A n : Of(n) \ NotInNode = {}
      /\ \A u : By(u) \ NotInUser = {}
  BY <1>1 DEF Stored, Count, Of, By
<1>3. /\ \A ch : Cardinality(Stored(ch) \ NotInChannel) = 0
      /\ \A n : Cardinality(Of(n) \ NotInNode) = 0
      /\ \A u : Cardinality(By(u) \ NotInUser) = 0
  BY <1>2, FS_EmptySet
<1>4. Savers
  BY <1>1 DEF Savers, After
<1>5. ChannelsOK
  <2>1. channels \in [DOMAIN channels -> [count : Nat, nodes : Nat]]
    BY DEF Init
  <2> QED BY <2>1, <1>1, <1>2, <1>3 DEF ChannelsOK
<1>6. NodesOK
  <2>1. nodes = [n \in Node |-> [count |-> 0, syncs |-> 0]]
    BY DEF Init
  <2>2. 0 \in 0 .. MaxSyncs
    BY StoreAssumption
  <2>3. nodes \in [Node -> [count : Nat, syncs : 0 .. MaxSyncs]]
    BY <2>1, <2>2
  <2>4. \A n \in Node : nodes[n].count = 0
    BY <2>1
  <2> QED BY <2>3, <2>4, <1>3 DEF NodesOK
<1>7. UsersOK
  BY <1>1, <1>2, <1>3 DEF UsersOK, Init
<1>8. RestOK
  <2>1. messages \in [DOMAIN messages -> 0 .. Cardinality(Post)]
    BY DEF Init
  <2> QED BY <2>1, <1>1, StoreAssumption DEF RestOK, ReplyOK, Init
<1>9. IsFiniteSet(DOMAIN channels)
  BY <1>1, FS_EmptySet
<1> QED BY <1>4, <1>5, <1>6, <1>7, <1>8, <1>9, InitInv DEF CountInv, CountsOK

\* Every step keeps the counts.
LEMMA NextCounts == CountInv /\ [Next]_vars => CountInv'
<1> SUFFICES ASSUME CountInv, [Next]_vars PROVE CountInv'
  OBVIOUS
<1>1. IInv /\ CountsOK /\ RestOK /\ faults \in Nat
  BY DEF CountInv, RestOK
<1>2. IInv' /\ IsFiniteSet(DOMAIN channels')
  BY <1>1, NextKeeps, ChannelsFinite DEF CountInv
<1>3. CASE UNCHANGED vars
  <2>1. \A ch : Stored(ch)' = Stored(ch) /\ Writers(ch)' = Writers(ch) /\ Count(ch)' = Count(ch)
    BY <1>3 DEF vars, Stored, Writers, Count
  <2>2. NotInChannel' = NotInChannel /\ NotInNode' = NotInNode /\ NotInUser' = NotInUser
    BY <1>3 DEF vars, NotInChannel, NotInNode, NotInUser, Uncounted
  <2>3. \A p \in Proc : Counting(p) => Counting(p)' /\ pc'[p].msg = pc[p].msg
    BY <1>3 DEF vars, Counting
  <2>4. ChannelsOK' /\ NodesOK' /\ UsersOK' /\ Savers'
    BY <1>1, <1>3, <2>2, <2>3, ChannelsStay, NodesStay, UsersStay DEF vars, CountsOK, Savers
  <2>5. RestOK'
    BY <1>1, <1>3 DEF vars, RestOK, ReplyOK
  <2> QED BY <1>2, <2>4, <2>5 DEF CountInv, CountsOK
<1>4. ASSUME NEW h \in Handler,
             \/ \E m \in Post : PostMessage(h, m)
             \/ \E name \in Name : CreateChannel(h, name) \/ CountForDelete(h, name)
             \/ ReadNumber(h) \/ Serve(h)
      PROVE  CountInv'
  <2>1. RestOK'
    BY <1>1, <1>4, HandlerTyped
  <2>2. h \in Proc
    BY DEF Proc
  <2>3. CASE \/ \E m \in Post : PostMessage(h, m)
             \/ \E name \in Name : CountForDelete(h, name)
             \/ ReadNumber(h)
    BY <1>1, <1>2, <2>1, <2>2, <2>3, BeforeInsertCounts DEF CountInv
  <2>4. CASE \E name \in Name : CreateChannel(h, name)
    BY <1>1, <1>2, <2>1, <2>4, CreateChannelCounts DEF CountInv
  <2>5. CASE Serve(h)
    BY <1>1, <1>2, <2>1, <2>5, InsertOwnCounts, CountForUserCounts, DeleteRowCounts DEF CountInv, Serve
  <2> QED BY <1>4, <2>3, <2>4, <2>5
<1>5. ASSUME \/ \E m \in Message : HearMessage(m)
             \/ InsertHeard
             \/ \E n \in Node \ {Self} : UpdateNodeSync(n)
             \/ \E p \in Proc : Save(p) \/ StatisticsFail(p) \/ StatementFails(p)
             \/ Crash
      PROVE  CountInv'
  <2>1. RestOK'
    BY <1>1, <1>5, OtherTyped
  <2>2. CASE \E m \in Message : HearMessage(m)
    <3>1. rx \in Proc
      BY DEF Proc
    <3> QED BY <1>1, <1>2, <2>1, <2>2, <3>1, BeforeInsertCounts DEF CountInv
  <2>3. CASE InsertHeard
    BY <1>1, <1>2, <2>1, <2>3, InsertHeardCounts DEF CountInv
  <2>4. CASE \E n \in Node \ {Self} : UpdateNodeSync(n)
    BY <1>1, <1>2, <2>1, <2>4, UpdateNodeSyncCounts DEF CountInv
  <2>5. CASE \E p \in Proc : Save(p) \/ StatisticsFail(p) \/ StatementFails(p)
    BY <1>1, <1>2, <2>1, <2>5, CountMessageCounts, CountWritersCounts, CountForNodeCounts,
       StatisticsFailCounts, StatementFailsCounts DEF CountInv, Save
  <2>6. CASE Crash
    BY <1>1, <1>2, <2>1, <2>6, CrashCounts DEF CountInv
  <2> QED BY <1>5, <2>2, <2>3, <2>4, <2>5, <2>6
<1> QED BY <1>3, <1>4, <1>5 DEF Next

LEMMA SmallestNumber ==
  ASSUME NEW T, T \subseteq Nat, T # {}
  PROVE  \E x \in T : \A y \in T : x <= y
<1> DEFINE U == {0 .. x : x \in T}
<1>1. U # {} /\ U \subseteq FiniteSubsetsOf(Nat)
  <2>1. \A x \in T : IsFiniteSet(0 .. x) /\ 0 .. x \subseteq Nat
    BY FS_Interval
  <2> QED BY <2>1 DEF FiniteSubsetsOf
<1>2. \E u \in U : \A v \in U : <<v, u>> \notin StrictSubsetOrdering(Nat)
  <2> HIDE DEF U
  <2> QED BY <1>1, WFMin, FS_StrictSubsetOrderingWellFounded
<1>3. PICK x \in T : \A y \in T : <<0 .. y, 0 .. x>> \notin StrictSubsetOrdering(Nat)
  BY <1>2
<1>4. ASSUME NEW y \in T, ~(x <= y)
      PROVE  FALSE
  <2>1. y < x /\ x \in Nat /\ y \in Nat
    BY <1>4
  <2>2. 0 .. y \subseteq 0 .. x /\ x \in 0 .. x /\ x \notin 0 .. y
    BY <2>1
  <2>3. 0 .. y \in SUBSET Nat /\ 0 .. x \in SUBSET Nat
    OBVIOUS
  <2> QED BY <1>3, <2>2, <2>3 DEF StrictSubsetOrdering
<1> QED BY <1>4

\* A set of numbers that has 0 and every successor has them all.
LEMMA NumbersByInduction ==
  ASSUME NEW T, 0 \in T, \A n \in Nat : n \in T => n + 1 \in T
  PROVE  Nat \subseteq T
<1> SUFFICES ASSUME Nat \ T # {} PROVE FALSE
  OBVIOUS
<1>1. PICK x \in Nat \ T : \A y \in Nat \ T : x <= y
  BY SmallestNumber
<1>2. x # 0 /\ x - 1 \in Nat /\ x - 1 \in T
  BY <1>1
<1> QED BY <1>1, <1>2

-----------------------------------------------------------------------------
(* The sum of the counts of some rows.                                      *)

AnyOf(s) == CHOOSE x \in s : TRUE

\* The fold of MapThenSumSet, as a function of the rows still to be added.
Sums(S, sum) ==
  sum = [s \in SUBSET S |-> IF s = {} THEN 0 ELSE AnyOf(s).count + sum[s \ {AnyOf(s)}]]

LEMMA SumsExist ==
  ASSUME NEW S, IsFiniteSet(S)
  PROVE  \E sum : Sums(S, sum)
<1> DEFINE Small(n) == {s \in SUBSET S : Cardinality(s) <= n}
           Step(sum, s) == IF s = {} THEN 0 ELSE AnyOf(s).count + sum[s \ {AnyOf(s)}]
           Solves(sum, n) == sum = [s \in Small(n) |-> Step(sum, s)]
           T == {n \in Nat : \E sum : Solves(sum, n)}
<1>1. Cardinality(S) \in Nat
  BY FS_CardinalityType
<1>2. \A s \in SUBSET S : IsFiniteSet(s) /\ Cardinality(s) \in Nat /\ Cardinality(s) <= Cardinality(S)
  BY <1>1, FS_Subset, FS_CardinalityType
<1>3. \A s \in SUBSET S : s # {} => Cardinality(s \ {AnyOf(s)}) = Cardinality(s) - 1
  BY <1>1, <1>2, FS_RemoveElement DEF AnyOf
<1>4. \A s \in SUBSET S : Cardinality(s) = 0 <=> s = {}
  BY <1>2, FS_EmptySet
<1>5. 0 \in T
  <2> DEFINE h == [s \in Small(0) |-> 0]
  <2>1. \A s \in Small(0) : s = {}
    BY <1>2, <1>4
  <2>2. Solves(h, 0)
    BY <2>1
  <2> QED BY <2>2
<1>6. ASSUME NEW n \in Nat, n \in T
      PROVE  n + 1 \in T
  <2>1. PICK g : Solves(g, n)
    BY <1>6
  <2> DEFINE h == [s \in Small(n + 1) |-> Step(g, s)]
  <2>2. Small(n) \subseteq Small(n + 1)
    BY <1>2
  <2>3. \A s \in Small(n) : h[s] = g[s]
    <3>1. \A s \in Small(n) : g[s] = Step(g, s)
      <4> HIDE DEF Small, Step
      <4> QED BY <2>1
    <3>2. \A s \in Small(n + 1) : h[s] = Step(g, s)
      <4> HIDE DEF Small, Step
      <4> QED OBVIOUS
    <3> HIDE DEF h, Step, Small
    <3> QED BY <2>2, <3>1, <3>2
  <2>4. ASSUME NEW s \in Small(n + 1), s # {}
        PROVE  s \ {AnyOf(s)} \in Small(n)
    <3>1. s \ {AnyOf(s)} \in SUBSET S /\ Cardinality(s \ {AnyOf(s)}) = Cardinality(s) - 1
      BY <1>3, <2>4
    <3>2. Cardinality(s) - 1 <= n
      BY <1>2, <2>4
    <3> QED BY <3>1, <3>2
  <2>5. \A s \in Small(n + 1) : Step(h, s) = Step(g, s)
    <3> HIDE DEF h, Small
    <3> QED BY <2>3, <2>4
  <2>6. Solves(h, n + 1)
    <3> HIDE DEF Step, Small
    <3> QED BY <2>5
  <2>7. n + 1 \in Nat
    OBVIOUS
  <2> HIDE DEF h, Solves
  <2> QED BY <2>6, <2>7
<1>7. Cardinality(S) \in T
  <2> HIDE DEF T
  <2> QED BY <1>1, <1>5, <1>6, NumbersByInduction
<1>8. Small(Cardinality(S)) = SUBSET S
  BY <1>2
<1>9. PICK g : g = [s \in Small(Cardinality(S)) |-> Step(g, s)]
  BY <1>7
<1>10. g = [s \in SUBSET S |-> Step(g, s)]
  <2> HIDE DEF Step, Small
  <2> QED BY <1>8, <1>9
<1> QED BY <1>10 DEF Sums

(* Rows that count messages of their own, none counted twice, add up to no  *)
(* more than the messages there are.                                        *)
LEMMA SumBounded ==
  ASSUME NEW S, IsFiniteSet(S), NEW M, IsFiniteSet(M), NEW of \in [S -> SUBSET M],
         \A c \in S : c.count \in Nat /\ c.count <= Cardinality(of[c]),
         \A c, d \in S : c # d => of[c] \cap of[d] = {}
  PROVE  /\ MapThenSumSet(LAMBDA c : c.count, S) \in Nat
         /\ MapThenSumSet(LAMBDA c : c.count, S) <= Cardinality(M)
<1> DEFINE sum == CHOOSE sum : Sums(S, sum)
           all(s) == UNION {of[c] : c \in s}
           Bounded(s) == sum[s] \in Nat /\ sum[s] <= Cardinality(all(s))
           T == {n \in Nat : \A s \in SUBSET S : Cardinality(s) = n => Bounded(s)}
<1>1. MapThenSumSet(LAMBDA c : c.count, S) = sum[S]
  BY DEF MapThenSumSet, MapThenFoldSet, Sums, AnyOf
<1>2. Sums(S, sum)
  BY SumsExist
<1> HIDE DEF sum
<1>3. /\ sum[{}] = 0
      /\ \A s \in SUBSET S : s # {} => sum[s] = AnyOf(s).count + sum[s \ {AnyOf(s)}]
  BY <1>2 DEF Sums
<1>4. \A s \in SUBSET S : IsFiniteSet(s) /\ Cardinality(s) \in Nat /\ (Cardinality(s) = 0 <=> s = {})
  BY FS_Subset, FS_CardinalityType, FS_EmptySet
<1>5. \A s \in SUBSET S : all(s) \in SUBSET M /\ IsFiniteSet(all(s)) /\ Cardinality(all(s)) \in Nat
  <2>1. \A s \in SUBSET S : all(s) \in SUBSET M
    OBVIOUS
  <2> HIDE DEF all
  <2> QED BY <2>1, FS_Subset, FS_CardinalityType
<1>6. 0 \in T
  <2>1. Bounded({})
    <3>1. {} \in SUBSET S
      OBVIOUS
    <3> HIDE DEF all
    <3> QED BY <1>3, <1>5, <3>1
  <2> QED BY <2>1, <1>4
<1>7. ASSUME NEW n \in Nat, n \in T
      PROVE  n + 1 \in T
  <2>1. SUFFICES ASSUME NEW s \in SUBSET S, Cardinality(s) = n + 1 PROVE Bounded(s)
    <3> HIDE DEF Bounded
    <3> QED BY <2>1
  <2> DEFINE x == AnyOf(s)
             t == s \ {x}
  <2>2. s # {} /\ x \in s /\ x \in S /\ t \in SUBSET S
    BY <1>4, <2>1 DEF AnyOf
  <2>3. Cardinality(t) = n
    <3>1. IsFiniteSet(s)
      BY <1>4
    <3> HIDE DEF x
    <3>2. Cardinality(s \ {x}) = Cardinality(s) - 1
      BY <2>2, <3>1, FS_RemoveElement
    <3> QED BY <2>1, <3>2
  <2>4. Bounded(t)
    BY <1>7, <2>2, <2>3
  <2>5. sum[s] = x.count + sum[t]
    BY <1>3, <2>2
  <2> HIDE DEF x, t
  <2>6. all(s) = of[x] \cup all(t) /\ of[x] \cap all(t) = {}
    <3>1. s = {x} \cup t /\ x \notin t
      BY <2>2 DEF t
    <3> QED BY <2>2, <3>1
  <2>7. IsFiniteSet(of[x]) /\ Cardinality(of[x]) \in Nat
    BY <2>2, FS_Subset, FS_CardinalityType
  <2>8. IsFiniteSet(all(t)) /\ Cardinality(all(t)) \in Nat
    BY <1>5, <2>2
  <2>9. Cardinality(all(s)) = Cardinality(of[x]) + Cardinality(all(t))
    <3> HIDE DEF all
    <3>1. Cardinality(of[x] \cap all(t)) = 0
      BY <2>6, FS_EmptySet
    <3>2. Cardinality(of[x] \cup all(t)) =
            Cardinality(of[x]) + Cardinality(all(t)) - Cardinality(of[x] \cap all(t))
      BY <2>7, <2>8, FS_Union
    <3> QED BY <2>6, <2>7, <2>8, <3>1, <3>2
  <2>10. x.count \in Nat /\ x.count <= Cardinality(of[x])
    BY <2>2
  <2> HIDE DEF all
  <2> QED BY <2>4, <2>5, <2>7, <2>8, <2>9, <2>10
<1>8. Cardinality(S) \in T
  <2> HIDE DEF T
  <2> QED BY <1>4, <1>6, <1>7, NumbersByInduction
<1>9. Bounded(S)
  <2> HIDE DEF Bounded
  <2> QED BY <1>8
<1>10. Cardinality(all(S)) <= Cardinality(M) /\ Cardinality(M) \in Nat
  <2> HIDE DEF all
  <2> QED BY <1>5, FS_Subset, FS_CardinalityType
<1> HIDE DEF all
<1> QED BY <1>1, <1>5, <1>9, <1>10
-----------------------------------------------------------------------------
\* The sum that GET /channels adds up to.
LEMMA ChannelsAddUp ==
  ASSUME CountInv
  PROVE  /\ MapThenSumSet(LAMBDA c : c.count, GetChannels) \in Nat
         /\ MapThenSumSet(LAMBDA c : c.count, GetChannels) <= Cardinality(DOMAIN messages)
<1> DEFINE row(ch) == [name |-> ch, count |-> channels[ch].count, nodes |-> channels[ch].nodes]
           f  == [ch \in DOMAIN channels |-> row(ch)]
           of == [c \in GetChannels |-> Stored(c.name)]
<1>1. IsFiniteSet(GetChannels)
  <2>1. f \in [DOMAIN channels -> GetChannels] /\ \A c \in GetChannels : \E ch \in DOMAIN channels : f[ch] = c
    BY DEF GetChannels
  <2>2. f \in Surjection(DOMAIN channels, GetChannels)
    BY <2>1 DEF Surjection
  <2> HIDE DEF f
  <2> QED BY <2>2, FS_Surjection DEF CountInv
<1>2. DOMAIN messages \subseteq Message /\ IsFiniteSet(DOMAIN messages)
  BY Sizes DEF CountInv, IInv
<1>3. of \in [GetChannels -> SUBSET DOMAIN messages]
  BY DEF Stored
<1>4. ASSUME NEW c \in GetChannels
      PROVE  c.count \in Nat /\ c.count <= Cardinality(of[c])
  <2>1. PICK ch \in DOMAIN channels : c = row(ch)
    BY DEF GetChannels
  <2>2. c.name = ch /\ c.count = Count(ch) /\ Count(ch) \in Nat /\ ch \in Name
    BY <2>1 DEF Count, CountInv, CountsOK, ChannelsOK
  <2>3. Count(ch) <= Cardinality(Stored(ch) \ NotInChannel)
    BY <2>2 DEF CountInv, CountsOK, ChannelsOK
  <2>4. Stored(ch) \in SUBSET DOMAIN messages
    BY DEF Stored
  <2>5. Cardinality(Stored(ch) \ NotInChannel) <= Cardinality(Stored(ch))
    BY <1>2, <2>4, Smaller
  <2>6. Cardinality(Stored(ch) \ NotInChannel) \in Nat /\ Cardinality(Stored(ch)) \in Nat
    BY <1>2, <2>4, Sizes
  <2>7. of[c] = Stored(ch)
    BY <2>2
  <2> QED BY <2>2, <2>3, <2>5, <2>6, <2>7
<1>5. ASSUME NEW c \in GetChannels, NEW d \in GetChannels, c # d
      PROVE  of[c] \cap of[d] = {}
  <2>1. c.name # d.name
    BY <1>5 DEF GetChannels
  <2> QED BY <2>1 DEF Stored
<1> HIDE DEF of
<1> QED BY <1>1, <1>2, <1>3, <1>4, <1>5, SumBounded

\* No count exceeds what there is.
LEMMA NeverExceeds ==
  ASSUME CountInv
  PROVE  CountsNeverExceed
<1>1. DOMAIN messages \subseteq Message
  BY DEF CountInv, IInv
<1>2. MapThenSumSet(LAMBDA c : c.count, GetChannels) <= GetStats.message_count
  BY ChannelsAddUp DEF GetStats
<1>3. ASSUME NEW c \in GetChannels
      PROVE  c.count <= Cardinality(Stored(c.name)) /\ c.nodes <= Cardinality(Writers(c.name))
  <2>1. PICK ch \in DOMAIN channels :
          c = [name |-> ch, count |-> channels[ch].count, nodes |-> channels[ch].nodes]
    BY DEF GetChannels
  <2>2. c.name = ch /\ c.count = Count(ch) /\ c.nodes = channels[ch].nodes /\ Count(ch) \in Nat /\ ch \in Name
    BY <2>1 DEF Count, CountInv, CountsOK, ChannelsOK
  <2>3. Count(ch) <= Cardinality(Stored(ch) \ NotInChannel) /\ channels[ch].nodes <= Cardinality(Writers(ch))
    BY <2>2 DEF CountInv, CountsOK, ChannelsOK
  <2>4. Stored(ch) \in SUBSET DOMAIN messages
    BY DEF Stored
  <2>5. Cardinality(Stored(ch) \ NotInChannel) <= Cardinality(Stored(ch))
    BY <1>1, <2>4, Smaller
  <2>6. Cardinality(Stored(ch) \ NotInChannel) \in Nat /\ Cardinality(Stored(ch)) \in Nat
    BY <1>1, <2>4, Sizes
  <2> QED BY <2>2, <2>3, <2>5, <2>6
<1>4. ASSUME NEW n \in Node
      PROVE  nodes[n].count <= Cardinality({m \in DOMAIN messages : From[m] = n})
  <2>1. nodes[n].count <= Cardinality(Of(n) \ NotInNode) /\ nodes[n].count \in Nat
    BY DEF CountInv, CountsOK, NodesOK
  <2>2. Of(n) \in SUBSET DOMAIN messages
    BY DEF Of
  <2>3. Cardinality(Of(n) \ NotInNode) <= Cardinality(Of(n))
    BY <1>1, <2>2, Smaller
  <2>4. Cardinality(Of(n) \ NotInNode) \in Nat /\ Cardinality(Of(n)) \in Nat
    BY <1>1, <2>2, Sizes
  <2>5. nodes[n].count <= Cardinality(Of(n))
    BY <2>1, <2>3, <2>4
  <2> QED BY <2>5 DEF Of
<1>5. ASSUME NEW u \in User
      PROVE  users[u] <= Cardinality({m \in DOMAIN messages \cap Post : Author[m] = u})
  <2>1. users[u] <= Cardinality(By(u) \ NotInUser) /\ users[u] \in Nat
    BY DEF CountInv, CountsOK, UsersOK
  <2>2. By(u) \in SUBSET DOMAIN messages
    BY DEF By
  <2>3. Cardinality(By(u) \ NotInUser) <= Cardinality(By(u))
    BY <1>1, <2>2, Smaller
  <2>4. Cardinality(By(u) \ NotInUser) \in Nat /\ Cardinality(By(u)) \in Nat
    BY <1>1, <2>2, Sizes
  <2>5. users[u] <= Cardinality(By(u))
    BY <2>1, <2>3, <2>4
  <2> QED BY <2>5 DEF By
<1> QED BY <1>2, <1>3, <1>4, <1>5 DEF CountsNeverExceed, GetActiveNodes

\* A channel's count lacks the message of the one who is about to count it.
LEMMA LateIsMissing ==
  ASSUME CountInv, NEW ch \in Name \ disturbed
  PROVE  Count(ch) + Cardinality({p \in Proc : pc[p].at = "channel" /\ ChannelOf[pc[p].msg] = ch})
           = Cardinality(Stored(ch))
<1> DEFINE late == {p \in Proc : pc[p].at = "channel" /\ ChannelOf[pc[p].msg] = ch}
<1>1. /\ Stored(ch) \in SUBSET DOMAIN messages /\ DOMAIN messages \subseteq Message
      /\ Count(ch) = Cardinality(Stored(ch) \ NotInChannel)
  BY DEF Stored, CountInv, IInv, CountsOK, ChannelsOK
<1>2. \A p, q \in Proc : pc[p].at = "channel" /\ pc[q].at = "channel" => p = q
  BY SaverHolds DEF CountInv, InSave
<1>3. \A m \in NotInChannel : \E p \in Proc : pc[p].at = "channel" /\ pc[p].msg = m
  BY DEF NotInChannel, Uncounted
<1>4. CASE late = {}
  <2>1. Stored(ch) \ NotInChannel = Stored(ch)
    BY <1>3, <1>4 DEF Stored
  <2>2. Cardinality(late) = 0 /\ Cardinality(Stored(ch)) \in Nat
    BY <1>1, <1>4, Sizes, FS_EmptySet
  <2> HIDE DEF late
  <2>3. Count(ch) + Cardinality(late) = Cardinality(Stored(ch))
    BY <1>1, <2>1, <2>2
  <2> QED BY <2>3 DEF late
<1>5. CASE late # {}
  <2>1. PICK p \in Proc : pc[p].at = "channel" /\ ChannelOf[pc[p].msg] = ch
    BY <1>5
  <2>2. late = {p} /\ NotInChannel = {pc[p].msg}
    BY <1>2, <2>1 DEF NotInChannel, Uncounted
  <2>3. pc[p].msg \in Stored(ch)
    BY <2>1, UncountedStored DEF After, Stored, CountInv
  <2>4. Cardinality(late) = 1
    BY <2>2, FS_Singleton
  <2>5. IsFiniteSet(Stored(ch)) /\ Cardinality(Stored(ch)) \in Nat
    BY <1>1, Sizes
  <2>6. Cardinality(Stored(ch) \ {pc[p].msg}) = Cardinality(Stored(ch)) - 1
    BY <2>3, <2>5, FS_RemoveElement
  <2> HIDE DEF late
  <2>7. Count(ch) + Cardinality(late) = Cardinality(Stored(ch))
    BY <1>1, <2>2, <2>4, <2>5, <2>6
  <2> QED BY <2>7 DEF late
<1> QED BY <1>4, <1>5

\* Without faults and between saves the nodes have all their messages.
LEMMA NodesComplete ==
  ASSUME CountInv, faults = 0, mu = Free
  PROVE  /\ \A n \in Node : nodes[n].count = Cardinality({m \in DOMAIN messages : From[m] = n})
         /\ Cardinality({From[m] : m \in DOMAIN messages}) <= GetStats.active_nodes
<1>1. \A p \in Proc : ~InSave(p)
  BY SaverHolds, StoreAssumption DEF CountInv
<1>2. NotInNode = {}
  BY <1>1 DEF NotInNode, Uncounted, InSave
<1>3. DOMAIN messages \subseteq Message
  BY DEF CountInv, IInv
<1>4. ASSUME NEW n \in Node
      PROVE  nodes[n].count = Cardinality(Of(n))
  <2>1. nodes[n].count = Cardinality(Of(n) \ NotInNode)
    BY DEF CountInv, CountsOK, NodesOK
  <2>2. Of(n) \ NotInNode = Of(n)
    BY <1>2
  <2> QED BY <2>1, <2>2
<1>5. {From[m] : m \in DOMAIN messages} \in SUBSET GetActiveNodes
  <2>1. ASSUME NEW m \in DOMAIN messages
        PROVE  From[m] \in GetActiveNodes
    <3>1. From[m] \in Node /\ m \in Of(From[m])
      BY <1>3 DEF Node, Of
    <3>2. IsFiniteSet(Of(From[m])) /\ Cardinality(Of(From[m])) \in Nat
      BY <1>3, Sizes DEF Of
    <3>3. Cardinality(Of(From[m])) # 0
      BY <3>1, <3>2, FS_EmptySet
    <3>4. nodes[From[m]].count > 0
      BY <1>4, <3>1, <3>2, <3>3
    <3>5. nodes[From[m]].syncs \in Nat /\ nodes[From[m]].count \in Nat
      BY <3>1, StoreAssumption DEF CountInv, CountsOK, NodesOK
    <3> QED BY <3>1, <3>4, <3>5 DEF GetActiveNodes
  <2> QED BY <2>1
<1>6. IsFiniteSet(GetActiveNodes)
  BY <1>3, WritersSize, FS_Subset DEF GetActiveNodes
<1>7. Cardinality({From[m] : m \in DOMAIN messages}) <= Cardinality(GetActiveNodes)
  BY <1>5, <1>6, FS_Subset
<1> QED BY <1>4, <1>7 DEF Of, GetStats

\* Undisturbed counts are exact.
LEMMA Exact ==
  ASSUME CountInv
  PROVE  CountsExact
<1>1. ASSUME NEW ch \in Name \ disturbed
      PROVE  LET saving == {p \in Proc : Counting(p) /\ ChannelOf[pc[p].msg] = ch}
                 late   == {p \in saving : pc[p].at = "channel"}
                 count  == IF ch \in DOMAIN channels THEN channels[ch].count ELSE 0
             IN /\ count + Cardinality(late) = Cardinality(Stored(ch))
                /\ saving = {} /\ ch \in DOMAIN channels => channels[ch].nodes = Cardinality(Writers(ch))
  <2> DEFINE saving == {p \in Proc : Counting(p) /\ ChannelOf[pc[p].msg] = ch}
             late   == {p \in saving : pc[p].at = "channel"}
  <2>1. late = {p \in Proc : pc[p].at = "channel" /\ ChannelOf[pc[p].msg] = ch}
    BY DEF Counting
  <2>2. saving = {} /\ ch \in DOMAIN channels => channels[ch].nodes = Cardinality(Writers(ch))
    BY DEF CountInv, CountsOK, ChannelsOK
  <2>3. Count(ch) + Cardinality(late) = Cardinality(Stored(ch))
    BY <2>1, LateIsMissing
  <2> HIDE DEF saving, late
  <2>4. (IF ch \in DOMAIN channels THEN channels[ch].count ELSE 0) + Cardinality(late) = Cardinality(Stored(ch))
    BY <2>3 DEF Count
  <2> QED BY <2>2, <2>4 DEF saving, late
<1> QED BY <1>1, NodesComplete DEF CountsExact

\* The counts are in their range.
LEMMA CountsTyped ==
  ASSUME CountInv
  PROVE  TypeOK
<1>1. /\ DOMAIN messages \subseteq Message
      /\ IInv /\ CountsOK /\ RestOK
  BY DEF CountInv, IInv
<1>2. \A S \in SUBSET DOMAIN messages : Cardinality(S) \in Nat /\ Cardinality(S) <= Cardinality(Message)
  BY <1>1, Sizes, FS_Subset
<1>3. Cardinality(Message) \in Nat /\ Cardinality(Node) \in Nat /\ Cardinality(Post) \in Nat
  BY <1>1, Sizes, WritersSize, FS_CardinalityType, StoreAssumption
<1>4. messages \in [DOMAIN messages -> 0 .. Cardinality(Post)]
  BY <1>1 DEF RestOK
<1>5. channels \in [DOMAIN channels -> [count : 0 .. Cardinality(Message), nodes : 0 .. Cardinality(Node)]]
  <2>1. channels \in [DOMAIN channels -> [count : Nat, nodes : Nat]] /\ DOMAIN channels \subseteq Name
    BY <1>1 DEF CountsOK, ChannelsOK
  <2>2. ASSUME NEW ch \in DOMAIN channels
        PROVE  channels[ch] \in [count : 0 .. Cardinality(Message), nodes : 0 .. Cardinality(Node)]
    <3>1. channels[ch] \in [count : Nat, nodes : Nat]
      BY <2>1
    <3>2. channels[ch].count <= Cardinality(Stored(ch) \ NotInChannel)
      BY <1>1, <2>1 DEF CountsOK, ChannelsOK, Count
    <3>3. /\ Cardinality(Stored(ch) \ NotInChannel) \in Nat
          /\ Cardinality(Stored(ch) \ NotInChannel) <= Cardinality(Message)
      <4>1. Stored(ch) \ NotInChannel \in SUBSET DOMAIN messages
        BY DEF Stored
      <4> QED BY <4>1, <1>2
    <3>4. channels[ch].nodes <= Cardinality(Writers(ch))
      BY <1>1 DEF CountsOK, ChannelsOK
    <3>5. Cardinality(Writers(ch)) \in 0 .. Cardinality(Node)
      BY <1>1, WritersSize
    <3>6. channels[ch].count \in 0 .. Cardinality(Message)
      BY <1>3, <3>1, <3>2, <3>3
    <3>7. channels[ch].nodes \in 0 .. Cardinality(Node)
      BY <1>3, <3>1, <3>4, <3>5
    <3> QED BY <3>1, <3>6, <3>7
  <2> QED BY <2>1, <2>2
<1>6. nodes \in [Node -> [count : 0 .. Cardinality(Message), syncs : 0 .. MaxSyncs]]
  <2>1. nodes \in [Node -> [count : Nat, syncs : 0 .. MaxSyncs]]
    BY <1>1 DEF CountsOK, NodesOK
  <2>2. ASSUME NEW n \in Node
        PROVE  nodes[n] \in [count : 0 .. Cardinality(Message), syncs : 0 .. MaxSyncs]
    <3>1. nodes[n] \in [count : Nat, syncs : 0 .. MaxSyncs]
      BY <2>1
    <3>2. nodes[n].count <= Cardinality(Of(n) \ NotInNode)
      BY <1>1 DEF CountsOK, NodesOK
    <3>3. /\ Cardinality(Of(n) \ NotInNode) \in Nat
          /\ Cardinality(Of(n) \ NotInNode) <= Cardinality(Message)
      <4>1. Of(n) \ NotInNode \in SUBSET DOMAIN messages
        BY DEF Of
      <4> QED BY <4>1, <1>2
    <3>4. nodes[n].count \in 0 .. Cardinality(Message)
      BY <1>3, <3>1, <3>2, <3>3
    <3> QED BY <3>1, <3>4
  <2> QED BY <2>1, <2>2
<1>7. users \in [User -> 0 .. Cardinality(Post)]
  <2>1. users \in [User -> Nat]
    BY <1>1 DEF CountsOK, UsersOK
  <2>2. ASSUME NEW u \in User
        PROVE  users[u] \in 0 .. Cardinality(Post)
    <3>1. users[u] \in Nat /\ users[u] <= Cardinality(By(u) \ NotInUser)
      BY <1>1, <2>1 DEF CountsOK, UsersOK
    <3>2. By(u) \ NotInUser \in SUBSET Post
      BY DEF By
    <3>3. /\ Cardinality(By(u) \ NotInUser) \in Nat
          /\ Cardinality(By(u) \ NotInUser) <= Cardinality(Post)
      BY <3>2, FS_Subset, FS_CardinalityType, StoreAssumption
    <3> QED BY <1>3, <3>1, <3>3
  <2> QED BY <2>1, <2>2
<1>8. ASSUME NEW p \in Proc
      PROVE  \/ pc[p] = Idle
             \/ \E ch \in Name : pc[p] = Deleting(ch)
             \/ \E m \in Message : \/ \E s \in Steps : pc[p] = At(s, m)
                                   \/ \E k \in 1 .. Cardinality(Post) + 1 : pc[p] = Numbered(m, k)
  <2>1. Cardinality(Own) + 1 \in 1 .. Cardinality(Post) + 1
    <3>1. Cardinality(Own) <= Cardinality(Post)
      BY FS_Subset, StoreAssumption DEF Own
    <3> QED BY <1>3, <3>1, OwnFinite
  <2>2. WhereOK(p)
    BY <1>1 DEF IInv
  <2>3. {"wait", "channel", "unique", "node", "user"} \subseteq Steps
    BY DEF Steps
  <2>4. Post \subseteq Message /\ Foreign \cup DOMAIN messages \subseteq Message
    BY <1>1 DEF Message
  <2> QED BY <2>1, <2>2, <2>3, <2>4 DEF WhereOK
<1>9. \E S \in SUBSET Message : messages \in [S -> 0 .. Cardinality(Post)]
  BY <1>1, <1>4
<1>10. \E C \in SUBSET Name :
         channels \in [C -> [count : 0 .. Cardinality(Message), nodes : 0 .. Cardinality(Node)]]
  BY <1>1, <1>5 DEF CountsOK, ChannelsOK
<1>11. /\ mu \in Proc \cup {Free} /\ faults \in 0 .. MaxFaults /\ disturbed \subseteq Name
       /\ ReplyOK
  BY <1>1 DEF RestOK
<1> QED BY <1>6, <1>7, <1>8, <1>9, <1>10, <1>11 DEF TypeOK, ReplyOK

(* The counts are kept through any order of saves, repeated receptions,     *)
(* creations, deletions, failed statements and crashes.                     *)
THEOREM CountInvariant == Spec => []CountInv
BY InitCounts, NextCounts, PTL DEF Spec

(* What GET /channels, /nodes and /status show never exceeds the messages   *)
(* there are, row by row and added up, and is exact but for the message     *)
(* being saved unless a fault came between (SaveMessage, DeleteChannel).    *)
THEOREM Counts == Spec => []CountsHold
<1>1. CountInv => CountsHold
  BY CountsTyped, NeverExceeds, Exact DEF CountsHold
<1> QED BY <1>1, CountInvariant, PTL

=============================================================================
