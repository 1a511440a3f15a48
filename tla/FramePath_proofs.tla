--------------------------- MODULE FramePath_proofs ---------------------------
(* OneEncoding, RowsAgree, OnlyForeignStops and ClaimsHeld of FramePath for  *)
(* every set of nodes, requests, foreign messages and sizes.                *)
(* The argument of the first two: whatever is stored, queued or             *)
(* transmitted decodes to a message as it was first said (Source), and an   *)
(* id was first said once (SourceUnique): by the node that stores it as its *)
(* own, under its primary key, or by another implementation.                *)
(* Of the other two: what was first said is well-formed, so what is queued  *)
(* of it can be rebuilt; and the text of a state vector, split and parsed,  *)
(* gives back the entries it was joined from (SVECParses).                  *)
EXTENDS FramePath, FiniteSetTheorems, SequenceTheorems, WellFoundedInduction, TLAPS

Normal(p) == MsgToPB(MsgFromPB(p))
Enc(r) == MsgToPB(MessageRowToFrame(r))

\* A row whose parsed fields are written as IDToHex and FormatTimestamp do.
RowOK(r) ==
  /\ r = [id |-> IDToHex(r.id.id), from |-> r.from, time |-> [utc |-> r.time.utc],
          chan |-> r.chan, reply |-> r.reply, body |-> r.body,
          author |-> r.author, seq |-> r.seq]
  /\ IsHex(r.reply) => Len(r.reply.id) = 3

HomeRows(n) == {r \in rows[n] : r.id.id[1] \in Senders(n)}

\* The messages as they were first said.
Source == {Normal(p) : p \in Foreign} \cup UNION {{Enc(r) : r \in HomeRows(n)} : n \in Node}

\* Frame f carries one of the messages in S.
Carries(f, S) ==
  \/ f.type = "SVEC"
  \/ f.type = "MSG" /\ f.pb \in S /\ Size(f.pb) <= Threshold
  \/ /\ f.type = "FRAG" /\ f.pb.data \in S /\ ~(Size(f.pb.data) <= Threshold)
     /\ f.pb.id = f.pb.data.id /\ f.pb.total = Total(f.pb.data)

PrimaryKey == \A n \in Node : \A r, s \in rows[n] : r.id = s.id => r = s
RowsFromSource == \A n \in Node : \A r \in rows[n] : RowOK(r) /\ Enc(r) \in Source
QueueFromSource == \A n \in Node : \A i \in queue[n] : Carries(EncodeItem(i), Source)
AirFromSource == \A f \in air : Carries(f, Source)
Tables == DOMAIN rows = Node /\ DOMAIN queue = Node

IInv == Tables /\ PrimaryKey /\ RowsFromSource /\ QueueFromSource /\ AirFromSource

-----------------------------------------------------------------------------
\* The dictionary of a MSG is turned back into a frame of the same encoding.
LEMMA DictRoundTrip ==
  ASSUME NEW m
  PROVE  MsgToPB(MSGFromDict(ToDict(m))) = MsgToPB(m)
BY DEF MsgToPB, MSGFromDict, ToDict, IDToHex, IDFromHex, IsHex, NoText, NoId,
       NoKey, Itoa, Atoi, FormatTimestamp, ParseTimestamp, ToEpoch

\* A received frame that is stored and sent from the store is encoded alike.
LEMMA RowRoundTrip ==
  ASSUME NEW p, p.author # NilName
  PROVE  Enc(RowOfFrame(MsgFromPB(p))) = Normal(p)
BY DEF Enc, Normal, RowOfFrame, MsgFromPB, MsgToPB, MessageRowToFrame, IDToHex, IDFromHex,
       IsHex, ReplyId, AuthorStr, NilText, NoId, NilName, NoName, FormatTimestamp,
       ParseTimestamp, ToEpoch, FromEpoch

\* A request that is stored and sent from the store is encoded as it was sent.
LEMMA RequestRoundTrip ==
  ASSUME NEW n, NEW req, NEW k
  PROVE  Enc(RowOfRequest(n, req, k)) = MsgToPB(FrameOfRequest(n, req, k))
BY DEF Enc, RowOfRequest, FrameOfRequest, MsgToPB, MessageRowToFrame, IDToHex, IDFromHex,
       FormatTimestamp, ParseTimestamp, ToEpoch

\* Decoding and encoding again changes nothing more.
LEMMA NormalTwice ==
  ASSUME NEW p
  PROVE  Normal(Normal(p)) = Normal(p)
BY DEF Normal, MsgFromPB, MsgToPB, NoId, ToEpoch, FromEpoch

\* The encoding of a stored row is normal.
LEMMA NormalOfRow ==
  ASSUME NEW r, RowOK(r)
  PROVE  Normal(Enc(r)) = Enc(r) /\ Enc(r).author # NilName
BY DEF Normal, Enc, RowOK, MsgFromPB, MsgToPB, MessageRowToFrame, ReplyId, IDFromHex, NoId,
       AuthorStr, NilName, NoName, ToEpoch, FromEpoch, ParseTimestamp

\* handleMSG stores well-formed rows.
LEMMA HeardRowOK ==
  ASSUME NEW p
  PROVE  RowOK(RowOfFrame(MsgFromPB(p)))
BY DEF RowOK, RowOfFrame, MsgFromPB, IDToHex, IsHex, NoId, NilText, FormatTimestamp, FromEpoch

\* SendMessage stores well-formed rows.
LEMMA PostedRowOK ==
  ASSUME NEW n, NEW req, NEW k, IsHex(req.reply) => Len(req.reply.id) = 3
  PROVE  RowOK(RowOfRequest(n, req, k))
BY DEF RowOK, RowOfRequest, IDToHex, GenerateMessageID, FormatTimestamp

\* Every queued form of a frame carries the frame's encoding.
LEMMA QueuedIsCarried ==
  ASSUME NEW m, NEW S, MsgToPB(m) \in S, NEW i \in QueueItems(m)
  PROVE  Carries(EncodeItem(i), S)
<1> DEFINE p == MsgToPB(m)
<1>1. CASE Size(p) <= Threshold
  <2>1. i = [type |-> "MSG", dict |-> ToDict(m)]
    BY <1>1 DEF QueueItems
  <2>2. EncodeItem(i) = Whole(p)
    BY <2>1, DictRoundTrip DEF EncodeItem
  <2> QED BY <2>2, <1>1 DEF Carries, Whole
<1>2. CASE ~(Size(p) <= Threshold)
  <2>1. PICK f \in FragmentMessage(m) : i = [type |-> "FRAG", dict |-> FragToDict(f)]
    BY <1>2 DEF QueueItems
  <2>2. f.id = m.id /\ f.total = Total(p) /\ f.data = p
    BY DEF FragmentMessage
  <2>3. EncodeItem(i) = Piece(FRAGFromDict(FragToDict(f)))
    BY <2>1 DEF EncodeItem
  <2>4. FRAGFromDict(FragToDict(f)).id = m.id /\ FRAGFromDict(FragToDict(f)).total = Total(p)
        /\ FRAGFromDict(FragToDict(f)).data = p
    BY <2>2 DEF FRAGFromDict, FragToDict, IDToHex, IDFromHex, Itoa, Atoi
  <2>5. p.id = m.id
    BY DEF MsgToPB
  <2> QED BY <2>3, <2>4, <2>5, <1>2 DEF Carries, Piece
<1> QED BY <1>1, <1>2

\* What is carried stays carried when more messages are known.
LEMMA CarriesMore ==
  ASSUME NEW S, NEW T, S \subseteq T, NEW f, Carries(f, S)
  PROVE  Carries(f, T)
BY DEF Carries

\* What is carried decodes to a frame of the very same encoding.
LEMMA SourceIsNormal ==
  ASSUME IInv, NEW q \in Source
  PROVE  Normal(q) = q /\ q.author # NilName
<1>1. CASE \E n \in Node : \E r \in HomeRows(n) : q = Enc(r)
  BY <1>1, NormalOfRow DEF IInv, RowsFromSource, HomeRows
<1>2. CASE \E p \in Foreign : q = Normal(p)
  <2>1. PICK p \in Foreign : q = Normal(p)
    BY <1>2
  <2>2. p.author # NilName
    BY FramePathAssumption
  <2>3. Normal(p).author = p.author
    BY DEF Normal, MsgFromPB, MsgToPB
  <2> QED BY <2>1, <2>2, <2>3, NormalTwice
<1> QED BY <1>1, <1>2 DEF Source

\* An id was first said once.
LEMMA SourceUnique ==
  ASSUME IInv, NEW q1 \in Source, NEW q2 \in Source, q1.id = q2.id
  PROVE  q1 = q2
<1> DEFINE Home(q, n, r) == n \in Node /\ r \in HomeRows(n) /\ q = Enc(r)
<1>1. \A q, n, r : Home(q, n, r) => /\ q.id = r.id.id /\ r.id = IDToHex(r.id.id)
                                   /\ r \in rows[n] /\ r.id.id[1] \in Senders(n)
  BY DEF HomeRows, Enc, MsgToPB, MessageRowToFrame, IDFromHex, IInv, RowsFromSource, RowOK
<1>2. \A p : Normal(p).id = p.id
  BY DEF Normal, MsgFromPB, MsgToPB
<1>3. \A q \in Source : (\E n, r : Home(q, n, r)) \/ \E p \in Foreign : q = Normal(p)
  BY DEF Source
<1>4. CASE (\E n, r : Home(q1, n, r)) /\ (\E n, r : Home(q2, n, r))
  <2>1. PICK m, r : Home(q1, m, r)
    BY <1>4
  <2>2. PICK n, s : Home(q2, n, s)
    BY <1>4
  <2>3. r.id.id = s.id.id /\ r.id = s.id
    BY <1>1, <2>1, <2>2
  <2>4. m = n
    BY <1>1, <2>1, <2>2, <2>3, FramePathAssumption
  <2> QED BY <1>1, <2>1, <2>2, <2>3, <2>4 DEF IInv, PrimaryKey
<1>5. CASE (\E n, r : Home(q1, n, r)) /\ (\E p \in Foreign : q2 = Normal(p))
  BY <1>1, <1>2, <1>5, FramePathAssumption
<1>6. CASE (\E p \in Foreign : q1 = Normal(p)) /\ (\E n, r : Home(q2, n, r))
  BY <1>1, <1>2, <1>6, FramePathAssumption
<1>7. CASE (\E p \in Foreign : q1 = Normal(p)) /\ (\E p \in Foreign : q2 = Normal(p))
  BY <1>2, <1>7, FramePathAssumption
<1> QED BY <1>3, <1>4, <1>5, <1>6, <1>7
-----------------------------------------------------------------------------
\* The invariant is kept when rows are added whose messages are known or the
\* node's own under a new id, and the queue and the air carry known messages.
LEMMA RowsGrow ==
  ASSUME IInv,
         NEW n \in Node, NEW row, NEW keep \in BOOLEAN,
         RowOK(row), keep \/ ~HasRow(n, row.id),
         rows' = [rows EXCEPT ![n] = IF keep THEN @ ELSE @ \cup {row}],
         Enc(row) \in Source \/ row.id.id[1] \in Senders(n)
  PROVE  /\ Source \subseteq Source' /\ PrimaryKey' /\ DOMAIN rows' = Node
         /\ keep \/ Enc(row) \in Source'
         /\ RowsFromSource'
<1>1. DOMAIN rows' = Node /\ \A m \in Node :
        rows'[m] = IF m = n /\ ~keep THEN rows[m] \cup {row} ELSE rows[m]
  BY DEF IInv, Tables
<1>2. \A m \in Node : HomeRows(m) \subseteq HomeRows(m)'
  BY <1>1 DEF HomeRows
<1>3. Source \subseteq Source'
  BY <1>2 DEF Source
<1>4. PrimaryKey'
  BY <1>1 DEF PrimaryKey, IInv, HasRow
<1>5. keep \/ Enc(row) \in Source'
  <2>1. CASE Enc(row) \in Source
    BY <1>3, <2>1
  <2>2. CASE row.id.id[1] \in Senders(n) /\ ~keep
    <3>1. row \in HomeRows(n)'
      BY <1>1, <2>2 DEF HomeRows
    <3> QED BY <3>1 DEF Source
  <2> QED BY <2>1, <2>2
<1>6. RowsFromSource'
  BY <1>1, <1>3, <1>5 DEF RowsFromSource, IInv
<1> QED BY <1>1, <1>3, <1>4, <1>5, <1>6

\* A queue may take in items that carry known messages.
LEMMA QueueGrows ==
  ASSUME IInv, Source \subseteq Source',
         NEW n \in Node, NEW new, \A i \in new : Carries(EncodeItem(i), Source'),
         queue' = [queue EXCEPT ![n] = @ \cup new]
  PROVE  QueueFromSource' /\ DOMAIN queue' = Node
<1>1. DOMAIN queue' = Node /\ \A m \in Node : \A i \in queue'[m] : i \in queue[m] \/ i \in new
  BY DEF IInv, Tables
<1>2. ASSUME NEW m \in Node, NEW i \in queue[m]
      PROVE  Carries(EncodeItem(i), Source')
  BY CarriesMore DEF IInv, QueueFromSource
<1> QED BY <1>1, <1>2 DEF QueueFromSource

\* handleMSG of a frame that carries a known message.
LEMMA HandleMSGKeeps ==
  ASSUME IInv, NEW n \in Node, NEW p, p.author # NilName, Normal(p) \in Source,
         HandleMSG(n, MsgFromPB(p))
  PROVE  IInv'
<1> DEFINE m == MsgFromPB(p)
           row == RowOfFrame(m)
<1>1. RowOK(row) /\ Enc(row) = Normal(p)
  BY HeardRowOK, RowRoundTrip
<1>2. rows' = [rows EXCEPT ![n] = IF HasRow(n, row.id) THEN @ ELSE @ \cup {row}]
  BY DEF HandleMSG
<1>3. /\ Source \subseteq Source' /\ PrimaryKey' /\ DOMAIN rows' = Node
      /\ RowsFromSource'
  <2> HIDE DEF row
  <2>1. HasRow(n, row.id) \in BOOLEAN
    BY DEF HasRow
  <2> QED BY <1>1, <1>2, <2>1, RowsGrow
<1>4. MsgToPB(m) \in Source'
  BY <1>3 DEF Normal
<1>5. \A i \in QueueItems(m) : Carries(EncodeItem(i), Source')
  BY <1>4, QueuedIsCarried
<1>6. ASSUME m.from = n
      PROVE  QueueFromSource' /\ DOMAIN queue' = Node
  <2>0. PICK none : none = {}
    OBVIOUS
  <2>1. queue' = [queue EXCEPT ![n] = @ \cup none]
    BY <1>6, <2>0 DEF HandleMSG
  <2>2. \A i \in none : Carries(EncodeItem(i), Source')
    BY <2>0
  <2> QED BY <1>3, <2>1, <2>2, QueueGrows
<1>7. ASSUME m.from # n
      PROVE  QueueFromSource' /\ DOMAIN queue' = Node
  <2>1. queue' = [queue EXCEPT ![n] = @ \cup QueueItems(m)]
    BY <1>7 DEF HandleMSG
  <2> QED BY <1>3, <1>5, <2>1, QueueGrows
<1>8. QueueFromSource' /\ DOMAIN queue' = Node
  BY <1>6, <1>7
<1>9. AirFromSource'
  BY <1>3, CarriesMore DEF HandleMSG, AirFromSource, IInv
<1> QED BY <1>3, <1>8, <1>9 DEF IInv, Tables
-----------------------------------------------------------------------------
\* There is nothing at first.
LEMMA InitInv == Init => IInv
BY DEF Init, IInv, Tables, PrimaryKey, RowsFromSource, QueueFromSource, AirFromSource

\* A post has a new id, and its own node is the first to say it.
LEMMA PostMessageKeeps ==
  ASSUME IInv, NEW n \in Node, PostMessage(n)
  PROVE  IInv'
<1>1. PICK req \in Request, a \in Authors[n] :
        LET full == [chan |-> req.chan, body |-> req.body, reply |-> req.reply,
                     now |-> req.now, author |-> a]
            row == RowOfRequest(n, full, NextSeq(n))
        IN /\ ~HasRow(n, row.id)
           /\ rows' = [rows EXCEPT ![n] = @ \cup {row}]
           /\ queue' = [queue EXCEPT ![n] =
                         @ \cup QueueItems(FrameOfRequest(n, full, NextSeq(n)))]
           /\ UNCHANGED air
  BY DEF PostMessage
<1> DEFINE full == [chan |-> req.chan, body |-> req.body, reply |-> req.reply,
                    now |-> req.now, author |-> a]
           row == RowOfRequest(n, full, NextSeq(n))
           m == FrameOfRequest(n, full, NextSeq(n))
<1>2. RowOK(row) /\ Enc(row) = MsgToPB(m)
  <2>1. full.reply \in ReplyText
    BY DEF Request
  <2> HIDE DEF full
  <2> QED BY <2>1, FramePathAssumption, PostedRowOK, RequestRoundTrip
<1>3. row.id.id[1] \in Senders(n)
  BY DEF RowOfRequest, GenerateMessageID, IDToHex, Senders
<1>4. ~HasRow(n, row.id) /\ rows' = [rows EXCEPT ![n] = @ \cup {row}]
  BY <1>1
<1>5. queue' = [queue EXCEPT ![n] = @ \cup QueueItems(m)] /\ air' = air
  BY <1>1
<1> HIDE DEF row, m
<1>6. /\ Source \subseteq Source' /\ PrimaryKey' /\ DOMAIN rows' = Node
      /\ Enc(row) \in Source' /\ RowsFromSource'
  <2>1. rows' = [rows EXCEPT ![n] = IF FALSE THEN @ ELSE @ \cup {row}]
    BY <1>4
  <2> QED BY <1>2, <1>3, <1>4, <2>1, RowsGrow
<1>7. \A i \in QueueItems(m) : Carries(EncodeItem(i), Source')
  BY <1>2, <1>6, QueuedIsCarried
<1>8. QueueFromSource' /\ DOMAIN queue' = Node
  BY <1>5, <1>6, <1>7, QueueGrows
<1>9. AirFromSource'
  BY <1>5, <1>6, CarriesMore DEF AirFromSource, IInv
<1> QED BY <1>6, <1>8, <1>9 DEF IInv, Tables

\* Rows stay as they are: only known messages are queued or transmitted.
LEMMA SameSource ==
  ASSUME IInv, rows' = rows
  PROVE  Source' = Source /\ PrimaryKey' /\ RowsFromSource' /\ DOMAIN rows' = Node
BY DEF IInv, Source, HomeRows, PrimaryKey, RowsFromSource, Tables

\* Steps that only queue items which carry known messages.
LEMMA QueueOnlyKeeps ==
  ASSUME IInv, NEW n \in Node, NEW new, \A i \in new : Carries(EncodeItem(i), Source),
         queue' = [queue EXCEPT ![n] = @ \cup new], UNCHANGED <<rows, air>>
  PROVE  IInv'
<1>1. Source' = Source /\ PrimaryKey' /\ RowsFromSource' /\ DOMAIN rows' = Node
  BY SameSource
<1>2. QueueFromSource' /\ DOMAIN queue' = Node
  BY <1>1, QueueGrows
<1> QED BY <1>1, <1>2 DEF IInv, Tables, AirFromSource

\* A queued item is encoded to what it carries.
LEMMA TransmitKeeps ==
  ASSUME IInv, NEW n \in Node, Transmit(n)
  PROVE  IInv'
<1>1. PICK i \in queue[n] : /\ queue' = [queue EXCEPT ![n] = @ \ {i}]
                            /\ air' = air \cup {EncodeItem(i)} /\ rows' = rows
  BY DEF Transmit
<1>2. Source' = Source /\ PrimaryKey' /\ RowsFromSource' /\ DOMAIN rows' = Node
  BY <1>1, SameSource
<1>3. DOMAIN queue' = Node /\ \A m \in Node : queue'[m] \subseteq queue[m]
  BY <1>1 DEF IInv, Tables
<1>4. QueueFromSource'
  BY <1>2, <1>3 DEF QueueFromSource, IInv
<1>5. AirFromSource'
  BY <1>1, <1>2 DEF AirFromSource, QueueFromSource, IInv
<1> QED BY <1>2, <1>3, <1>4, <1>5 DEF IInv, Tables

\* Hearing a frame on the air, whole or in pieces, or of a foreign program.
LEMMA HearKeeps ==
  ASSUME IInv, NEW n \in Node, HearForeign(n) \/ HearMsg(n) \/ HearFragments(n)
  PROVE  IInv'
<1>1. CASE HearForeign(n)
  <2>1. PICK p \in Foreign : HandleMSG(n, MsgFromPB(p))
    BY <1>1 DEF HearForeign
  <2>2. Normal(p) \in Source /\ p.author # NilName
    BY FramePathAssumption DEF Source
  <2> QED BY <2>1, <2>2, HandleMSGKeeps
<1>2. ASSUME NEW q \in Source, HandleMSG(n, MsgFromPB(q))
      PROVE  IInv'
  <2>1. Normal(q) \in Source /\ q.author # NilName
    BY SourceIsNormal
  <2> QED BY <1>2, <2>1, HandleMSGKeeps
<1>3. CASE HearMsg(n)
  <2>1. PICK f \in air : f.type = "MSG" /\ HandleMSG(n, MsgFromPB(f.pb))
    BY <1>3 DEF HearMsg
  <2>2. f.pb \in Source
    BY <2>1 DEF IInv, AirFromSource, Carries
  <2> QED BY <1>2, <2>1, <2>2
<1>4. CASE HearFragments(n)
  <2>1. PICK f \in air : f.type = "FRAG" /\ HandleMSG(n, MsgFromPB(f.pb.data))
    BY <1>4 DEF HearFragments
  <2>2. f.pb.data \in Source
    BY <2>1 DEF IInv, AirFromSource, Carries
  <2> QED BY <1>2, <2>1, <2>2
<1> QED BY <1>1, <1>3, <1>4

\* A row is pushed in the encoding of its message.
LEMMA PushMessageKeeps ==
  ASSUME IInv, NEW n \in Node, PushMessage(n)
  PROVE  IInv'
<1>1. PICK r \in rows[n] :
        /\ queue' = [queue EXCEPT ![n] = @ \cup QueueItems(MessageRowToFrame(r))]
        /\ UNCHANGED <<rows, air>>
  BY DEF PushMessage
<1>2. MsgToPB(MessageRowToFrame(r)) \in Source
  BY DEF IInv, RowsFromSource, Enc
<1>3. \A i \in QueueItems(MessageRowToFrame(r)) : Carries(EncodeItem(i), Source)
  BY <1>2, QueuedIsCarried
<1> QED BY <1>1, <1>3, QueueOnlyKeeps

\* State vectors carry no message.
LEMMA BroadcastSVECKeeps ==
  ASSUME IInv, NEW n \in Node, BroadcastSVEC(n)
  PROVE  IInv'
<1>1. PICK d \in SVECDicts(n) :
        /\ queue' = [queue EXCEPT ![n] = @ \cup {[type |-> "SVEC", dict |-> d]}]
        /\ UNCHANGED <<rows, air>>
  BY DEF BroadcastSVEC
<1>2. Carries(EncodeItem([type |-> "SVEC", dict |-> d]), Source)
  BY DEF EncodeItem, Vector, Carries
<1> QED BY <1>1, <1>2, QueueOnlyKeeps

\* Every step keeps the invariant.
LEMMA NextInv == IInv /\ [Next]_vars => IInv'
<1> SUFFICES ASSUME IInv, [Next]_vars
             PROVE  IInv'
  OBVIOUS
<1>1. CASE UNCHANGED vars
  BY <1>1 DEF vars, IInv, Tables, PrimaryKey, RowsFromSource, QueueFromSource, AirFromSource,
              Source, HomeRows
<1>2. CASE Next
  BY <1>2, PostMessageKeeps, HearKeeps, PushMessageKeeps, BroadcastSVECKeeps, TransmitKeeps
     DEF Next
<1> QED BY <1>1, <1>2

(* Every row, queued item and frame carries one of the messages that were  *)
(* posted or are foreign (SendMessage, handleMSG, messageRowToFrame,        *)
(* transmissionLoop).                                                       *)
THEOREM Invariant == Spec => []IInv
BY InitInv, NextInv, PTL DEF Spec

-----------------------------------------------------------------------------
(* Whichever node transmits a message, and whether posted, forwarded or     *)
(* pushed, whole or in pieces (SendMessage, handleMSG, messageRowToFrame):  *)
(* the bytes are the same.                                                  *)
THEOREM SameBytes == Spec => []OneEncoding
<1>1. IInv => OneEncoding
  <2> SUFFICES ASSUME IInv, NEW f \in air, NEW g \in air,
                      f.type # "SVEC", g.type # "SVEC", f.pb.id = g.pb.id
               PROVE  /\ (IF f.type = "MSG" THEN f.pb ELSE f.pb.data)
                           = (IF g.type = "MSG" THEN g.pb ELSE g.pb.data)
                      /\ f.type = g.type
                      /\ f.type = "FRAG" => f.pb.total = g.pb.total
    BY DEF OneEncoding
  <2> DEFINE enc(x) == IF x.type = "MSG" THEN x.pb ELSE x.pb.data
  <2>1. \A x \in {f, g} : /\ enc(x) \in Source /\ enc(x).id = x.pb.id
                          /\ x.type = IF Size(enc(x)) <= Threshold THEN "MSG" ELSE "FRAG"
                          /\ x.type = "FRAG" => x.pb.total = Total(enc(x))
    BY DEF IInv, AirFromSource, Carries
  <2>2. enc(f) = enc(g)
    BY <2>1, SourceUnique
  <2> QED BY <2>1, <2>2
<1> QED BY <1>1, Invariant, PTL

(* All nodes store the same message under an id (SaveMessage,               *)
(* SaveMessageWithSeq), up to the wording of reply_to and an empty author.  *)
THEOREM SameRows == Spec => []RowsAgree
<1>1. IInv => RowsAgree
  <2> SUFFICES ASSUME IInv, NEW m \in Node, NEW n \in Node, NEW r \in rows[m],
                      NEW s \in rows[n], r.id = s.id
               PROVE  Meaning(r) = Meaning(s) /\ (m = n => r = s)
    BY DEF RowsAgree
  <2>1. RowOK(r) /\ RowOK(s) /\ Enc(r) \in Source /\ Enc(s) \in Source
    BY DEF IInv, RowsFromSource
  <2>2. Enc(r).id = Enc(s).id
    BY DEF Enc, MsgToPB, MessageRowToFrame
  <2>3. Enc(r) = Enc(s)
    BY <2>1, <2>2, SourceUnique
  <2>4. /\ r.from = s.from /\ r.time = s.time /\ r.chan = s.chan /\ r.body = s.body
        /\ r.seq = s.seq /\ ReplyId(r.reply) = ReplyId(s.reply)
        /\ AuthorStr(r.author) = AuthorStr(s.author)
    BY <2>1, <2>3 DEF Enc, MsgToPB, MessageRowToFrame, RowOK, ParseTimestamp, ToEpoch
  <2>5. m = n => r = s
    BY DEF IInv, PrimaryKey
  <2> QED BY <2>1, <2>4, <2>5 DEF Meaning, RowOK
<1> QED BY <1>1, Invariant, PTL
-----------------------------------------------------------------------------
(* Induction on numbers, from the library's well-founded order on finite    *)
(* sets: 0..x is the smallest of its kind.                                  *)
LEMMA SmallestNumber ==
  ASSUME NEW T, T \subseteq Nat, T # {}
  PROVE  \E x \in T : \A y \in T : x <= y
<1> DEFINE U == {0 .. x : x \in T}
<1>1. U # {} /\ U \subseteq FiniteSubsetsOf(Nat)
  <2>1. \A x \in T : IsFiniteSet(0 .. x) /\ 0 .. x \subseteq Nat
    BY FS_Interval
  <2> QED BY <2>1 DEF FiniteSubsetsOf
<1>2. \E u \in U : \A v \in U : <<v, u>> \notin StrictSubsetOrdering(Nat)
  <2> HIDE DEF U
  <2> QED BY <1>1, WFMin, FS_StrictSubsetOrderingWellFounded
<1>3. PICK x \in T : \A y \in T : <<0 .. y, 0 .. x>> \notin StrictSubsetOrdering(Nat)
  BY <1>2
<1>4. ASSUME NEW y \in T, ~(x <= y)
      PROVE  FALSE
  <2>1. y < x /\ x \in Nat /\ y \in Nat
    BY <1>4
  <2>2. 0 .. y \subseteq 0 .. x /\ x \in 0 .. x /\ x \notin 0 .. y
    BY <2>1
  <2>3. 0 .. y \in SUBSET Nat /\ 0 .. x \in SUBSET Nat
    OBVIOUS
  <2> QED BY <1>3, <2>2, <2>3 DEF StrictSubsetOrdering
<1> QED BY <1>4

\* A set of numbers that has 0 and every successor has them all.
LEMMA NumbersByInduction ==
  ASSUME NEW T, 0 \in T, \A n \in Nat : n \in T => n + 1 \in T
  PROVE  Nat \subseteq T
<1> SUFFICES ASSUME Nat \ T # {} PROVE FALSE
  OBVIOUS
<1>1. PICK x \in Nat \ T : \A y \in Nat \ T : x <= y
  BY SmallestNumber
<1>2. x # 0 /\ x - 1 \in Nat /\ x - 1 \in T
  BY <1>1
<1> QED BY <1>1, <1>2

\* A finite set of numbers has a largest one.
LEMMA LargestNumber ==
  ASSUME NEW S \in SUBSET Nat, IsFiniteSet(S), S # {}
  PROVE  \E x \in S : \A y \in S : y <= x
<1> DEFINE Largest(X) == \E x \in X : \A y \in X : y <= x
           T == {n \in Nat : \A X \in SUBSET Nat :
                   IsFiniteSet(X) /\ Cardinality(X) = n + 1 => Largest(X)}
<1>1. 0 \in T
  <2>1. ASSUME NEW X \in SUBSET Nat, IsFiniteSet(X), Cardinality(X) = 0 + 1
        PROVE  Largest(X)
    <3>0. Cardinality(X) = 1
      BY <2>1
    <3>1. PICK x : X = {x}
      BY <2>1, <3>0, FS_Singleton
    <3>2. x \in X /\ x \in Nat /\ x <= x
      BY <3>1
    <3> QED BY <3>1, <3>2
  <2> HIDE DEF Largest
  <2> QED BY <2>1
<1>2. ASSUME NEW n \in Nat, n \in T
      PROVE  n + 1 \in T
  <2>1. ASSUME NEW X \in SUBSET Nat, IsFiniteSet(X), Cardinality(X) = n + 1 + 1
        PROVE  Largest(X)
    <3>1. X # {}
      BY <2>1, FS_EmptySet
    <3>2. PICK x : x \in X
      BY <3>1
    <3>3. IsFiniteSet(X \ {x}) /\ Cardinality(X \ {x}) = n + 1 /\ X \ {x} \in SUBSET Nat
      BY <2>1, <3>2, FS_RemoveElement
    <3>4. Largest(X \ {x})
      <4> HIDE DEF Largest
      <4> QED BY <1>2, <3>3
    <3>5. PICK y \in X \ {x} : \A z \in X \ {x} : z <= y
      BY <3>4
    <3>6. CASE x <= y
      <4>1. \A z \in X : z <= y
        BY <3>5, <3>6
      <4> QED BY <4>1, <3>5
    <3>7. CASE ~(x <= y)
      <4>1. \A z \in X : z <= x
        BY <3>2, <3>5, <3>7
      <4> QED BY <4>1, <3>2
    <3>8. x \in Nat /\ y \in Nat
      BY <3>2, <3>5
    <3> QED BY <3>6, <3>7
  <2> HIDE DEF Largest
  <2> QED BY <2>1
<1>3. Cardinality(S) \in Nat /\ Cardinality(S) # 0
  BY FS_CardinalityType, FS_EmptySet
<1>4. Cardinality(S) - 1 \in T
  <2> HIDE DEF T
  <2>1. Cardinality(S) - 1 \in Nat
    BY <1>3
  <2> QED BY <2>1, <1>1, <1>2, NumbersByInduction
<1>5. Cardinality(S) = (Cardinality(S) - 1) + 1
  BY <1>3
<1>6. Largest(S)
  <2> HIDE DEF Largest
  <2> QED BY <1>4, <1>5
<1> QED BY <1>6

\* What Max and Min choose.
LEMMA MaxOf ==
  ASSUME NEW S \in SUBSET Nat, IsFiniteSet(S), S # {}
  PROVE  Max(S) \in S /\ \A y \in S : y <= Max(S)
BY LargestNumber DEF Max

LEMMA MaxIs ==
  ASSUME NEW S \in SUBSET Int, NEW x \in S, \A y \in S : y <= x
  PROVE  Max(S) = x
<1>1. Max(S) \in S /\ \A y \in S : y <= Max(S)
  BY DEF Max
<1> DEFINE z == Max(S)
<1> HIDE DEF z
<1>2. z \in Int /\ x \in Int /\ z <= x /\ x <= z
  BY <1>1 DEF z
<1>3. z = x
  BY <1>2
<1> QED BY <1>3 DEF z

LEMMA MinIs ==
  ASSUME NEW S \in SUBSET Int, NEW x \in S, \A y \in S : x <= y
  PROVE  Min(S) = x
<1>1. Min(S) \in S /\ \A y \in S : Min(S) <= y
  BY DEF Min
<1> DEFINE z == Min(S)
<1> HIDE DEF z
<1>2. z \in Int /\ x \in Int /\ z <= x /\ x <= z
  BY <1>1 DEF z
<1>3. z = x
  BY <1>2
<1> QED BY <1>3 DEF z

-----------------------------------------------------------------------------
(* JoinEntries and what SVECFromDict makes of it.                           *)

EntryOf(clock, c) == c \o <<Colon, Itoa(clock[c])>>

\* The recursion of JoinEntries, up to entry n.
Text(clock, order, n, text) ==
  text = [k \in 0 .. n |->
           IF k = 0 THEN <<>>
           ELSE (IF k = 1 THEN <<>> ELSE Append(text[k-1], Comma))
                  \o order[k] \o <<Colon, Itoa(clock[order[k]])>>]

LEMMA TextExists ==
  ASSUME NEW clock, NEW order, NEW n \in Nat
  PROVE  \E text : Text(clock, order, n, text)
<1> DEFINE Step(text, k) ==
             IF k = 0 THEN <<>>
             ELSE (IF k = 1 THEN <<>> ELSE Append(text[k-1], Comma))
                    \o order[k] \o <<Colon, Itoa(clock[order[k]])>>
           Solves(text, j) == text = [k \in 0 .. j |-> Step(text, k)]
           T == {j \in Nat : \E text : Solves(text, j)}
<1>1. 0 \in T
  <2> DEFINE h == [k \in 0 .. 0 |-> <<>>]
  <2>1. \A k \in 0 .. 0 : k = 0
    OBVIOUS
  <2>2. Solves(h, 0)
    BY <2>1
  <2> QED BY <2>2
<1>2. ASSUME NEW j \in Nat, j \in T
      PROVE  j + 1 \in T
  <2>1. PICK g : Solves(g, j)
    BY <1>2
  <2> DEFINE h == [k \in 0 .. j + 1 |-> Step(g, k)]
  <2>2. \A k \in 0 .. j : h[k] = g[k]
    <3>1. \A k \in 0 .. j : g[k] = Step(g, k)
      <4> HIDE DEF Step
      <4> QED BY <2>1
    <3>2. \A k \in 0 .. j + 1 : h[k] = Step(g, k)
      <4> HIDE DEF Step
      <4> QED OBVIOUS
    <3>3. 0 .. j \subseteq 0 .. j + 1
      OBVIOUS
    <3> HIDE DEF h, Step
    <3> QED BY <3>1, <3>2, <3>3
  <2>3. \A k \in 0 .. j + 1 : k # 0 => k - 1 \in 0 .. j
    OBVIOUS
  <2>4. \A k \in 0 .. j + 1 : Step(h, k) = Step(g, k)
    <3> HIDE DEF h
    <3> QED BY <2>2, <2>3
  <2>5. Solves(h, j + 1)
    <3> HIDE DEF Step
    <3> QED BY <2>4
  <2> HIDE DEF h, Solves
  <2> QED BY <2>5
<1>3. n \in T
  <2> HIDE DEF T
  <2> QED BY <1>1, <1>2, NumbersByInduction
<1> QED BY <1>3 DEF Text

LEMMA JoinUnfolds ==
  ASSUME NEW clock, NEW order, Len(order) \in Nat
  PROVE  \E text : /\ JoinEntries(clock, order) = text[Len(order)]
                   /\ Text(clock, order, Len(order), text)
<1> DEFINE text == CHOOSE text : Text(clock, order, Len(order), text)
<1>1. JoinEntries(clock, order) = text[Len(order)]
  BY DEF JoinEntries, Text
<1>2. Text(clock, order, Len(order), text)
  BY TextExists
<1> HIDE DEF text
<1> QED BY <1>1, <1>2
NoComma(e) == \A i \in 1 .. Len(e) : e[i] # Comma

\* The place where the entry that begins after place a ends.
EndsAt(v, a, m) ==
  /\ m \in Places(v, Comma) \cup {Len(v) + 1} /\ m > a
  /\ \A b \in Places(v, Comma) \cup {Len(v) + 1} : b > a => m <= b

\* Split at its commas, v falls into the given pieces.
SplitsInto(v, pieces) ==
  \A a \in {0} \cup Places(v, Comma) : \E m : EndsAt(v, a, m) /\ SubSeq(v, a + 1, m - 1) \in pieces

LEMMA EntryIsPiece ==
  ASSUME NEW U, NEW v \in Seq(U), NEW pieces, SplitsInto(v, pieces),
         NEW a \in {0} \cup Places(v, Comma)
  PROVE  Entry(v, a) \in pieces
<1>1. PICK m : EndsAt(v, a, m) /\ SubSeq(v, a + 1, m - 1) \in pieces
  BY DEF SplitsInto
<1> DEFINE ends == {b \in Places(v, Comma) \cup {Len(v) + 1} : b > a}
<1>2. ends \subseteq Int /\ m \in ends /\ \A b \in ends : m <= b
  BY <1>1 DEF EndsAt, Places
<1>3. Min(ends) = m
  <2> HIDE DEF ends
  <2> QED BY <1>2, MinIs
<1> QED BY <1>1, <1>3 DEF Entry

\* One entry, and one entry more.
LEMMA FirstPiece ==
  ASSUME NEW U, NEW e \in Seq(U), NoComma(e), NEW pieces, e \in pieces
  PROVE  SplitsInto(e, pieces)
<1>1. Places(e, Comma) = {}
  BY DEF NoComma, Places
<1>2. EndsAt(e, 0, Len(e) + 1)
  BY <1>1 DEF EndsAt
<1>3. SubSeq(e, 0 + 1, (Len(e) + 1) - 1) = e
  OBVIOUS
<1>4. \E m : EndsAt(e, 0, m) /\ SubSeq(e, 0 + 1, m - 1) \in pieces
  BY <1>2, <1>3
<1>5. \A a \in {0} \cup Places(e, Comma) : a = 0
  BY <1>1
<1> QED BY <1>4, <1>5 DEF SplitsInto

LEMMA NextPiece ==
  ASSUME NEW U, NEW v \in Seq(U), NEW e \in Seq(U), Comma \in U, NoComma(e),
         NEW pieces, e \in pieces, SplitsInto(v, pieces)
  PROVE  Append(v, Comma) \o e \in Seq(U) /\ SplitsInto(Append(v, Comma) \o e, pieces)
<1> DEFINE w == Append(v, Comma) \o e
           L == Len(v)
<1>1. /\ w \in Seq(U) /\ L \in Nat /\ Len(e) \in Nat /\ Len(w) = L + 1 + Len(e)
      /\ \A i \in 1 .. Len(w) : w[i] = IF i <= L THEN v[i] ELSE IF i = L + 1 THEN Comma ELSE e[i - (L + 1)]
  <2>1. Append(v, Comma) \in Seq(U) /\ Len(Append(v, Comma)) = L + 1
        /\ \A i \in 1 .. L + 1 : Append(v, Comma)[i] = IF i <= L THEN v[i] ELSE Comma
    OBVIOUS
  <2> DEFINE u == Append(v, Comma)
  <2> HIDE DEF u
  <2>2. u \in Seq(U) /\ Len(u) = L + 1 /\ \A i \in 1 .. L + 1 : u[i] = IF i <= L THEN v[i] ELSE Comma
    BY <2>1 DEF u
  <2>3. u \o e \in Seq(U) /\ Len(u \o e) = L + 1 + Len(e)
        /\ \A i \in 1 .. L + 1 + Len(e) : (u \o e)[i] = IF i <= L + 1 THEN u[i] ELSE e[i - (L + 1)]
    <3>1. /\ u \o e \in Seq(U) /\ Len(u \o e) = Len(u) + Len(e)
          /\ \A i \in 1 .. Len(u) + Len(e) :
               (u \o e)[i] = IF i <= Len(u) THEN u[i] ELSE e[i - Len(u)]
      BY <2>2, ConcatProperties
    <3> QED BY <2>2, <3>1
  <2>4. w = u \o e
    BY DEF u
  <2>5. ASSUME NEW i \in 1 .. L + 1 + Len(e)
        PROVE  (u \o e)[i] = IF i <= L THEN v[i] ELSE IF i = L + 1 THEN Comma ELSE e[i - (L + 1)]
    <3>1. CASE i <= L + 1
      BY <2>2, <2>3, <3>1
    <3>2. CASE ~(i <= L + 1)
      BY <2>3, <3>2
    <3> QED BY <3>1, <3>2
  <2> QED BY <2>3, <2>4, <2>5
<1> HIDE DEF w
<1>2. Places(w, Comma) = Places(v, Comma) \cup {L + 1}
  <2>1. \A i \in 1 .. Len(w) : i > L + 1 => w[i] # Comma
    BY SMTT(30), <1>1 DEF NoComma
  <2>2. \A i \in 1 .. L : w[i] = v[i]
    BY <1>1
  <2>3. w[L + 1] = Comma
    BY <1>1
  <2> QED BY <1>1, <2>1, <2>2, <2>3 DEF Places
<1>3. ASSUME NEW a \in {0} \cup Places(v, Comma)
      PROVE  \E m : EndsAt(w, a, m) /\ SubSeq(w, a + 1, m - 1) \in pieces
  <2>1. PICK m : EndsAt(v, a, m) /\ SubSeq(v, a + 1, m - 1) \in pieces
    BY DEF SplitsInto
  <2>2. a \in 0 .. L /\ m \in 1 .. L + 1 /\ m > a
    BY <2>1 DEF EndsAt, Places
  <2>3. EndsAt(w, a, m)
    BY <1>1, <1>2, <2>1, <2>2 DEF EndsAt
  <2>4. SubSeq(w, a + 1, m - 1) = SubSeq(v, a + 1, m - 1)
    <3>1. \A i \in a + 1 .. m - 1 : w[i] = v[i]
      BY <1>1, <2>2
    <3> QED BY <1>1, <2>2, <3>1
  <2> QED BY <2>1, <2>3, <2>4
<1>4. EndsAt(w, L + 1, Len(w) + 1)
  <2>1. \A b \in Places(v, Comma) : b \in Nat /\ b <= L
    BY DEF Places
  <2>2. \A b \in Places(w, Comma) \cup {Len(w) + 1} : b > L + 1 => Len(w) + 1 <= b
    BY <1>1, <1>2, <2>1
  <2> QED BY <1>1, <2>2 DEF EndsAt
<1>5. SubSeq(w, L + 1 + 1, Len(w) + 1 - 1) = e
  <2>1. Len(w) + 1 - 1 = L + 1 + Len(e) /\ L + 1 + 1 = L + 2
    BY <1>1
  <2> DEFINE s == SubSeq(w, L + 2, L + 1 + Len(e))
  <2>2. s \in Seq(U) /\ Len(s) = Len(e) /\ \A i \in 1 .. Len(e) : s[i] = w[L + 1 + i]
    BY <1>1
  <2>3. ASSUME NEW i \in 1 .. Len(e)
        PROVE  w[L + 1 + i] = e[i]
    <3>1. /\ L + 1 + i \in 1 .. Len(w) /\ ~(L + 1 + i <= L) /\ L + 1 + i # L + 1
          /\ (L + 1 + i) - (L + 1) = i
      BY <1>1
    <3> QED BY <1>1, <3>1
  <2> HIDE DEF s
  <2>4. s = e
    BY <2>2, <2>3
  <2> QED BY <2>1, <2>4 DEF s
<1>6. \E m : EndsAt(w, L + 1, m) /\ SubSeq(w, (L + 1) + 1, m - 1) \in pieces
  <2>1. PICK m : m = Len(w) + 1
    OBVIOUS
  <2>2. EndsAt(w, L + 1, m)
    BY <1>4, <2>1
  <2>3. SubSeq(w, (L + 1) + 1, m - 1) = e
    BY <1>5, <2>1
  <2> QED BY <2>2, <2>3
<1>7. SplitsInto(w, pieces)
  <2> HIDE DEF L
  <2> QED BY <1>2, <1>3, <1>6 DEF SplitsInto
<1> QED BY <1>1, <1>7 DEF w

\* Every name is a sequence of tokens without a comma, and so is every number.
Joinable(clock, U) ==
  /\ Comma \in U /\ Colon \in U
  /\ \A c \in DOMAIN clock : c \in Seq(U) /\ ~CommaName(c) /\ Itoa(clock[c]) \in U

LEMMA EntryFields ==
  ASSUME NEW U, NEW clock, Joinable(clock, U), NEW c \in DOMAIN clock
  PROVE  LET e == EntryOf(clock, c) IN
         /\ e \in Seq(U) /\ NoComma(e)
         /\ Places(e, Colon) # {} /\ Callsign(e) = c /\ SeqStr(e) = <<Itoa(clock[c])>>
<1> DEFINE e == EntryOf(clock, c)
           L == Len(c)
           num == Itoa(clock[c])
<1>1. c \in Seq(U) /\ Comma \in U /\ Colon \in U /\ num \in U /\ \A i \in 1 .. L : c[i] # Comma
  BY DEF Joinable, CommaName
<1>2. Colon # Comma /\ num # Comma /\ num # Colon
  BY DEF Colon, Comma, Itoa
<1> DEFINE t == <<Colon, num>>
<1>3. t \in Seq(U) /\ Len(t) = 2 /\ t[1] = Colon /\ t[2] = num
  BY <1>1
<1> HIDE DEF t, num
<1>4. /\ e \in Seq(U) /\ L \in Nat /\ Len(e) = L + 2
      /\ \A i \in 1 .. L : e[i] = c[i]
      /\ e[L + 1] = Colon /\ e[L + 2] = num
  <2>1. /\ c \o t \in Seq(U) /\ Len(c \o t) = L + 2
        /\ \A i \in 1 .. L + 2 : (c \o t)[i] = IF i <= L THEN c[i] ELSE t[i - L]
    <3>1. /\ c \o t \in Seq(U) /\ Len(c \o t) = Len(c) + Len(t)
          /\ \A i \in 1 .. Len(c) + Len(t) : (c \o t)[i] = IF i <= Len(c) THEN c[i] ELSE t[i - Len(c)]
      BY <1>1, <1>3, ConcatProperties
    <3> QED BY <1>3, <3>1
  <2>2. e = c \o t
    BY DEF EntryOf, t, num
  <2>3. L \in Nat
    BY <1>1
  <2> HIDE DEF e, L
  <2> DEFINE w == c \o t
  <2> HIDE DEF w
  <2>4. /\ w \in Seq(U) /\ Len(w) = L + 2
        /\ \A i \in 1 .. L + 2 : w[i] = IF i <= L THEN c[i] ELSE t[i - L]
    BY <2>1 DEF w
  <2>5. w[L + 1] = t[(L + 1) - L] /\ (L + 1) - L = 1
    BY <2>3, <2>4
  <2>6. w[L + 2] = t[(L + 2) - L] /\ (L + 2) - L = 2
    BY <2>3, <2>4
  <2>7. \A i \in 1 .. L : w[i] = c[i]
    BY <2>3, <2>4
  <2> QED BY <1>3, <2>2, <2>3, <2>4, <2>5, <2>6, <2>7 DEF w
<1> HIDE DEF e, L
<1>5. \A i \in 1 .. Len(e) : i \in 1 .. L \/ i = L + 1 \/ i = L + 2
  BY <1>4
<1>6. NoComma(e)
  BY <1>1, <1>2, <1>4, <1>5 DEF NoComma, L
<1>7. L + 1 \in Places(e, Colon) /\ Places(e, Colon) \subseteq Int /\ \A i \in Places(e, Colon) : i <= L + 1
  BY <1>2, <1>4, <1>5 DEF Places
<1>8. LastColon(e) = L + 1
  BY <1>7, MaxIs DEF LastColon
<1>9. Callsign(e) = c
  <2>1. Callsign(e) = SubSeq(e, 1, L)
    BY <1>4, <1>8 DEF Callsign
  <2>2. SubSeq(e, 1, L) = c
    BY <1>1, <1>4 DEF L
  <2> QED BY <2>1, <2>2
<1>10. SeqStr(e) = <<num>>
  <2>1. SeqStr(e) = SubSeq(e, L + 2, L + 2)
    BY <1>4, <1>8 DEF SeqStr
  <2> DEFINE s == SubSeq(e, L + 2, L + 2)
  <2>2. s \in Seq(U) /\ Len(s) = 1 /\ s[1] = num
    BY <1>4
  <2> HIDE DEF s
  <2>3. s = <<s[1]>>
    BY <2>2
  <2> QED BY <2>1, <2>2, <2>3 DEF s
<1> QED BY <1>4, <1>6, <1>7, <1>9, <1>10 DEF e, num

LEMMA JoinSplits ==
  ASSUME NEW U, NEW clock, Joinable(clock, U),
         NEW n \in Nat, n # 0, NEW order \in [1 .. n -> DOMAIN clock]
  PROVE  /\ JoinEntries(clock, order) \in Seq(U)
         /\ SplitsInto(JoinEntries(clock, order), {EntryOf(clock, c) : c \in DOMAIN clock})
<1> DEFINE pieces == {EntryOf(clock, c) : c \in DOMAIN clock}
<1>1. Len(order) = n
  OBVIOUS
<1>2. PICK text : JoinEntries(clock, order) = text[n] /\ Text(clock, order, n, text)
  BY <1>1, JoinUnfolds
<1>3. \A k \in 1 .. n :
        /\ EntryOf(clock, order[k]) \in Seq(U) /\ NoComma(EntryOf(clock, order[k]))
        /\ EntryOf(clock, order[k]) \in pieces
  BY EntryFields
<1>4. /\ text[1] = (<<>> \o order[1]) \o <<Colon, Itoa(clock[order[1]])>>
      /\ \A k \in 2 .. n : text[k] = (Append(text[k - 1], Comma) \o order[k])
                                       \o <<Colon, Itoa(clock[order[k]])>>
  <2> DEFINE tail(k) == <<Colon, Itoa(clock[order[k]])>>
  <2>1. \A k \in 0 .. n :
          text[k] = IF k = 0 THEN <<>>
                    ELSE (IF k = 1 THEN <<>> ELSE Append(text[k-1], Comma)) \o order[k] \o tail(k)
    BY <1>2 DEF Text
  <2> HIDE DEF tail
  <2>2. 1 \in 0 .. n /\ \A k \in 2 .. n : k \in 0 .. n /\ k # 0 /\ k # 1
    OBVIOUS
  <2>3. text[1] = (<<>> \o order[1]) \o tail(1)
    BY <2>1, <2>2
  <2>4. \A k \in 2 .. n : text[k] = (Append(text[k - 1], Comma) \o order[k]) \o tail(k)
    BY <2>1, <2>2
  <2> QED BY <2>3, <2>4 DEF tail
<1>5. \A k \in 1 .. n : \A s \in Seq(U) : (s \o order[k]) \o <<Colon, Itoa(clock[order[k]])>> = s \o EntryOf(clock, order[k])
  <2>1. SUFFICES ASSUME NEW k \in 1 .. n, NEW s \in Seq(U)
                 PROVE  (s \o order[k]) \o <<Colon, Itoa(clock[order[k]])>> = s \o EntryOf(clock, order[k])
    OBVIOUS
  <2>2. order[k] \in Seq(U) /\ Colon \in U /\ Itoa(clock[order[k]]) \in U
    BY DEF Joinable
  <2>3. <<Colon, Itoa(clock[order[k]])>> \in Seq(U)
    <3> DEFINE num == Itoa(clock[order[k]])
    <3> HIDE DEF num
    <3>1. num \in U
      BY <2>2 DEF num
    <3>2. <<Colon, num>> \in Seq(U)
      BY <2>2, <3>1
    <3> QED BY <3>2 DEF num
  <2> QED BY <2>2, <2>3, ConcatAssociative DEF EntryOf
<1> HIDE DEF pieces
<1> DEFINE OK(k) == text[k] \in Seq(U) /\ SplitsInto(text[k], pieces)
           T == {k \in Nat : k + 1 <= n => OK(k + 1)}
<1>6. 0 \in T
  <2>1. <<>> \in Seq(U) /\ 1 \in 1 .. n
    OBVIOUS
  <2>2. text[1] = <<>> \o EntryOf(clock, order[1])
    BY <1>4, <1>5, <2>1
  <2>3. text[1] = EntryOf(clock, order[1])
    BY <1>3, <2>1, <2>2, ConcatEmptySeq
  <2>4. OK(1)
    BY <1>3, <2>1, <2>3, FirstPiece
  <2> QED BY <2>4
<1>7. ASSUME NEW k \in Nat, k \in T
      PROVE  k + 1 \in T
  <2>1. SUFFICES ASSUME k + 1 + 1 <= n PROVE OK(k + 1 + 1)
    OBVIOUS
  <2>2. OK(k + 1) /\ k + 2 \in 2 .. n /\ k + 2 \in 1 .. n /\ (k + 2) - 1 = k + 1 /\ k + 1 + 1 = k + 2
    BY <1>7, <2>1
  <2>3. Append(text[k + 1], Comma) \in Seq(U)
    BY <2>2 DEF Joinable
  <2>4. text[k + 2] = Append(text[k + 1], Comma) \o EntryOf(clock, order[k + 2])
    <3>1. PICK j : j = k + 2 /\ j \in 2 .. n /\ j \in 1 .. n /\ j - 1 = k + 1
      BY <2>2
    <3> DEFINE tail == <<Colon, Itoa(clock[order[j]])>>
    <3>2. text[j] = (Append(text[j - 1], Comma) \o order[j]) \o tail
      BY <1>4, <3>1
    <3>3. \A s \in Seq(U) : (s \o order[j]) \o tail = s \o EntryOf(clock, order[j])
      BY <1>5, <3>1
    <3> HIDE DEF tail
    <3>4. text[j] = Append(text[k + 1], Comma) \o EntryOf(clock, order[j])
      BY <2>3, <3>1, <3>2, <3>3
    <3> QED BY <3>1, <3>4
  <2>5. Comma \in U
    BY DEF Joinable
  <2>6. OK(k + 2)
    BY <1>3, <2>2, <2>4, <2>5, NextPiece
  <2> QED BY <2>2, <2>6
<1>8. n - 1 \in T /\ (n - 1) + 1 = n
  <2> HIDE DEF T
  <2>1. n - 1 \in Nat
    OBVIOUS
  <2> QED BY <2>1, <1>6, <1>7, NumbersByInduction
<1>9. OK(n)
  <2> HIDE DEF OK
  <2> QED BY <1>8
<1> QED BY <1>2, <1>9 DEF pieces

\* Parsed again, the text gives every name in it its number in the clock.
LEMMA SVECParses ==
  ASSUME NEW U, NEW clock, Joinable(clock, U),
         NEW n \in Nat, NEW order \in [1 .. n -> DOMAIN clock], NEW x, x # <<>>,
         NEW d, d = [from |-> x, vec |-> JoinEntries(clock, order)]
  PROVE  /\ SVECBuildable(d) /\ SVECFromDict(d).from = x
         /\ \A c \in DOMAIN SVECFromDict(d).vector :
              c \in DOMAIN clock /\ SVECFromDict(d).vector[c] = clock[c]
<1> DEFINE v == JoinEntries(clock, order)
<1>1. Len(v) \in Nat /\ \A a \in Entries(v) : \E c \in DOMAIN clock : Entry(v, a) = EntryOf(clock, c)
  <2>1. CASE n = 0
    <3>1. Len(order) = 0
      BY <2>1
    <3>2. PICK text : v = text[0] /\ Text(clock, order, 0, text)
      BY <3>1, JoinUnfolds
    <3>3. v = <<>>
      BY <3>2 DEF Text
    <3> HIDE DEF v
    <3>4. Places(v, Comma) = {} /\ Len(v) = 0
      BY <3>3 DEF Places
    <3> DEFINE ends == {b \in Places(v, Comma) \cup {Len(v) + 1} : b > 0}
    <3>5. ends \subseteq Int /\ 1 \in ends /\ \A y \in ends : 1 <= y
      BY <3>4
    <3>6. Entry(v, 0) = SubSeq(v, 1, 0)
      <4>1. Entry(v, 0) = SubSeq(v, 0 + 1, Min(ends) - 1)
        BY DEF Entry
      <4> HIDE DEF ends
      <4>2. Min(ends) = 1
        BY <3>5, MinIs
      <4> QED BY <4>1, <4>2
    <3>7. Entry(v, 0) = <<>>
      BY <3>3, <3>6
    <3>8. Places(Entry(v, 0), Colon) = {}
      BY <3>7 DEF Places
    <3>9. Entries(v) = {}
      BY <3>4, <3>8 DEF Entries
    <3> QED BY <3>4, <3>9
  <2>2. CASE n # 0
    <3> DEFINE pieces == {EntryOf(clock, c) : c \in DOMAIN clock}
    <3>1. v \in Seq(U) /\ SplitsInto(v, pieces)
      BY <2>2, JoinSplits
    <3> HIDE DEF v, pieces
    <3>2. \A a \in {0} \cup Places(v, Comma) : Entry(v, a) \in pieces
      BY <3>1, EntryIsPiece
    <3>3. Entries(v) \subseteq {0} \cup Places(v, Comma)
      BY DEF Entries
    <3> QED BY <3>1, <3>2, <3>3 DEF pieces
  <2> QED BY <2>1, <2>2
<1> HIDE DEF v
<1>2. \A a \in Entries(v) : \E c \in DOMAIN clock :
        Callsign(Entry(v, a)) = c /\ SeqStr(Entry(v, a)) = <<Itoa(clock[c])>>
  BY <1>1, EntryFields
<1>3. Entries(v) \subseteq 0 .. Len(v)
  BY <1>1 DEF Entries, Places
<1>4. d.vec = v /\ d.from = x
  BY DEF v
<1>5. SVECBuildable(d)
  <2>1. \A k : IsNumber(<<Itoa(k)>>)
    BY DEF IsNumber, Itoa
  <2> QED BY <1>2, <1>4, <2>1 DEF SVECBuildable
<1> DEFINE names == {Callsign(Entry(v, a)) : a \in Entries(v)}
           of(c) == {a \in Entries(v) : Callsign(Entry(v, a)) = c}
           vector == [c \in names |-> Atoi(SeqStr(Entry(v, Max(of(c))))[1])]
<1>6. SVECFromDict(d).from = x /\ SVECFromDict(d).vector = vector
  BY <1>4 DEF SVECFromDict
<1>7. ASSUME NEW c \in names
      PROVE  c \in DOMAIN clock /\ vector[c] = clock[c]
  <2>1. of(c) # {} /\ of(c) \in SUBSET Nat /\ of(c) \subseteq 0 .. Len(v)
    BY <1>1, <1>3
  <2>2. IsFiniteSet(of(c))
    <3>1. IsFiniteSet(0 .. Len(v))
      BY <1>1, FS_Interval
    <3> HIDE DEF of
    <3> QED BY <2>1, <3>1, FS_Subset
  <2>3. Max(of(c)) \in of(c)
    <3> HIDE DEF of
    <3> QED BY <2>1, <2>2, MaxOf
  <2>4. PICK a \in Entries(v) : a = Max(of(c)) /\ Callsign(Entry(v, a)) = c
    BY <2>3
  <2>5. c \in DOMAIN clock /\ SeqStr(Entry(v, a)) = <<Itoa(clock[c])>>
    BY <1>2, <2>4
  <2>6. Atoi(SeqStr(Entry(v, a))[1]) = clock[c]
    BY <2>5 DEF Atoi, Itoa
  <2> HIDE DEF of
  <2> QED BY <2>4, <2>5, <2>6
<1> HIDE DEF vector, names
<1>8. DOMAIN vector = names
  BY DEF vector
<1> QED BY <1>5, <1>6, <1>7, <1>8

-----------------------------------------------------------------------------
(* OnlyForeignStops and ClaimsHeld.  What was first said has a number and a *)
(* callsign, and a channel with capitals only in a foreign message; a queue *)
(* holds rebuildable frames of it, and state vectors whose claims the store *)
(* of the sender holds, now and later: rows are only added.                 *)

FromForeign(id) == \E p \in Foreign : p.id = id /\ p.chan \in Capital

GoodMessage(q) ==
  q.seq \in Nat /\ q.from \in Callsigns /\ (q.chan \in Capital => FromForeign(q.id))

\* A queued MSG or FRAG.
GoodMessageItem(i) ==
  \/ i.type = "MSG" /\ (MSGBuildable(i.dict) \/ FromForeign(i.dict.id.id))
  \/ i.type = "FRAG" /\ FRAGBuildable(i.dict)

NoCommaKnown(n) == \A c \in Knows(n) : ~CommaName(c)
Claims(n, vector) == \A c \in DOMAIN vector : 1 .. vector[c] \subseteq Numbers(n, c)

\* A queued SVEC of node n.
GoodVectorItem(n, i) ==
  /\ i.type = "SVEC" /\ i.dict.from = n
  /\ NoCommaKnown(n) => SVECBuildable(i.dict) /\ Claims(n, SVECFromDict(i.dict).vector)

RowsFinite == \A n \in Node : IsFiniteSet(rows[n])
GoodSource == \A q \in Source : GoodMessage(q)
GoodQueues == \A n \in Node : \A i \in queue[n] : GoodMessageItem(i) \/ GoodVectorItem(n, i)

StopInv == IInv /\ RowsFinite /\ GoodSource /\ GoodQueues /\ ClaimsHeld

\* What the rows hold, by their encodings.
LEMMA GoodRows ==
  ASSUME IInv, GoodSource, NEW n \in Node, NEW r \in rows[n]
  PROVE  GoodMessage(Enc(r)) /\ r.seq \in Nat /\ r.from \in Callsigns
<1>1. Enc(r) \in Source
  BY DEF IInv, RowsFromSource
<1>2. Enc(r).seq = r.seq /\ Enc(r).from = r.from
  BY DEF Enc, MsgToPB, MessageRowToFrame
<1> QED BY <1>1, <1>2 DEF GoodSource, GoodMessage

\* A good message is queued in items that can be rebuilt, or is foreign.
LEMMA QueuedIsGood ==
  ASSUME NEW m, GoodMessage(MsgToPB(m)), NEW i \in QueueItems(m)
  PROVE  GoodMessageItem(i)
<1>1. m.seq \in Nat /\ (m.chan \in Capital => FromForeign(m.id))
  BY DEF GoodMessage, MsgToPB
<1>2. CASE Size(MsgToPB(m)) <= Threshold
  <2>1. i.type = "MSG" /\ i.dict = ToDict(m)
    BY <1>2 DEF QueueItems
  <2> DEFINE d == ToDict(m)
  <2>2. IsHex(d.id) /\ d.id.id = m.id /\ d.chan = m.chan
    BY DEF ToDict, IsHex, IDToHex
  <2>3. IsHex(d.reply) \/ d.reply.form \in {"", "-"}
    BY DEF ToDict, IsHex, IDToHex, NoText
  <2>4. d.seq = NoKey \/ Atoi(d.seq) >= 1
    <3>1. d.seq = IF m.seq = 0 THEN NoKey ELSE Itoa(m.seq)
      BY DEF ToDict
    <3>2. Atoi(Itoa(m.seq)) = m.seq
      BY DEF Atoi, Itoa
    <3>3. m.seq # 0 => m.seq >= 1
      BY <1>1
    <3> QED BY <3>1, <3>2, <3>3
  <2> HIDE DEF d
  <2>5. MSGBuildable(d) \/ FromForeign(d.id.id)
    BY <1>1, <2>2, <2>3, <2>4 DEF MSGBuildable, IsValidChannel
  <2> QED BY <2>1, <2>5 DEF GoodMessageItem, d
<1>3. CASE ~(Size(MsgToPB(m)) <= Threshold)
  <2>1. PICK f \in FragmentMessage(m) : i = [type |-> "FRAG", dict |-> FragToDict(f)]
    BY <1>3 DEF QueueItems
  <2>2. f.idx \in 0 .. (f.total - 1)
    BY DEF FragmentMessage
  <2>3. FRAGBuildable(FragToDict(f))
    BY <2>2 DEF FRAGBuildable, FragToDict, IsHex, IDToHex, Atoi, Itoa
  <2> QED BY <2>1, <2>3 DEF GoodMessageItem
<1> QED BY <1>2, <1>3

\* Rows are only added: what was good and what was claimed stays so.
LEMMA GoodRowsGrow ==
  ASSUME IInv, RowsFinite, GoodSource,
         NEW n \in Node, NEW row, NEW keep \in BOOLEAN, GoodMessage(Enc(row)),
         rows' = [rows EXCEPT ![n] = IF keep THEN @ ELSE @ \cup {row}]
  PROVE  /\ RowsFinite' /\ GoodSource'
         /\ \A m \in Node : rows[m] \subseteq rows'[m]
<1>1. \A m \in Node : rows'[m] = IF m = n /\ ~keep THEN rows[m] \cup {row} ELSE rows[m]
  BY DEF IInv, Tables
<1>2. RowsFinite'
  BY <1>1, FS_AddElement DEF RowsFinite
<1>3. \A m \in Node : HomeRows(m)' \subseteq HomeRows(m) \cup {row}
  BY <1>1 DEF HomeRows
<1>4. Source' \subseteq Source \cup {Enc(row)}
  BY <1>3 DEF Source
<1>5. GoodSource'
  BY <1>4 DEF GoodSource
<1> QED BY <1>1, <1>2, <1>5

\* With more rows, a node knows more callsigns and numbers.
LEMMA MoreKnown ==
  ASSUME NEW n \in Node, rows[n] \subseteq rows'[n]
  PROVE  /\ NoCommaKnown(n)' => NoCommaKnown(n)
         /\ \A c : Numbers(n, c) \subseteq Numbers(n, c)'
         /\ \A vector : Claims(n, vector) => Claims(n, vector)'
<1>1. \A c : Numbers(n, c) \subseteq Numbers(n, c)'
  BY DEF Numbers
<1>2. NoCommaKnown(n)' => NoCommaKnown(n)
  BY DEF NoCommaKnown, Knows
<1> QED BY <1>1, <1>2 DEF Claims

\* The queues keep what they may hold when rows and good items are added.
LEMMA GoodQueuesGrow ==
  ASSUME IInv, GoodQueues, \A m \in Node : rows[m] \subseteq rows'[m],
         NEW n \in Node, NEW new, \A i \in new : GoodMessageItem(i) \/ GoodVectorItem(n, i)',
         queue' = [queue EXCEPT ![n] = @ \cup new]
  PROVE  GoodQueues'
<1>1. \A m \in Node : \A i \in queue'[m] : i \in queue[m] \/ (m = n /\ i \in new)
  BY DEF IInv, Tables
<1>2. ASSUME NEW m \in Node, NEW i, GoodVectorItem(m, i)
      PROVE  GoodVectorItem(m, i)'
  BY <1>2, MoreKnown DEF GoodVectorItem
<1> QED BY <1>1, <1>2 DEF GoodQueues

\* And so does the air.
LEMMA ClaimsStay ==
  ASSUME ClaimsHeld, \A m \in Node : rows[m] \subseteq rows'[m], air' = air
  PROVE  ClaimsHeld'
BY MoreKnown DEF ClaimsHeld, NoCommaKnown, Knows, Claims

-----------------------------------------------------------------------------
\* The longest run of numbers from 1 is there.
LEMMA ContiguousIsThere ==
  ASSUME NEW s, IsFiniteSet(s)
  PROVE  HighestContiguous(s) \in Nat /\ 1 .. HighestContiguous(s) \subseteq s
<1> DEFINE runs == {k \in 0 .. Cardinality(s) : 1 .. k \subseteq s}
<1>1. Cardinality(s) \in Nat
  BY FS_CardinalityType
<1>2. IsFiniteSet(0 .. Cardinality(s))
  BY <1>1, FS_Interval
<1>3. runs \in SUBSET Nat /\ IsFiniteSet(runs) /\ 0 \in runs
  <2>1. 0 \in runs
    BY <1>1
  <2> QED BY <1>1, <1>2, <2>1, FS_Subset
<1>4. Max(runs) \in runs
  <2> HIDE DEF runs
  <2> QED BY <1>3, MaxOf
<1>5. HighestContiguous(s) = Max(runs)
  BY DEF HighestContiguous
<1>6. \A k \in runs : k \in Nat /\ 1 .. k \subseteq s
  BY <1>1
<1> HIDE DEF runs
<1> QED BY <1>4, <1>5, <1>6

\* A node stores finitely many rows, so it knows finitely many names and numbers.
LEMMA KnownFinite ==
  ASSUME NEW S, IsFiniteSet(S)
  PROVE  IsFiniteSet({r.seq : r \in S}) /\ IsFiniteSet({r.from : r \in S})
<1> DEFINE seqs == {r.seq : r \in S}
           names == {r.from : r \in S}
           f == [r \in S |-> r.seq]
           g == [r \in S |-> r.from]
<1>1. f \in Surjection(S, seqs) /\ g \in Surjection(S, names)
  BY DEF Surjection
<1> HIDE DEF f, g, seqs, names
<1>2. IsFiniteSet(seqs) /\ IsFiniteSet(names)
  BY <1>1, FS_Surjection
<1> QED BY <1>2 DEF seqs, names

LEMMA NumbersFinite ==
  ASSUME RowsFinite, NEW n \in Node, NEW c
  PROVE  IsFiniteSet(Numbers(n, c))
<1> DEFINE S == {r \in rows[n] : r.from = c}
<1>1. IsFiniteSet(S)
  BY FS_Subset DEF RowsFinite
<1> HIDE DEF S
<1>2. IsFiniteSet({r.seq : r \in S})
  BY <1>1, KnownFinite
<1>3. IsFiniteSet({r.seq : r \in S} \ {0})
  BY <1>2, FS_Subset
<1> QED BY <1>3 DEF Numbers, S

-----------------------------------------------------------------------------
\* At first only foreign messages have been said.
LEMMA InitStop == Init => StopInv
<1> SUFFICES ASSUME Init PROVE StopInv
  OBVIOUS
<1>1. RowsFinite
  BY FS_EmptySet DEF Init, RowsFinite
<1>2. GoodSource
  <2>1. Source = {Normal(p) : p \in Foreign}
    BY DEF Init, Source, HomeRows
  <2>2. ASSUME NEW p \in Foreign
        PROVE  GoodMessage(Normal(p))
    <3>1. Normal(p).seq = p.seq /\ Normal(p).from = p.from /\ Normal(p).chan = p.chan
          /\ Normal(p).id = p.id
      BY DEF Normal, MsgFromPB, MsgToPB
    <3> QED BY <3>1, FramePathAssumption DEF GoodMessage, FromForeign, Callsigns
  <2> QED BY <2>1, <2>2 DEF GoodSource
<1>3. GoodQueues /\ ClaimsHeld
  BY DEF Init, GoodQueues, ClaimsHeld
<1> QED BY <1>1, <1>2, <1>3, InitInv DEF StopInv

\* A post is numbered, in a channel without capitals.
LEMMA PostStop ==
  ASSUME StopInv, NEW n \in Node, PostMessage(n)
  PROVE  StopInv'
<1>1. PICK req \in Request, a \in Authors[n] :
        LET full == [chan |-> req.chan, body |-> req.body, reply |-> req.reply,
                     now |-> req.now, author |-> a]
            row == RowOfRequest(n, full, NextSeq(n))
        IN /\ rows' = [rows EXCEPT ![n] = @ \cup {row}]
           /\ queue' = [queue EXCEPT ![n] =
                         @ \cup QueueItems(FrameOfRequest(n, full, NextSeq(n)))]
           /\ UNCHANGED air
  BY DEF PostMessage
<1>2. PICK k : k = NextSeq(n)
  OBVIOUS
<1>3. k \in Nat
  <2> DEFINE own == {r.seq : r \in Own(n)} \cup {0}
  <2>1. IsFiniteSet(Own(n))
    BY FS_Subset DEF StopInv, RowsFinite, Own
  <2>2. IsFiniteSet({r.seq : r \in Own(n)})
    BY <2>1, KnownFinite
  <2>3. IsFiniteSet(own)
    BY <2>2, FS_AddElement
  <2>4. own \in SUBSET Nat
    BY GoodRows DEF StopInv, Own
  <2>5. NextSeq(n) = Max(own) + 1
    BY DEF NextSeq
  <2>6. 0 \in own
    OBVIOUS
  <2> HIDE DEF own
  <2>7. Max(own) \in Nat
    BY <2>3, <2>4, <2>6, MaxOf
  <2> QED BY <1>2, <2>5, <2>7
<1> DEFINE full == [chan |-> req.chan, body |-> req.body, reply |-> req.reply,
                    now |-> req.now, author |-> a]
           row == RowOfRequest(n, full, k)
           m == FrameOfRequest(n, full, k)
<1>4. /\ rows' = [rows EXCEPT ![n] = IF FALSE THEN @ ELSE @ \cup {row}]
      /\ queue' = [queue EXCEPT ![n] = @ \cup QueueItems(m)] /\ air' = air
  BY <1>1, <1>2
<1>5. Enc(row) = MsgToPB(m)
  BY RequestRoundTrip
<1>6. GoodMessage(MsgToPB(m))
  <2>1. MsgToPB(m).seq = k /\ MsgToPB(m).from = n /\ MsgToPB(m).chan = req.chan
    BY DEF FrameOfRequest, MsgToPB
  <2>2. req.chan \notin Capital
    BY FramePathAssumption DEF Request
  <2> QED BY <1>3, <2>1, <2>2 DEF GoodMessage, Callsigns
<1>7. IInv' /\ IInv /\ RowsFinite /\ GoodSource /\ GoodQueues /\ ClaimsHeld
  BY PostMessageKeeps DEF StopInv
<1> HIDE DEF row, m
<1>8. RowsFinite' /\ GoodSource' /\ \A l \in Node : rows[l] \subseteq rows'[l]
  BY <1>4, <1>5, <1>6, <1>7, GoodRowsGrow
<1>9. \A i \in QueueItems(m) : GoodMessageItem(i)
  BY <1>6, QueuedIsGood
<1>10. GoodQueues'
  BY <1>4, <1>7, <1>8, <1>9, GoodQueuesGrow
<1>11. ClaimsHeld'
  BY <1>4, <1>7, <1>8, ClaimsStay
<1> QED BY <1>7, <1>8, <1>10, <1>11 DEF StopInv

\* handleMSG stores and forwards what was first said elsewhere.
LEMMA HandleStop ==
  ASSUME StopInv, IInv', NEW n \in Node, NEW p, p.author # NilName, Normal(p) \in Source,
         HandleMSG(n, MsgFromPB(p))
  PROVE  StopInv'
<1> DEFINE m == MsgFromPB(p)
           row == RowOfFrame(m)
           new == IF m.from = n THEN {} ELSE QueueItems(m)
<1>1. Enc(row) = Normal(p)
  BY RowRoundTrip
<1>2. GoodMessage(Normal(p)) /\ MsgToPB(m) = Normal(p)
  BY DEF StopInv, GoodSource, Normal
<1>3. rows' = [rows EXCEPT ![n] = IF HasRow(n, row.id) THEN @ ELSE @ \cup {row}]
      /\ queue' = [queue EXCEPT ![n] = IF m.from = n THEN @ ELSE @ \cup QueueItems(m)]
      /\ air' = air
  BY DEF HandleMSG
<1>4. HasRow(n, row.id) \in BOOLEAN
  BY DEF HasRow
<1>5. IInv /\ RowsFinite /\ GoodSource /\ GoodQueues /\ ClaimsHeld
  BY DEF StopInv
<1> HIDE DEF row
<1>6. RowsFinite' /\ GoodSource' /\ \A l \in Node : rows[l] \subseteq rows'[l]
  BY <1>1, <1>2, <1>3, <1>4, <1>5, GoodRowsGrow
<1>7. \A i \in new : GoodMessageItem(i)
  BY <1>2, QueuedIsGood
<1>8. queue' = [queue EXCEPT ![n] = @ \cup new]
  BY <1>3
<1> HIDE DEF m, new
<1>9. GoodQueues'
  BY <1>5, <1>6, <1>7, <1>8, GoodQueuesGrow
<1>10. ClaimsHeld'
  BY <1>3, <1>5, <1>6, ClaimsStay
<1> QED BY <1>6, <1>9, <1>10 DEF StopInv

LEMMA HearStop ==
  ASSUME StopInv, NEW n \in Node, HearForeign(n) \/ HearMsg(n) \/ HearFragments(n)
  PROVE  StopInv'
<1>1. IInv /\ IInv'
  BY HearKeeps DEF StopInv
<1>2. CASE HearForeign(n)
  <2>1. PICK p \in Foreign : HandleMSG(n, MsgFromPB(p))
    BY <1>2 DEF HearForeign
  <2>2. Normal(p) \in Source /\ p.author # NilName
    BY FramePathAssumption DEF Source
  <2> QED BY <1>1, <2>1, <2>2, HandleStop
<1>3. ASSUME NEW q \in Source, HandleMSG(n, MsgFromPB(q))
      PROVE  StopInv'
  <2>1. Normal(q) \in Source /\ q.author # NilName
    BY <1>1, SourceIsNormal
  <2> QED BY <1>1, <1>3, <2>1, HandleStop
<1>4. CASE HearMsg(n)
  <2>1. PICK f \in air : f.type = "MSG" /\ HandleMSG(n, MsgFromPB(f.pb))
    BY <1>4 DEF HearMsg
  <2>2. f.pb \in Source
    BY <1>1, <2>1 DEF IInv, AirFromSource, Carries
  <2> QED BY <1>3, <2>1, <2>2
<1>5. CASE HearFragments(n)
  <2>1. PICK f \in air : f.type = "FRAG" /\ HandleMSG(n, MsgFromPB(f.pb.data))
    BY <1>5 DEF HearFragments
  <2>2. f.pb.data \in Source
    BY <1>1, <2>1 DEF IInv, AirFromSource, Carries
  <2> QED BY <1>3, <2>1, <2>2
<1> QED BY <1>2, <1>4, <1>5

\* Only items are added to a queue.
LEMMA QueueStop ==
  ASSUME StopInv, IInv', NEW n \in Node, NEW new,
         \A i \in new : GoodMessageItem(i) \/ GoodVectorItem(n, i),
         queue' = [queue EXCEPT ![n] = @ \cup new], UNCHANGED <<rows, air>>
  PROVE  StopInv'
<1>1. IInv /\ RowsFinite /\ GoodSource /\ GoodQueues /\ ClaimsHeld
  BY DEF StopInv
<1>2. \A m \in Node : rows[m] \subseteq rows'[m]
  OBVIOUS
<1>3. RowsFinite' /\ GoodSource'
  BY <1>1, SameSource DEF RowsFinite, GoodSource
<1>4. \A i \in new : GoodMessageItem(i) \/ GoodVectorItem(n, i)'
  BY DEF GoodVectorItem, NoCommaKnown, Knows, Claims, Numbers
<1>5. GoodQueues'
  BY <1>1, <1>2, <1>4, GoodQueuesGrow
<1>6. ClaimsHeld'
  BY <1>1, <1>2, ClaimsStay
<1> QED BY <1>3, <1>5, <1>6 DEF StopInv

\* A stored message is pushed.
LEMMA PushStop ==
  ASSUME StopInv, NEW n \in Node, PushMessage(n)
  PROVE  StopInv'
<1>1. PICK r \in rows[n] :
        /\ queue' = [queue EXCEPT ![n] = @ \cup QueueItems(MessageRowToFrame(r))]
        /\ UNCHANGED <<rows, air>>
  BY DEF PushMessage
<1>2. GoodMessage(MsgToPB(MessageRowToFrame(r)))
  BY GoodRows DEF StopInv, Enc
<1>3. \A i \in QueueItems(MessageRowToFrame(r)) : GoodMessageItem(i)
  BY <1>2, QueuedIsGood
<1>4. IInv'
  BY PushMessageKeeps DEF StopInv
<1> QED BY <1>1, <1>3, <1>4, QueueStop

\* A state vector: GetVectorClock of the rows, joined, is split again.
LEMMA BroadcastStop ==
  ASSUME StopInv, NEW n \in Node, BroadcastSVEC(n)
  PROVE  StopInv'
<1>1. PICK d \in SVECDicts(n) :
        /\ queue' = [queue EXCEPT ![n] = @ \cup {[type |-> "SVEC", dict |-> d]}]
        /\ UNCHANGED <<rows, air>>
  BY DEF BroadcastSVEC
<1>2. PICK clock : clock = GetVectorClock(n)
  OBVIOUS
<1>3. /\ DOMAIN clock \subseteq Knows(n)
      /\ \A c \in DOMAIN clock : clock[c] = HighestContiguous(Numbers(n, c))
  BY <1>2 DEF GetVectorClock, Knows
<1>4. Cardinality(DOMAIN clock) \in Nat
  <2>1. IsFiniteSet(Knows(n))
    BY KnownFinite DEF Knows, StopInv, RowsFinite
  <2> QED BY <1>3, <2>1, FS_Subset, FS_CardinalityType
<1>5. PICK order \in [1 .. Cardinality(DOMAIN clock) -> DOMAIN clock] :
        d = [from |-> n, vec |-> JoinEntries(clock, order)]
  BY <1>2 DEF SVECDicts
<1>6. Knows(n) \subseteq Callsigns
  BY GoodRows DEF StopInv, Knows
<1>7. Claims(n, clock)
  <2>1. \A c \in DOMAIN clock : 1 .. clock[c] \subseteq Numbers(n, c)
    BY <1>3, NumbersFinite, ContiguousIsThere DEF StopInv
  <2> QED BY <2>1 DEF Claims
<1>8. ASSUME NoCommaKnown(n)
      PROVE  SVECBuildable(d) /\ Claims(n, SVECFromDict(d).vector)
  <2> DEFINE Tokens == UNION {{c[i] : i \in DOMAIN c} : c \in Callsigns}
             Texts == {Itoa(clock[c]) : c \in DOMAIN clock}
             U == Tokens \cup {Comma, Colon} \cup Texts
  <2>1. Joinable(clock, U)
    <3>1. ASSUME NEW c \in Callsigns
          PROVE  c \in Seq(Tokens)
      <4> DEFINE own == {c[i] : i \in DOMAIN c}
      <4>1. own \subseteq Tokens
        OBVIOUS
      <4>2. c \in Seq(own)
        BY FramePathAssumption
      <4> HIDE DEF own, Tokens
      <4> QED BY <4>1, <4>2
    <3>2. \A c \in DOMAIN clock : Itoa(clock[c]) \in Texts
      OBVIOUS
    <3> HIDE DEF Tokens, Texts
    <3>3. \A c \in Callsigns : c \in Seq(U)
      BY <3>1
    <3>4. \A c \in DOMAIN clock : ~CommaName(c)
      BY <1>3, <1>8 DEF NoCommaKnown
    <3> QED BY <1>3, <1>6, <3>2, <3>3, <3>4 DEF Joinable
  <2>2. n # <<>>
    BY FramePathAssumption DEF NoName
  <2> HIDE DEF Tokens, Texts, U
  <2>3. /\ SVECBuildable(d)
        /\ \A c \in DOMAIN SVECFromDict(d).vector :
             c \in DOMAIN clock /\ SVECFromDict(d).vector[c] = clock[c]
    BY <1>4, <1>5, <2>1, <2>2, SVECParses
  <2> QED BY <1>7, <2>3 DEF Claims
<1>9. d.from = n
  BY <1>5
<1>10. GoodVectorItem(n, [type |-> "SVEC", dict |-> d])
  BY <1>8, <1>9 DEF GoodVectorItem
<1>11. IInv'
  BY BroadcastSVECKeeps DEF StopInv
<1>12. PICK new : new = {[type |-> "SVEC", dict |-> d]}
  OBVIOUS
<1>13. queue' = [queue EXCEPT ![n] = @ \cup new] /\ UNCHANGED <<rows, air>>
  BY <1>1, <1>12
<1>14. \A i \in new : GoodMessageItem(i) \/ GoodVectorItem(n, i)
  BY <1>10, <1>12
<1> QED BY <1>11, <1>13, <1>14, QueueStop

\* A transmitted vector claims what the queued one did.
LEMMA TransmitStop ==
  ASSUME StopInv, NEW n \in Node, Transmit(n)
  PROVE  StopInv'
<1>1. PICK i \in queue[n] : /\ queue' = [queue EXCEPT ![n] = @ \ {i}]
                            /\ air' = air \cup {EncodeItem(i)} /\ rows' = rows
  BY DEF Transmit
<1>2. IInv' /\ IInv /\ RowsFinite /\ GoodSource /\ GoodQueues /\ ClaimsHeld
  BY TransmitKeeps DEF StopInv
<1>3. RowsFinite' /\ GoodSource'
  BY <1>1, <1>2, SameSource DEF RowsFinite, GoodSource
<1>4. \A m \in Node : queue'[m] \subseteq queue[m]
  BY <1>1, <1>2 DEF IInv, Tables
<1>5. GoodQueues'
  BY <1>1, <1>2, <1>4
     DEF GoodQueues, GoodVectorItem, NoCommaKnown, Knows, Claims, Numbers
<1>6. ASSUME EncodeItem(i).type = "SVEC"
      PROVE  /\ EncodeItem(i).pb.from = n
             /\ NoCommaKnown(n) => Claims(n, EncodeItem(i).pb.vector)
  <2>1. i.type # "MSG" /\ i.type # "FRAG"
    BY <1>6 DEF EncodeItem, Whole, Piece
  <2>2. GoodVectorItem(n, i)
    BY <1>2, <2>1 DEF GoodQueues, GoodMessageItem
  <2>3. EncodeItem(i).pb = SVECFromDict(i.dict)
    BY <2>1 DEF EncodeItem, Vector
  <2>4. SVECFromDict(i.dict).from = i.dict.from
    BY DEF SVECFromDict
  <2> QED BY <2>2, <2>3, <2>4 DEF GoodVectorItem
<1>7. ClaimsHeld'
  <2> SUFFICES ASSUME NEW f \in air', f.type = "SVEC", NEW m \in Node, f.pb.from = m,
                      NoCommaKnown(m), NEW c \in DOMAIN f.pb.vector
               PROVE  1 .. f.pb.vector[c] \subseteq Numbers(m, c)
    BY <1>1 DEF ClaimsHeld, NoCommaKnown, Knows, Numbers
  <2>1. CASE f \in air
    BY <1>2, <2>1 DEF ClaimsHeld, NoCommaKnown
  <2>2. CASE f = EncodeItem(i)
    BY <1>6, <2>2 DEF Claims
  <2> QED BY <1>1, <2>1, <2>2
<1> QED BY <1>2, <1>3, <1>5, <1>7 DEF StopInv

LEMMA NextStop == StopInv /\ [Next]_vars => StopInv'
<1> SUFFICES ASSUME StopInv, [Next]_vars
             PROVE  StopInv'
  OBVIOUS
<1>1. CASE UNCHANGED vars
  <2>1. IInv'
    BY NextInv DEF StopInv
  <2>2. rows' = rows /\ queue' = queue /\ air' = air /\ IInv
    BY <1>1 DEF vars, StopInv
  <2>3. RowsFinite' /\ GoodSource'
    BY <2>2, SameSource DEF StopInv, RowsFinite, GoodSource
  <2>4. GoodQueues'
    BY <2>2 DEF StopInv, GoodQueues, GoodVectorItem, NoCommaKnown, Knows, Claims, Numbers
  <2>5. ClaimsHeld'
    BY <2>2, ClaimsStay DEF StopInv
  <2> QED BY <2>1, <2>3, <2>4, <2>5 DEF StopInv
<1>2. CASE Next
  BY <1>2, PostStop, HearStop, PushStop, BroadcastStop, TransmitStop DEF Next
<1> QED BY <1>1, <1>2

(* The invariant of both: everything queued is a rebuildable frame of a     *)
(* message or a state vector whose claims hold (SendMessage, handleMSG,     *)
(* broadcastSVEC, FrameFromDict).                                           *)
THEOREM StopInvariant == Spec => []StopInv
BY InitStop, NextStop, PTL DEF Spec

(* transmissionLoop is stopped by nothing a daemon says of itself, whatever *)
(* its clients post: only by a forwarded message of a channel with capitals *)
(* and by a state vector with a comma in a callsign, both foreign.          *)
THEOREM Stops == Spec => []OnlyForeignStops
<1>1. StopInv => OnlyForeignStops
  <2> SUFFICES ASSUME StopInv, NEW n \in Node, NEW i \in queue[n], ~Buildable(i)
               PROVE  \/ i.type = "MSG" /\ FromForeign(i.dict.id.id)
                      \/ i.type = "SVEC" /\ ~NoCommaKnown(n)
    BY DEF OnlyForeignStops, FromForeign, NoCommaKnown
  <2>1. GoodMessageItem(i) \/ GoodVectorItem(n, i)
    BY DEF StopInv, GoodQueues
  <2> QED BY <2>1 DEF GoodMessageItem, GoodVectorItem, Buildable
<1> QED BY <1>1, StopInvariant, PTL

(* A state vector on the air claims only messages its sender stores         *)
(* (GetVectorClock, buildSVEC, SVECFromDict), whatever colons the callsigns *)
(* contain, as long as the sender knows none with a comma.                  *)
THEOREM TrueClaims == Spec => []ClaimsHeld
<1>1. StopInv => ClaimsHeld
  BY DEF StopInv
<1> QED BY <1>1, StopInvariant, PTL
=============================================================================
