------------------------------ MODULE FramePath ------------------------------
(* What becomes of a message's content on its way: the request, the row,    *)
(* the frame (protocol.MSG), the JSON dictionary of the transmission queue, *)
(* the protobuf message on the air, and back.  A daemon puts one message on *)
(* the air in three ways (posted, forwarded, pushed from the store), whole  *)
(* or in pieces, and receivers put together pieces of any of them.          *)
(*                                                                          *)
(* Who speaks when is module RfmpSync; here everything stored may be pushed *)
(* and everything said may be heard at any time, again and again.  Strings  *)
(* that are only carried are values; those that are parsed are records of   *)
(* what is written in them.  Callsigns are sequences of tokens, because     *)
(* SVEC joins them in one string.  A time is <<second, fraction>>.          *)
EXTENDS Integers, Sequences, FiniteSets, FiniteSetsExt

CONSTANTS
  Node,       \* the daemons, by their full callsign (a sequence of tokens)
  Authors,    \* Authors[n]: author names used by the clients of node n
  Time,       \* when clients post
  Channel,    \* channels clients may name
  Capital,    \* channels that isValidChannel refuses
  Body,       \* Body[b]: size of body b
  ReplyText,  \* what clients write in reply_to
  Foreign,    \* messages of other implementations, as they are on the air
  Threshold,  \* Fragmenter.Threshold, in units of Body
  Overhead,   \* fragOverhead, in the same units
  MaxFragments, \* 255 in the code
  MaxPosts,   \* bound on the messages posted, over all nodes
  MaxForeign, \* bound on the foreign messages heard
  MaxVectors  \* bound on the state vectors sent

NilText == [form |-> "nil", id |-> <<>>]   \* a nil *string
NoText  == [form |-> "", id |-> <<>>]
NilName == << <<>> >>                      \* a nil author, or NULL
NoName  == <<>>
NoId    == <<>>                            \* a nil *[6]byte

IsHex(s) == s.form \in {"lower", "upper"}   \* IDFromHex, no error

Senders(n) == {n} \cup {a \in Authors[n] : a \notin {NilName, NoName}}

Callsigns == Node \cup {p.from : p \in Foreign}

\* Ids do not collide: author names are not shared, other programs' ids differ.
ASSUME FramePathAssumption ==
  /\ \A c \in Callsigns : c \in Seq({c[i] : i \in DOMAIN c})
  /\ Threshold \in Nat /\ Overhead \in Nat /\ MaxFragments \in Nat /\ MaxPosts \in Nat
  /\ MaxForeign \in Nat /\ MaxVectors \in Nat
  /\ Channel \cap Capital = {}
  /\ NilName \notin Node /\ NoName \notin Node
  /\ \A m, n \in Node : m # n => Senders(m) \cap Senders(n) = {}
  /\ \A p \in Foreign : \A n \in Node : p.id[1] \notin Senders(n)
  /\ \A p, q \in Foreign : p.id = q.id => p = q
  /\ \A p \in Foreign : p.seq \in Nat /\ p.author # NilName
  /\ \A s \in ReplyText : IsHex(s) => Len(s.id) = 3

VARIABLES
  rows,   \* rows[n]: table messages of node n
  queue,  \* queue[n]: transmission_queue of n, what is left to send
  air     \* frames the daemons have transmitted

vars == <<rows, queue, air>>

Init ==
  /\ rows  = [n \in Node |-> {}]
  /\ queue = [n \in Node |-> {}]
  /\ air = {}

-----------------------------------------------------------------------------
(* message.go.  Six bytes are a triple, any other byte string is not.       *)
GenerateMessageID(sender, epoch, body) == <<sender, epoch, body>>
IDToHex(id) == [form |-> "lower", id |-> id]
IDFromHex(s) == s.id
ToEpoch(t) == t[1]
FromEpoch(e) == <<e, 0>>
FormatTimestamp(t) == [utc |-> t[1]]
ParseTimestamp(s) == <<s.utc, 0>>
Itoa(n) == <<"dec", n>>
Atoi(s) == s[2]
NoKey == <<>>

IsValidChannel(ch) == ch \notin Capital

\* frames.go: the JSON dictionary of a MSG and back.
ToDict(m) ==
  [id |-> IDToHex(m.id), from |-> m.from, time |-> FormatTimestamp(m.time),
   chan |-> m.chan, body |-> m.body, author |-> m.author,
   reply |-> IF m.reply = NoId THEN NoText ELSE IDToHex(m.reply),
   seq |-> IF m.seq = 0 THEN NoKey ELSE Itoa(m.seq)]

MSGBuildable(d) ==
  /\ IsHex(d.id) /\ IsValidChannel(d.chan)
  /\ IsHex(d.reply) \/ d.reply.form \in {"", "-"}
  /\ d.seq = NoKey \/ Atoi(d.seq) >= 1

MSGFromDict(d) ==
  [id |-> IDFromHex(d.id), from |-> d.from, time |-> ParseTimestamp(d.time),
   chan |-> d.chan, body |-> d.body, author |-> d.author,
   reply |-> IF IsHex(d.reply) THEN IDFromHex(d.reply) ELSE NoId,
   seq |-> IF d.seq = NoKey THEN 0 ELSE Atoi(d.seq)]

\* parser.go: the protobuf message of a MSG and back.
MsgToPB(m) ==
  [id |-> m.id, from |-> m.from, ts |-> ToEpoch(m.time), chan |-> m.chan,
   reply |-> m.reply, body |-> m.body, seq |-> m.seq, author |-> m.author]

\* Mutant: the author, a later field of the protocol, is forgotten.
MsgFromPBNoAuthor(p) ==
  [id |-> p.id, from |-> p.from, time |-> FromEpoch(p.ts), chan |-> p.chan,
   reply |-> IF Len(p.reply) = 3 THEN p.reply ELSE NoId,
   body |-> p.body, seq |-> p.seq, author |-> NoName]

MsgFromPB(p) ==
  [id |-> p.id, from |-> p.from, time |-> FromEpoch(p.ts), chan |-> p.chan,
   reply |-> IF Len(p.reply) = 3 THEN p.reply ELSE NoId,
   body |-> p.body, seq |-> p.seq, author |-> p.author]

-----------------------------------------------------------------------------
(* The rows.  SendMessage stores what the client wrote and sends what it    *)
(* means; handleMSG stores what it heard; messageRowToFrame sends a row.    *)
AuthorStr(a) == IF a = NilName THEN NoName ELSE a
ReplyId(s) == IF IsHex(s) THEN IDFromHex(s) ELSE NoId

RowOfRequest(n, req, seq) ==
  LET sender == IF req.author \in {NilName, NoName} THEN n ELSE req.author
      id == GenerateMessageID(sender, ToEpoch(req.now), req.body)
  IN [id |-> IDToHex(id), from |-> n, time |-> FormatTimestamp(req.now),
      chan |-> req.chan, reply |-> req.reply, body |-> req.body,
      author |-> req.author, seq |-> seq]

FrameOfRequest(n, req, seq) ==
  LET row == RowOfRequest(n, req, seq)
  IN [id |-> IDFromHex(row.id), from |-> n, time |-> req.now, chan |-> req.chan,
      reply |-> ReplyId(req.reply), body |-> req.body,
      author |-> AuthorStr(req.author), seq |-> seq]

RowOfFrame(m) ==
  [id |-> IDToHex(m.id), from |-> m.from, time |-> FormatTimestamp(m.time),
   chan |-> m.chan, reply |-> IF m.reply = NoId THEN NilText ELSE IDToHex(m.reply),
   body |-> m.body, author |-> IF m.author = NoName THEN NilName ELSE m.author,
   seq |-> m.seq]

\* Mutant: an upper-case reply_to is not parsed.
MessageRowToFrameLower(r) ==
  [id |-> IDFromHex(r.id), from |-> r.from, time |-> ParseTimestamp(r.time),
   chan |-> r.chan, reply |-> IF r.reply.form = "lower" THEN r.reply.id ELSE NoId,
   body |-> r.body, author |-> AuthorStr(r.author), seq |-> r.seq]

MessageRowToFrame(r) ==
  [id |-> IDFromHex(r.id), from |-> r.from, time |-> ParseTimestamp(r.time),
   chan |-> r.chan, reply |-> ReplyId(r.reply), body |-> r.body,
   author |-> AuthorStr(r.author), seq |-> r.seq]

-----------------------------------------------------------------------------
(* fragmentation.go, as far as the bytes go: piece i of the encoded message.*)
(* The size depends on the optional fields that are there.                  *)
Size(p) == Body[p.body] + (IF p.reply = NoId THEN 0 ELSE 1)
                        + (IF p.author = NoName THEN 0 ELSE 1)
FragmentSize == IF Threshold > Overhead THEN Threshold - Overhead ELSE 1
Total(p) == (Size(p) + FragmentSize - 1) \div FragmentSize

FragmentMessage(m) ==
  LET p == MsgToPB(m)
  IN {[id |-> m.id, idx |-> i, total |-> Total(p), data |-> p] : i \in 0..(Total(p) - 1)}

Whole(p)  == [type |-> "MSG", pb |-> p]
Piece(f)  == [type |-> "FRAG", pb |-> f]
Vector(s) == [type |-> "SVEC", pb |-> s]

FragToDict(f) == [msgid |-> IDToHex(f.id), idx |-> Itoa(f.idx),
                  total |-> Itoa(f.total), data |-> [hex |-> f.data]]

\* What SendMessage, handleMSG and handleSVEC put into the queue for a frame.
QueueItems(m) ==
  IF Size(MsgToPB(m)) <= Threshold
  THEN {[type |-> "MSG", dict |-> ToDict(m)]}
  ELSE {[type |-> "FRAG", dict |-> FragToDict(f)] : f \in FragmentMessage(m)}

FRAGBuildable(d) == IsHex(d.msgid) /\ Atoi(d.idx) \in 0..(Atoi(d.total) - 1)

FRAGFromDict(d) == [id |-> IDFromHex(d.msgid), idx |-> Atoi(d.idx),
                    total |-> Atoi(d.total), data |-> d.data.hex]

\* fragFromPB, at the receiver.
FragAccepted(f) == f.total \in 1..MaxFragments /\ f.idx \in 0..(f.total - 1)

-----------------------------------------------------------------------------
(* SVEC: "name:number" entries joined by commas and taken apart again.      *)
Colon == <<":">>
Comma == <<",">>

Numbers(n, c) == {r.seq : r \in {r \in rows[n] : r.from = c}} \ {0}
\* Mutant: the number asked for next.
NextAwaited(s) == Max({k \in 1..(Cardinality(s) + 1) : 1..(k - 1) \subseteq s})
HighestContiguous(s) == Max({k \in 0..Cardinality(s) : 1..k \subseteq s})
GetVectorClock(n) ==
  LET known == {c \in {r.from : r \in rows[n]} : 1 \in Numbers(n, c)}
  IN [c \in known |-> HighestContiguous(Numbers(n, c))]

JoinEntries(clock, order) ==
  LET text[k \in 0..Len(order)] ==
        IF k = 0 THEN <<>>
        ELSE (IF k = 1 THEN <<>> ELSE Append(text[k-1], Comma))
               \o order[k] \o <<Colon, Itoa(clock[order[k]])>>
  IN text[Len(order)]

\* Any order of the names (the code sorts them).
SVECDicts(n) ==
  LET clock == GetVectorClock(n)
      k == Cardinality(DOMAIN clock)
      orders == {o \in [1..k -> DOMAIN clock] : \A i, j \in 1..k : o[i] = o[j] => i = j}
  IN {[from |-> n, vec |-> JoinEntries(clock, o)] : o \in orders}

\* The entries with a colon, by where they begin.
Places(v, t) == {i \in 1..Len(v) : v[i] = t}
Entry(v, a) == SubSeq(v, a + 1, Min({b \in Places(v, Comma) \cup {Len(v) + 1} : b > a}) - 1)
Entries(v) == {a \in {0} \cup Places(v, Comma) : Places(Entry(v, a), Colon) # {}}

\* Mutant: as if callsigns had no colon.
FirstColon(e) == Min(Places(e, Colon))

LastColon(e) == Max(Places(e, Colon))
Callsign(e) == SubSeq(e, 1, LastColon(e) - 1)
SeqStr(e) == SubSeq(e, LastColon(e) + 1, Len(e))
IsNumber(s) == Len(s) = 1 /\ Len(s[1]) = 2

SVECBuildable(d) ==
  /\ d.from # <<>>
  /\ \A a \in Entries(d.vec) : IsNumber(SeqStr(Entry(d.vec, a)))

\* A later entry for the same name replaces an earlier one.
SVECFromDict(d) ==
  LET names == {Callsign(Entry(d.vec, a)) : a \in Entries(d.vec)}
      last(c) == Max({a \in Entries(d.vec) : Callsign(Entry(d.vec, a)) = c})
  IN [from |-> d.from, vector |-> [c \in names |-> Atoi(SeqStr(Entry(d.vec, last(c)))[1])]]

-----------------------------------------------------------------------------
Request == [chan : Channel, body : DOMAIN Body, reply : ReplyText, now : Time]
Own(n) == {r \in rows[n] : r.from = n}
NextSeq(n) == Max({r.seq : r \in Own(n)} \cup {0}) + 1
HasRow(n, id) == \E r \in rows[n] : r.id = id

\* SendMessage; an id that is there already makes the INSERT fail.
PostMessage(n) == \E req \in Request, a \in Authors[n] :
  LET full == [chan |-> req.chan, body |-> req.body, reply |-> req.reply,
               now |-> req.now, author |-> a]
      row == RowOfRequest(n, full, NextSeq(n))
  IN /\ Cardinality(UNION {Own(m) : m \in Node}) < MaxPosts
     /\ ~HasRow(n, row.id)
     /\ rows' = [rows EXCEPT ![n] = @ \cup {row}]
     /\ queue' = [queue EXCEPT ![n] = @ \cup QueueItems(FrameOfRequest(n, full, NextSeq(n)))]
     /\ UNCHANGED air

\* handleMSG of a frame not seen lately: INSERT OR IGNORE, then forward it.
HandleMSG(n, m) ==
  LET row == RowOfFrame(m)
  IN /\ rows' = [rows EXCEPT ![n] = IF HasRow(n, row.id) THEN @ ELSE @ \cup {row}]
     /\ queue' = [queue EXCEPT ![n] = IF m.from = n THEN @ ELSE @ \cup QueueItems(m)]
     /\ UNCHANGED air

Heard == {p \in Foreign : \E n \in Node : HasRow(n, IDToHex(p.id))}
HearForeign(n) == \E p \in Foreign :
  /\ Cardinality(Heard \cup {p}) <= MaxForeign
  /\ HandleMSG(n, MsgFromPB(p))

HearMsg(n) == \E f \in air : f.type = "MSG" /\ HandleMSG(n, MsgFromPB(f.pb))

\* Pieces of several encodings of a message do not decode.
HearFragments(n) == \E f \in air :
  /\ f.type = "FRAG" /\ FragAccepted(f.pb)
  /\ \A i \in 0..(f.pb.total - 1) : Piece([f.pb EXCEPT !.idx = i]) \in air
  /\ HandleMSG(n, MsgFromPB(f.pb.data))

\* handleSVEC: a stored message with a number is queued again.
PushMessage(n) == \E r \in rows[n] :
  /\ r.seq > 0
  /\ queue' = [queue EXCEPT ![n] = @ \cup QueueItems(MessageRowToFrame(r))]
  /\ UNCHANGED <<rows, air>>

Vectors == {f \in air : f.type = "SVEC"}
          \cup UNION {{i \in queue[n] : i.type = "SVEC"} : n \in Node}
BroadcastSVEC(n) == \E d \in SVECDicts(n) :
  /\ Cardinality(Vectors) < MaxVectors
  /\ queue' = [queue EXCEPT ![n] = @ \cup {[type |-> "SVEC", dict |-> d]}]
  /\ UNCHANGED <<rows, air>>

Buildable(i) ==
  /\ i.type = "MSG"  => MSGBuildable(i.dict)
  /\ i.type = "FRAG" => FRAGBuildable(i.dict)
  /\ i.type = "SVEC" => SVECBuildable(i.dict)

\* Encode of the rebuilt frame.
EncodeItem(i) ==
  IF i.type = "MSG" THEN Whole(MsgToPB(MSGFromDict(i.dict)))
  ELSE IF i.type = "FRAG" THEN Piece(FRAGFromDict(i.dict))
  ELSE Vector(SVECFromDict(i.dict))

\* transmissionLoop; a row that cannot be rebuilt stops it (TransmissionQueue).
Transmit(n) == \E i \in queue[n] :
  /\ Buildable(i)
  /\ queue' = [queue EXCEPT ![n] = @ \ {i}]
  /\ air' = air \cup {EncodeItem(i)}
  /\ UNCHANGED rows

Next == \E n \in Node :
  \/ PostMessage(n) \/ HearForeign(n) \/ HearMsg(n) \/ HearFragments(n)
  \/ PushMessage(n) \/ BroadcastSVEC(n) \/ Transmit(n)

Spec == Init /\ [][Next]_vars

-----------------------------------------------------------------------------
Meaning(r) == [r EXCEPT !.reply = ReplyId(@), !.author = AuthorStr(@)]
CommaName(c) == \E i \in 1..Len(c) : c[i] = Comma
Knows(n) == {r.from : r \in rows[n]}

(* Posted, forwarded by any node or pushed from any store: the encoded      *)
(* message is the same, so pieces sent by different nodes fit together      *)
(* (FragmentMessage, ToDict, msgToPB, messageRowToFrame).                   *)
OneEncoding == \A f, g \in {f \in air : f.type # "SVEC"} :
  LET id(x) == x.pb.id
      encoded(x) == IF x.type = "MSG" THEN x.pb ELSE x.pb.data
  IN id(f) = id(g) => /\ encoded(f) = encoded(g)
                      /\ f.type = g.type
                      /\ f.type = "FRAG" => f.pb.total = g.pb.total

(* All nodes store the same message under an id, whichever way it came;     *)
(* only the wording of reply_to and an empty author may differ.  A node has *)
(* it once, also when it hears the message it wrote in other words.         *)
RowsAgree == \A m, n \in Node : \A r \in rows[m], s \in rows[n] :
  r.id = s.id => Meaning(r) = Meaning(s) /\ (m = n => r = s)

(* transmissionLoop can rebuild every queued frame, but for two kinds only  *)
(* other implementations cause: a forwarded message of a channel with       *)
(* capitals, and a state vector once a callsign with a comma is known.      *)
OnlyForeignStops == \A n \in Node : \A i \in queue[n] : ~Buildable(i) =>
  \/ i.type = "MSG" /\ \E p \in Foreign : p.id = i.dict.id.id /\ p.chan \in Capital
  \/ i.type = "SVEC" /\ \E c \in Knows(n) : CommaName(c)

(* A state vector on the air claims only messages its sender stores, as     *)
(* long as no callsign with a comma is known to it: joining and splitting   *)
(* the entries neither loses nor invents one.                               *)
ClaimsHeld == \A f \in {f \in air : f.type = "SVEC"} : \A n \in Node :
  f.pb.from = n /\ (\A c \in Knows(n) : ~CommaName(c)) =>
    \A c \in DOMAIN f.pb.vector : 1..f.pb.vector[c] \subseteq Numbers(n, c)
=============================================================================
