----------------------------- MODULE MessageStore -----------------------------
(* The tables messages, channels, nodes and users of one daemon, and those  *)
(* who change them: the receive goroutine, which saves what it hears, and   *)
(* the HTTP handlers, which post messages and create and delete channels.   *)
(*                                                                          *)
(* sql.DB has one connection, so a statement is one step; a save is several *)
(* statements under Database.mu, each committed by itself.  DeleteChannel,  *)
(* CreateChannel and the statistics of users and syncs do not take mu.      *)
(* Times and texts are left out.                                            *)
EXTENDS Integers, FiniteSets, FiniteSetsExt

CONSTANTS
  Handler,     \* HTTP requests served at the same time
  rx,          \* the receive goroutine
  Self,        \* this node
  Post,        \* ids of messages posted here: two posts with one author,
               \* second and body have one id
  Foreign,     \* ids of messages of other nodes
  From,        \* the node of each message
  ChannelOf,   \* the channel of each message
  Author,      \* the user of each post, or NoUser
  NoUser,
  Name,        \* what is used as the name of a channel
  Lower,       \* strings.ToLower(strings.TrimSpace(name))
  Valid,       \* the names that match channelRegex
  MaxSyncs,    \* bound on the SVECs heard from each node
  MaxFaults    \* bound on crashes and failed statements

Message == Post \cup Foreign
Node    == {From[m] : m \in Message}
User    == {Author[m] : m \in Post} \ {NoUser}
Proc    == Handler \cup {rx}
Free    == "free"

ASSUME StoreAssumption ==
  /\ rx \notin Handler /\ Free \notin Proc
  /\ IsFiniteSet(Post) /\ IsFiniteSet(Foreign) /\ Post \cap Foreign = {}
  /\ \A m \in Message : (m \in Post) <=> (From[m] = Self)
  /\ ChannelOf \in [Message -> Name]
  /\ Lower \in [Name -> Name] /\ Valid \subseteq Name
  /\ MaxSyncs \in Nat /\ MaxFaults \in Nat

VARIABLES
  messages,    \* messages: the number (seq) of each stored message, 0: none
  channels,    \* channels: message_count and unique_nodes of each row
  nodes,       \* nodes: message_count and sync_count of each node
  users,       \* users: message_count of each user
  mu,          \* Database.mu: Free or the goroutine that holds it
  pc,          \* what each goroutine is about to do, and for what
  reply,       \* the answer to the last post or delete of each client
  faults,      \* history: crashes and failed statements so far
  disturbed    \* history: channels whose statistics a crash, a failed
               \* statement or a delete at the wrong time has left behind

vars == <<messages, channels, nodes, users, mu, pc, reply, faults, disturbed>>
tables == <<messages, channels, nodes, users, faults, disturbed>>

Idle    == [at |-> "idle"]
NoReply == [status |-> 0]
At(step, m)         == [at |-> step, msg |-> m]
Numbered(m, number) == [at |-> "insert", msg |-> m, seq |-> number]
Deleting(ch)        == [at |-> "delete", channel |-> ch]
Answer(op, arg, status) == [op |-> op, arg |-> arg, status |-> status]
Failure == [op |-> "failed", status |-> 500]     \* what a failed statement gives

Steps == {"wait", "insert", "channel", "unique", "node", "user"}

TypeOK ==
  /\ \E S \in SUBSET Message : messages \in [S -> 0 .. Cardinality(Post)]
  /\ \E C \in SUBSET Name :
       channels \in [C -> [count : 0 .. Cardinality(Message), nodes : 0 .. Cardinality(Node)]]
  /\ nodes \in [Node -> [count : 0 .. Cardinality(Message), syncs : 0 .. MaxSyncs]]
  /\ users \in [User -> 0 .. Cardinality(Post)]
  /\ mu \in Proc \cup {Free}
  /\ \A p \in Proc : \/ pc[p] = Idle
                     \/ \E ch \in Name : pc[p] = Deleting(ch)
                     \/ \E m \in Message : \/ \E s \in Steps : pc[p] = At(s, m)
                                           \/ \E k \in 1 .. Cardinality(Post) + 1 : pc[p] = Numbered(m, k)
  /\ \A h \in Handler : \/ reply[h] = NoReply
                        \/ reply[h].op \in {"post", "delete", "failed"}
                           /\ reply[h].status \in {200, 201, 404, 409, 422, 500}
  /\ faults \in 0 .. MaxFaults /\ disturbed \subseteq Name

Init ==
  /\ messages = [m \in {} |-> 0]
  /\ channels = [ch \in {} |-> [count |-> 0, nodes |-> 0]]
  /\ nodes = [n \in Node |-> [count |-> 0, syncs |-> 0]]
  /\ users = [u \in User |-> 0]
  /\ mu = Free /\ faults = 0
  /\ pc = [p \in Proc |-> Idle]
  /\ reply = [h \in Handler |-> NoReply]
  /\ disturbed = {}

-----------------------------------------------------------------------------
(* What the queries return.                                                 *)

Stored(ch)  == {m \in DOMAIN messages : ChannelOf[m] = ch}
Writers(ch) == {From[m] : m \in Stored(ch)}

\* A node without a row and one with zeros differ only in GET /nodes.
GetActiveNodes == {n \in Node : nodes[n].count + nodes[n].syncs > 0}

GetChannels ==
  {[name |-> ch, count |-> channels[ch].count, nodes |-> channels[ch].nodes] :
     ch \in DOMAIN channels}

\* GetStats, what GET /status counts.
GetStats == [message_count |-> Cardinality(DOMAIN messages),
             active_nodes |-> Cardinality(GetActiveNodes)]

GetMessage(m) == IF m \in DOMAIN messages THEN 200 ELSE 404

MaxSeq == LET seqs == {messages[m] : m \in DOMAIN messages \cap Post} IN
          CHOOSE k \in seqs \cup {0} : \A j \in seqs : j <= k

-----------------------------------------------------------------------------
(* Saving a message.                                                        *)

Goes(p, step) == pc' = [pc EXCEPT ![p] = step]
Put(f, k, v)  == [x \in DOMAIN f \cup {k} |-> IF x = k THEN v ELSE f[x]]

Finish(h, answer) ==
  /\ Goes(h, Idle)
  /\ reply' = [reply EXCEPT ![h] = answer]

\* postMessage up to SendMessage: a channel that is not a name is refused.
PostMessage(h, m) ==
  /\ pc[h] = Idle
  /\ IF ChannelOf[m] \in Valid
     THEN Goes(h, At("wait", m)) /\ reply' = [reply EXCEPT ![h] = NoReply]
     ELSE Finish(h, Answer("post", m, 422))
  /\ UNCHANGED <<tables, mu>>

\* handleMSG hands a message to SaveMessage: new, repeated, or our own.
HearMessage(m) ==
  /\ pc[rx] = Idle
  /\ m \in Foreign \cup DOMAIN messages
  /\ Goes(rx, At("wait", m))
  /\ UNCHANGED <<tables, mu, reply>>

\* Mutant: SaveMessageWithSeq reads the number before it takes the lock.
ReadNumberUnlocked(h) ==
  /\ pc[h].at = "wait"
  /\ Goes(h, Numbered(pc[h].msg, MaxSeq + 1))
  /\ UNCHANGED <<tables, mu, reply>>

\* SaveMessageWithSeq: lock, and the next number of this node.
ReadNumber(h) ==
  /\ pc[h].at = "wait"
  /\ mu = Free
  /\ mu' = h
  /\ Goes(h, Numbered(pc[h].msg, MaxSeq + 1))
  /\ UNCHANGED <<tables, reply>>

\* The primary key and the unique index on (from_node, seq).
Clash(m, k) == \/ m \in DOMAIN messages
               \/ \E x \in DOMAIN messages : From[x] = From[m] /\ messages[x] = k

\* Mutant: the error path leaves the lock.
InsertOwnKeepsLock(h) ==
  LET m == pc[h].msg  k == pc[h].seq IN
  /\ pc[h].at = "insert"
  /\ IF Clash(m, k)
     THEN Finish(h, Answer("post", m, 500)) /\ UNCHANGED <<messages, mu>>
     ELSE /\ messages' = Put(messages, m, k)
          /\ Goes(h, At("channel", m))
          /\ UNCHANGED <<mu, reply>>
  /\ UNCHANGED <<channels, nodes, users, faults, disturbed>>

\* SaveMessageWithSeq: INSERT, whose error ends the request.
InsertOwn(h) ==
  LET m == pc[h].msg  k == pc[h].seq IN
  /\ pc[h].at = "insert"
  /\ IF Clash(m, k)
     THEN /\ Finish(h, Answer("post", m, 500))
          /\ mu' = Free
          /\ UNCHANGED messages
     ELSE /\ messages' = Put(messages, m, k)
          /\ Goes(h, At("channel", m))
          /\ UNCHANGED <<mu, reply>>
  /\ UNCHANGED <<channels, nodes, users, faults, disturbed>>

\* Mutant: the number of rows affected is not looked at.
InsertHeardAgain ==
  LET m == pc[rx].msg IN
  /\ pc[rx].at = "wait" /\ mu = Free
  /\ mu' = rx
  /\ messages' = IF m \in DOMAIN messages THEN messages ELSE Put(messages, m, 0)
  /\ Goes(rx, At("channel", m))
  /\ UNCHANGED <<channels, nodes, users, faults, disturbed, reply>>

\* SaveMessage: lock, INSERT OR IGNORE; a row that is there ends it.
InsertHeard ==
  LET m == pc[rx].msg IN
  /\ pc[rx].at = "wait" /\ mu = Free
  /\ IF m \in DOMAIN messages
     THEN Goes(rx, Idle) /\ UNCHANGED <<messages, mu>>
     ELSE /\ messages' = Put(messages, m, 0)
          /\ mu' = rx
          /\ Goes(rx, At("channel", m))
  /\ UNCHANGED <<channels, nodes, users, faults, disturbed, reply>>

\* updateChannelStats: the upsert and the count of distinct nodes.
CountMessage(p) ==
  LET ch == ChannelOf[pc[p].msg] IN
  /\ pc[p].at = "channel"
  /\ channels' = Put(channels, ch, IF ch \in DOMAIN channels
                                   THEN [channels[ch] EXCEPT !.count = @ + 1]
                                   ELSE [count |-> 1, nodes |-> 1])
  /\ Goes(p, At("unique", pc[p].msg))
  /\ UNCHANGED <<messages, nodes, users, faults, disturbed, mu, reply>>

CountWriters(p) ==
  LET ch == ChannelOf[pc[p].msg] IN
  /\ pc[p].at = "unique"
  /\ channels' = IF ch \in DOMAIN channels
                 THEN [channels EXCEPT ![ch].nodes = Cardinality(Writers(ch))]
                 ELSE channels
  /\ Goes(p, At("node", pc[p].msg))
  /\ UNCHANGED <<messages, nodes, users, faults, disturbed, mu, reply>>

\* updateNodeStats "message", and the end of the save.
AfterSave(p, m) == IF p = rx THEN Idle ELSE At("user", m)

CountForNode(p) ==
  LET m == pc[p].msg IN
  /\ pc[p].at = "node"
  /\ nodes' = [nodes EXCEPT ![From[m]].count = @ + 1]
  /\ mu' = Free
  /\ Goes(p, AfterSave(p, m))
  /\ UNCHANGED <<messages, channels, users, faults, disturbed, reply>>

\* The errors of the statistics are logged and the save goes on.
StatisticsFail(p) ==
  LET m == pc[p].msg IN
  /\ faults < MaxFaults
  /\ faults' = faults + 1
  /\ \/ pc[p].at = "channel" /\ Goes(p, At("unique", m)) /\ UNCHANGED mu
     \/ pc[p].at = "unique" /\ Goes(p, At("node", m)) /\ UNCHANGED mu
     \/ pc[p].at = "node" /\ Goes(p, AfterSave(p, m)) /\ mu' = Free
  /\ disturbed' = disturbed \cup {ChannelOf[m]}
  /\ UNCHANGED <<messages, channels, nodes, users, reply>>

\* The rest of SendMessage: UpdateUserStats, which may fail, and the answer.
CountForUser(h) ==
  LET m == pc[h].msg IN
  /\ pc[h].at = "user"
  /\ \/ /\ users' = IF Author[m] = NoUser THEN users ELSE [users EXCEPT ![Author[m]] = @ + 1]
        /\ UNCHANGED faults
     \/ /\ faults < MaxFaults /\ faults' = faults + 1
        /\ UNCHANGED users
  /\ Finish(h, Answer("post", m, 201))
  /\ UNCHANGED <<messages, channels, nodes, disturbed, mu>>

\* handleSVEC: UpdateNodeSync, not under mu.
UpdateNodeSync(n) ==
  /\ pc[rx] = Idle
  /\ nodes[n].syncs < MaxSyncs
  /\ nodes' = [nodes EXCEPT ![n].syncs = @ + 1]
  /\ UNCHANGED <<messages, channels, users, faults, disturbed, mu, pc, reply>>

-----------------------------------------------------------------------------
(* Channels.                                                                *)

\* Database.CreateChannel: INSERT OR IGNORE of an empty channel.
InsertChannel(ch) ==
  channels' = IF ch \in DOMAIN channels THEN channels
              ELSE Put(channels, ch, [count |-> 0, nodes |-> 0])

(* createChannel: the name is lowered and checked.  Its answer, 201 or 422, *)
(* promises nothing that lasts.                                             *)
CreateChannel(h, name) ==
  LET ch == Lower[name] IN
  /\ pc[h] = Idle
  /\ IF ch \in Valid THEN InsertChannel(ch) ELSE UNCHANGED channels
  /\ UNCHANGED <<messages, nodes, users, faults, disturbed, mu, pc, reply>>

\* handleChannelByName: the answer to DELETE.
DeleteAnswer(ch, err) ==
  Answer("delete", ch, IF err = "channel has messages" THEN 409
                       ELSE IF err = "channel not found" THEN 404 ELSE 200)

\* DeleteChannel: the count, of the name as it was sent.
CountForDelete(h, ch) ==
  /\ pc[h] = Idle
  /\ IF Stored(ch) # {}
     THEN Finish(h, DeleteAnswer(ch, "channel has messages"))
     ELSE Goes(h, Deleting(ch)) /\ reply' = [reply EXCEPT ![h] = NoReply]
  /\ UNCHANGED <<tables, mu>>

\* Mutant: the messages of the channel go with its row.
DeleteRowWithMessages(h) ==
  LET ch == pc[h].channel IN
  /\ pc[h].at = "delete"
  /\ channels' = [c \in DOMAIN channels \ {ch} |-> channels[c]]
  /\ messages' = [m \in DOMAIN messages \ Stored(ch) |-> messages[m]]
  /\ Finish(h, NoReply)
  /\ UNCHANGED <<nodes, users, faults, disturbed, mu>>

\* DeleteChannel: DELETE, and what it returns by the rows affected.
DeleteRow(h) ==
  LET ch == pc[h].channel IN
  /\ pc[h].at = "delete"
  /\ IF ch \in DOMAIN channels
     THEN /\ channels' = [c \in DOMAIN channels \ {ch} |-> channels[c]]
          /\ disturbed' = IF Stored(ch) = {} THEN disturbed ELSE disturbed \cup {ch}
          /\ Finish(h, DeleteAnswer(ch, "nil"))
     ELSE /\ Finish(h, DeleteAnswer(ch, "channel not found"))
          /\ UNCHANGED <<channels, disturbed>>
  /\ UNCHANGED <<messages, nodes, users, faults, mu>>

(* Any other statement that fails ends what it belongs to: SELECT MAX(seq)  *)
(* or INSERT a save, COUNT or DELETE a DeleteChannel, INSERT a              *)
(* CreateChannel or an UpdateNodeSync.  A client is told 500, and no row is *)
(* written.                                                                 *)
StatementFails(p) ==
  /\ faults < MaxFaults
  /\ faults' = faults + 1
  /\ \/ pc[p].at \in {"idle", "delete"} /\ UNCHANGED mu
     \/ pc[p].at = "wait" /\ mu = Free /\ UNCHANGED mu
     \/ pc[p].at = "insert" /\ mu' = Free
  /\ Goes(p, Idle)
  /\ reply' = IF p = rx THEN reply ELSE [reply EXCEPT ![p] = Failure]
  /\ UNCHANGED <<messages, channels, nodes, users, disturbed>>

(* The daemon stops between any two statements and starts again; clients    *)
(* keep the answers they have got.                                          *)
Counting(p) == pc[p].at \in {"channel", "unique"}
Crash ==
  /\ faults < MaxFaults
  /\ faults' = faults + 1
  /\ pc' = [p \in Proc |-> Idle]
  /\ mu' = Free
  /\ disturbed' = disturbed \cup {ChannelOf[pc[p].msg] : p \in {q \in Proc : Counting(q)}}
  /\ UNCHANGED <<messages, channels, nodes, users, reply>>

Save(p) == CountMessage(p) \/ CountWriters(p) \/ CountForNode(p)
Serve(h) == InsertOwn(h) \/ CountForUser(h) \/ DeleteRow(h)

Next ==
  \/ \E h \in Handler :
       \/ \E m \in Post : PostMessage(h, m)
       \/ \E name \in Name : CreateChannel(h, name) \/ CountForDelete(h, name)
       \/ ReadNumber(h) \/ Serve(h)
  \/ \E m \in Message : HearMessage(m)
  \/ InsertHeard
  \/ \E n \in Node \ {Self} : UpdateNodeSync(n)
  \/ \E p \in Proc : Save(p) \/ StatisticsFail(p) \/ StatementFails(p)
  \/ Crash

Spec == Init /\ [][Next]_vars

\* Whoever holds mu is a goroutine that runs, and its statements end.
Fairness == \A p \in Proc : WF_vars((p \in Handler /\ InsertOwn(p)) \/ Save(p))

FairSpec == Spec /\ Fairness

-----------------------------------------------------------------------------
(* Whoever is between INSERT and the last statement of a save holds mu, so  *)
(* that one at a time numbers and counts messages.                          *)
InSave(p) == pc[p].at \in {"insert", "channel", "unique", "node"}

(* What GET /channels, /nodes and /status show never exceeds the messages   *)
(* there are, one by one or added up, whatever the order of saves, repeated *)
(* receptions, creations, deletions, failures and crashes (SaveMessage      *)
(* counts a new row only).                                                  *)
CountsNeverExceed ==
  /\ MapThenSumSet(LAMBDA c : c.count, GetChannels) <= GetStats.message_count
  /\ \A c \in GetChannels : /\ c.count <= Cardinality(Stored(c.name))
                            /\ c.nodes <= Cardinality(Writers(c.name))
  /\ \A n \in GetActiveNodes :
       nodes[n].count <= Cardinality({m \in DOMAIN messages : From[m] = n})
  /\ \A u \in User :
       users[u] <= Cardinality({m \in DOMAIN messages \cap Post : Author[m] = u})

(* A channel with messages is listed, with all its messages and nodes, but  *)
(* for the message that is just being saved, unless a crash or a failed     *)
(* statement interrupted a save or its row was deleted under a message      *)
(* (DeleteChannel is not under mu).  Without faults and between saves every *)
(* author's node is active, with all its messages.                          *)
CountsExact ==
  /\ \A ch \in Name \ disturbed :
       LET saving == {p \in Proc : Counting(p) /\ ChannelOf[pc[p].msg] = ch}
           late   == {p \in saving : pc[p].at = "channel"}
           count  == IF ch \in DOMAIN channels THEN channels[ch].count ELSE 0
       IN /\ count + Cardinality(late) = Cardinality(Stored(ch))
          /\ saving = {} /\ ch \in DOMAIN channels => channels[ch].nodes = Cardinality(Writers(ch))
  /\ faults = 0 /\ mu = Free =>
       /\ Cardinality({From[m] : m \in DOMAIN messages}) <= GetStats.active_nodes
       /\ \A n \in Node : nodes[n].count = Cardinality({m \in DOMAIN messages : From[m] = n})

(* Both, and they are in range.                                             *)
CountsHold == TypeOK /\ CountsNeverExceed /\ CountsExact

(* The own numbers are 1..k without a gap, also when posts fail half-way:   *)
(* two handlers never read one number (mu spans SELECT MAX(seq) and INSERT  *)
(* in SaveMessageWithSeq).                                                  *)
NumbersInOrder ==
  /\ \A p, q \in Proc : InSave(p) /\ InSave(q) => p = q
  /\ LET own == DOMAIN messages \cap Post IN {messages[m] : m \in own} = 1 .. Cardinality(own)

(* What a client was told stays true: a 201 for a post means that GET finds *)
(* the message for ever, a 409 that the channel has messages; a 500 for a   *)
(* post none of whose statements failed means that its id was taken, for    *)
(* the number it read never is (a Failure, which the client cannot tell     *)
(* from that, says nothing).  Crashes included.                             *)
AnswersHold ==
  \A h \in Handler : LET r == reply[h] IN r # NoReply =>
    /\ r.op = "post" /\ r.status \in {201, 500} => GetMessage(r.arg) = 200
    /\ r.op = "delete" /\ r.status = 409 => Stored(r.arg) # {}

(* No path of a save keeps mu, crashes or not: the next message can always  *)
(* be saved (every return of SaveMessage and SaveMessageWithSeq unlocks).   *)
LockGivenBack == []<>(mu = Free)
=============================================================================
