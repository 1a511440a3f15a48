------------------------------ MODULE ApiStream ------------------------------
(* The WebSocket stream of one daemon: the goroutines that call             *)
(* Server.BroadcastMessage (the receive goroutine in handleMSG, the HTTP    *)
(* handlers in SendMessage) and the handler of each connection to /stream.  *)
(* They share wsClients under wsMu, and the marks of seen_cache decide      *)
(* whether a message that is heard is broadcast: it is again when its mark  *)
(* has expired or was never made.  A connection is used once.               *)
EXTENDS Integers, Sequences, SequencesExt, FiniteSets

CONSTANTS
  Message,
  Own,         \* those that are posted at this node; the others are heard
  MaxCasts,    \* bound on the calls of BroadcastMessage
  Handler,     \* HTTP requests POST /messages served at the same time
  rx,          \* the receive goroutine
  Conn,        \* connections to /stream
  Slow         \* those whose client may stop reading for a while

Caster == Handler \cup {rx}
Call   == 1 .. MaxCasts

Free == "free"

ASSUME StreamAssumption ==
  /\ rx \notin Handler /\ Free \notin Caster
  /\ Slow \subseteq Conn /\ Own \subseteq Message /\ MaxCasts \in Nat

VARIABLES
  casts,       \* history: the message of each call of BroadcastMessage
  seen,        \* those with a mark in seen_cache
  unmarked,    \* history: how often the mark of a message went or was missing
  caster,      \* where each goroutine is in SendMessage or BroadcastMessage
  wsMu,        \* Server.wsMu: Free or its holder
  wsClients,   \* Server.wsClients
  stream,      \* where the handler of each connection is
  peer,        \* its other end
  written      \* the calls whose message reached the socket of each connection

dbVars == <<casts, seen, unmarked>>
vars   == <<dbVars, caster, wsMu, wsClients, stream, peer, written>>

begun == DOMAIN casts

Idle == [at |-> "idle"]
Marking(b)     == [at |-> "mark", call |-> b]
Waiting(b)     == [at |-> "lock", call |-> b]
Writing(b, i, failed) == [at |-> "write", call |-> b, next |-> i, failed |-> failed]

TypeOK ==
  /\ casts \in Seq(Message) /\ Len(casts) <= MaxCasts
  /\ seen \subseteq Message
  /\ unmarked \in [Message -> Nat]
  /\ DOMAIN caster = Caster
  /\ \A g \in Caster : \/ caster[g].at = "idle"
                       \/ caster[g].at \in {"mark", "lock", "write"} /\ caster[g].call \in begun
  /\ wsMu \in Caster \cup {Free}
  /\ wsClients \in Seq(Conn) /\ IsInjective(wsClients)
  /\ stream \in [Conn -> {"new", "upgraded", "registered", "leaving", "closed"}]
  /\ peer \in [Conn -> {"open", "stalled", "gone"}]
  /\ written \in [Conn -> Seq(begun)] /\ \A c \in Conn : IsInjective(written[c])

Init ==
  /\ casts = <<>> /\ seen = {}
  /\ unmarked = [m \in Message |-> 0]
  /\ caster = [g \in Caster |-> Idle]
  /\ wsMu = Free /\ wsClients = <<>>
  /\ stream = [c \in Conn |-> "new"]
  /\ peer = [c \in Conn |-> "open"]
  /\ written = [c \in Conn |-> <<>>]

-----------------------------------------------------------------------------
(* Messages.                                                                *)

listVars == <<wsMu, wsClients, stream, peer, written>>

\* A message enters the path that ends in a call of BroadcastMessage.
Enters(m) == Len(casts) < MaxCasts /\ casts' = Append(casts, m)

MarkMissing(m) == unmarked' = [unmarked EXCEPT ![m] = @ + 1]

(* SendMessage up to QueueTransmission.  An INSERT that fails ends it: one  *)
(* id is posted once.                                                       *)
SendMessage(h, m) ==
  /\ caster[h] = Idle
  /\ m \in Own \ ToSet(casts)
  /\ Enters(m)
  /\ caster' = [caster EXCEPT ![h] = Marking(Len(casts'))]
  /\ UNCHANGED <<seen, unmarked, listVars>>

\* Its MarkSeen, whose error is dropped.
MarkSeen(h) ==
  LET b == caster[h].call  m == casts[b] IN
  /\ caster[h].at = "mark"
  /\ \/ seen' = seen \cup {m} /\ UNCHANGED unmarked
     \/ MarkMissing(m) /\ UNCHANGED seen
  /\ caster' = [caster EXCEPT ![h] = Waiting(b)]
  /\ UNCHANGED <<casts, listVars>>

\* m was queued, so that its echo may be heard, and is not marked yet.
Posting(m) == \E h \in Handler : caster[h].at = "mark" /\ casts[caster[h].call] = m

\* Mutant: what MarkSeenIfNew finds is not looked at.
HearAnything(m) ==
  /\ caster[rx] = Idle
  /\ m \in Own => m \in ToSet(casts)
  /\ Enters(m)
  /\ seen' = seen \cup {m}
  /\ IF Posting(m) THEN MarkMissing(m) ELSE UNCHANGED unmarked
  /\ caster' = [caster EXCEPT ![rx] = Waiting(Len(casts'))]
  /\ UNCHANGED listVars

(* handleMSG: MarkSeenIfNew finds no mark of m.  Whether SaveMessage puts a *)
(* row in, finds one or fails, the message is broadcast.                    *)
HearMessage(m) ==
  /\ caster[rx] = Idle
  /\ m \notin seen
  /\ m \in Own => m \in ToSet(casts)
  /\ Enters(m)
  /\ seen' = seen \cup {m}
  /\ IF Posting(m) THEN MarkMissing(m) ELSE UNCHANGED unmarked
  /\ caster' = [caster EXCEPT ![rx] = Waiting(Len(casts'))]
  /\ UNCHANGED listVars

(* cleanupLoop: CleanupSeenCache, at any time since the age is left out;    *)
(* after the last call that is counted it would change nothing.             *)
ExpireSeen(m) ==
  /\ m \in seen /\ Len(casts) < MaxCasts
  /\ seen' = seen \ {m}
  /\ MarkMissing(m)
  /\ UNCHANGED <<casts, caster, listVars>>

\* Mutant: BroadcastMessage does not take the lock.
LockNothing(g) ==
  /\ caster[g].at = "lock"
  /\ caster' = [caster EXCEPT ![g] = Writing(caster[g].call, 1, <<>>)]
  /\ UNCHANGED <<dbVars, wsMu, wsClients, stream, peer, written>>

\* BroadcastMessage: Lock.
Lock(g) ==
  /\ caster[g].at = "lock"
  /\ wsMu = Free
  /\ wsMu' = g
  /\ caster' = [caster EXCEPT ![g] = Writing(caster[g].call, 1, <<>>)]
  /\ UNCHANGED <<dbVars, wsClients, stream, peer, written>>

Target(g) == wsClients[caster[g].next]
AtClient(g) == caster[g].at = "write" /\ caster[g].next <= Len(wsClients)

(* One turn of the loop of BroadcastMessage.  There is no deadline: a write *)
(* to a client that does not read blocks, with wsMu held.  A write to one   *)
(* that has gone fails, or is lost in the buffers of the socket.            *)
WriteJSON(g) ==
  LET c == Target(g)  i == caster[g].next  b == caster[g].call  failed == caster[g].failed IN
  /\ AtClient(g)
  /\ \/ /\ peer[c] = "open"
        /\ written' = [written EXCEPT ![c] = Append(@, b)]
        /\ caster' = [caster EXCEPT ![g].next = i + 1]
     \/ /\ peer[c] = "gone"
        /\ \E err \in {<<>>, <<i>>} : caster' = [caster EXCEPT ![g] = Writing(b, i + 1, failed \o err)]
        /\ UNCHANGED written
  /\ UNCHANGED <<dbVars, wsMu, wsClients, stream, peer>>

\* Mutant: the indexes are removed from the first to the last.
WithoutFromFirst(clients, failed) ==
  FoldLeft(LAMBDA s, i : RemoveAt(s, i), clients, failed)

\* The second loop of BroadcastMessage, from the last index to the first.
Without(clients, failed) ==
  FoldRight(LAMBDA i, s : RemoveAt(s, i), failed, clients)

(* handleMSG goes on to queue a message of another node and to mark it once *)
(* more, which may fail; it returns if the message is of its own callsign.  *)
MarkedAgain(g) ==
  seen' \in {seen} \cup {seen \cup {m} : m \in {casts[caster[g].call]} \ (IF g = rx THEN Own ELSE Message)}

\* Mutant: a return in the loop keeps the lock.
FinishKeepsLock(g) ==
  /\ caster[g].at = "write" /\ ~AtClient(g)
  /\ wsClients' = Without(wsClients, caster[g].failed)
  /\ wsMu' = IF caster[g].failed = <<>> THEN Free ELSE wsMu
  /\ caster' = [caster EXCEPT ![g] = Idle]
  /\ MarkedAgain(g)
  /\ UNCHANGED <<casts, unmarked, stream, peer, written>>

\* The failed connections are closed and dropped; Unlock.
Finish(g) ==
  /\ caster[g].at = "write" /\ ~AtClient(g)
  /\ wsClients' = Without(wsClients, caster[g].failed)
  /\ wsMu' = Free
  /\ caster' = [caster EXCEPT ![g] = Idle]
  /\ MarkedAgain(g)
  /\ UNCHANGED <<casts, unmarked, stream, peer, written>>

-----------------------------------------------------------------------------
(* Connections.                                                             *)

Goes(c, at) == stream' = [stream EXCEPT ![c] = at]

\* handleStream: Upgrade answers the client before the handler registers it.
Upgrade(c) ==
  /\ stream[c] = "new"
  /\ Goes(c, "upgraded")
  /\ UNCHANGED <<dbVars, caster, wsMu, wsClients, peer, written>>

Register(c) ==
  /\ stream[c] = "upgraded"
  /\ wsMu = Free
  /\ wsClients' = Append(wsClients, c)
  /\ Goes(c, "registered")
  /\ UNCHANGED <<dbVars, caster, wsMu, peer, written>>

\* ReadMessage fails, since the client has gone or BroadcastMessage closed it.
ReadEnds(c) ==
  /\ stream[c] = "registered"
  /\ peer[c] = "gone"
  /\ Goes(c, "leaving")
  /\ UNCHANGED <<dbVars, caster, wsMu, wsClients, peer, written>>

\* The deferred function: the connection may already be off the list.
Unregister(c) ==
  /\ stream[c] = "leaving"
  /\ wsMu = Free
  /\ \/ \E i \in DOMAIN wsClients : wsClients[i] = c /\ wsClients' = RemoveAt(wsClients, i)
     \/ c \notin ToSet(wsClients) /\ UNCHANGED wsClients
  /\ Goes(c, "closed")
  /\ UNCHANGED <<dbVars, caster, wsMu, peer, written>>

(* The other end stops reading, reads again, goes or is cut off.  A write   *)
(* that a reading client lets begin is taken whole by the socket.           *)
Stall(c) ==
  /\ c \in Slow /\ stream[c] = "registered" /\ peer[c] = "open"
  /\ \A g \in Caster : AtClient(g) => Target(g) # c
  /\ peer' = [peer EXCEPT ![c] = "stalled"]
  /\ UNCHANGED <<dbVars, caster, wsMu, wsClients, stream, written>>

Resume(c) ==
  /\ peer[c] = "stalled"
  /\ peer' = [peer EXCEPT ![c] = "open"]
  /\ UNCHANGED <<dbVars, caster, wsMu, wsClients, stream, written>>

Leave(c) ==
  /\ stream[c] # "new" /\ peer[c] # "gone"
  /\ peer' = [peer EXCEPT ![c] = "gone"]
  /\ UNCHANGED <<dbVars, caster, wsMu, wsClients, stream, written>>

Next ==
  \/ \E m \in Message : HearMessage(m) \/ ExpireSeen(m) \/ \E h \in Handler : SendMessage(h, m)
  \/ \E h \in Handler : MarkSeen(h)
  \/ \E g \in Caster : Lock(g) \/ WriteJSON(g) \/ Finish(g)
  \/ \E c \in Conn : \/ Upgrade(c) \/ Register(c) \/ ReadEnds(c) \/ Unregister(c)
                     \/ Stall(c) \/ Resume(c) \/ Leave(c)

Spec == Init /\ [][Next]_vars

(* A goroutine in BroadcastMessage goes on when it can.  A client that does *)
(* not read reads again or goes one day: the code does not see to that.     *)
Fairness ==
  /\ \A g \in Caster : WF_vars(WriteJSON(g) \/ Finish(g))
  /\ \A c \in Slow : WF_vars(Resume(c) \/ Leave(c))

FairSpec == Spec /\ Fairness

-----------------------------------------------------------------------------
(* Any two clients see what both get in one order (wsMu is held over the    *)
(* whole loop of BroadcastMessage), and none gets one call twice (TypeOK).  *)
SameOrder ==
  \A c, d \in Conn : \A i, j \in 1 .. Len(written[c]) : \A k, l \in 1 .. Len(written[d]) :
    written[c][i] = written[d][k] /\ written[c][j] = written[d][l] /\ i < j => k < l

Times(m) == Cardinality({b \in begun : casts[b] = m})

(* A message is broadcast once, and once more for every time that its mark  *)
(* in seen_cache went (CleanupSeenCache), could not be written, or was not  *)
(* there yet when an echo came: a post and the receive goroutine together   *)
(* make no other repeat, since SendMessage saves before it queues and       *)
(* MarkSeenIfNew looks and marks in one statement.                          *)
OncePerMark == \A m \in Message : Times(m) <= 1 + unmarked[m]

(* What all clients together may rely on: one order, no call twice to one   *)
(* connection, and a repeated message only where a mark was missing.        *)
StreamInOrder == TypeOK /\ SameOrder /\ OncePerMark

(* wsMu comes back after every broadcast, whatever clients go in the midst  *)
(* of it, provided that a client which does not read does so in the end:    *)
(* reception, posts and new connections all wait for it.                    *)
LockGivenBack == []<>(wsMu = Free)
=============================================================================
