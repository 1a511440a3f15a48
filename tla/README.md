# rfmpd in TLA+

`rfmpd` is a microblog over amateur packet radio. Every station runs a daemon
that keeps all messages in SQLite, talks to a Direwolf TNC over KISS/TCP, and
serves an HTTP/WebSocket API to a web page and a handheld display. There is no
server: stations rebroadcast what they hear and repair losses by exchanging
state vectors (SVEC). This directory models that system; it is translated from
the Go source, and cites documents only where they disagree with it.

## Inventory

| Component | State | Operations | What makes it correct |
|---|---|---|---|
| Message store (`internal/storage`) | tables `messages`, `channels`, `nodes`, `users` (durable) | SaveMessage, SaveMessageWithSeq, queries, CreateChannel/DeleteChannel | rows are never lost or replaced; `(from_node, seq)` and `id` name one message in the network; own numbers have no gap; channel counters match the rows |
| Seen cache (`internal/storage`) | table `seen_cache`, emptied at startup | MarkSeenIfNew, MarkSeen, CleanupSeenCache | an id in it was stored (or is being stored) |
| SVEC sync (`internal/daemon`) | none of its own | handleMSG, handleSVEC, broadcastSVEC, SendMessage | an SVEC never claims what its sender lacks; stores converge; traffic stops when they have |
| Transmission queue (`internal/storage`, `internal/daemon`) | table `transmission_queue` (durable), the item in the hands of `transmissionLoop` | QueueTransmission, GetNextTransmission, MarkTransmitted, MarkTransmissionFailed, CleanupTransmissionQueue | every frame is sent or given up after three attempts; a crash never loses one; one row is never in flight twice |
| Fragmenter (`internal/protocol`) | `Collectors` (memory), `seen_cache` rows per fragment, table `fragments` | FragmentMessage, AddFragment, CleanupExpired, handleFRAG | what is reassembled is what was cut; a message can be reassembled in the end |
| KISS framing (`internal/network/kiss.go`) | receive buffer | Encode, DecodeFrames | decoding is the inverse of encoding for every chunking of the stream |
| Frames (`internal/protocol`, parts of `internal/daemon`) | none | ToDict, FromDict, Encode, Decode, messageRowToFrame, GenerateMessageID | a message is one sequence of bytes whoever sends it; every node stores the same row |
| AX.25 framing (`internal/network/ax25.go`) | none | Encode, DecodeAX25Frame, CreateUIFrame | round trip of addresses and payload |
| Direwolf link (`internal/network/direwolf.go`) | `conn`, `connected`, KISS buffer | Run, connect, receiveLoop, SendFrame, close | a send never reports success on a closed connection; reconnects for ever |
| API (`internal/api`) | WebSocket client set under `wsMu` | REST handlers, handleStream, BroadcastMessage | each connected client gets every broadcast once, all in one order; a message is broadcast again only where its seen mark was missing; every 201 or 409 is true; the lock comes back |
| Configuration (`internal/config`) | the shared `Config`, `config.yaml` | DefaultConfig, Load, SaveToFile, POST /config/callsign, PUT /config | file, memory and frames name one station; the daemon always has a callsign; an emptied file does no harm |
| Display (`cmd/rfmp-display`) | current screen, message list, WebSocket channel | screens, WSClient, LED/backlight | the list shown belongs to the channel shown, is complete as far as the stream and the newest 50 are, and has nothing twice |
| Web page (`web/static/js/app.js`) | the page's message list | fetch, WebSocket | list without duplicates |
| RF simulator (`cmd/rf-sim`) | test harness | scenarios | — |

Goroutines of one daemon: the Direwolf receive loop (which runs `handleMSG`,
`handleFRAG`, `handleSVEC` in line), `transmissionLoop`, `syncLoop`,
`cleanupLoop`, and one per HTTP request. They share the database (one
connection, so single statements are atomic; sequences of statements are not
unless they hold `Database.mu`), the fragmenter's collectors and the client
set. The daemon may stop between any two statements.

The hard parts: steps of these goroutines between statements; a crash between
two of them; lost, repeated and reordered frames; caches whose entries expire
while the radio still repeats a frame; vectors that are stale when they are
used. `PROJECT.json` lists each hazard at its line.

## Plan

Most important first. "Done" modules are described below.

| # | Module | Models | Composes / refines | Properties worth stating |
|---|---|---|---|---|
| 1 | `RfmpSync`, `Microblog` (done) | stores, seen cache, flooding and SVEC sync of a network of daemons | `RfmpSync` implements `Microblog` | truthful vectors, one message per number, convergence, quiescence |
| 2 | `TransmissionQueue` (done) | one queue, its loop and its cleanup, with crashes | the queue behind `msgq`, `svecq` of `RfmpSync` | sent once per fault, settled for good, settles |
| 3 | `FragmentReassembly` (done) | cutting, marks, collectors and timeouts of one message | the pieces of one message of `RfmpSync` | no mixture, not twice, reassembled |
| 4 | `TncLink`, `FrameChannel` (done) | the byte stream from the TNC, read in chunks, `DecodeFrames`' buffer, `Run`, `connect`, `receiveLoop`, `close` | `TncLink` implements `FrameChannel`, a lossy queue of frames | whole frames in order whatever the chunks; none lost while a connection lasts; nothing held back; back online; a FEND too many |
| 5 | `MessageStore` (done) | every statement of a save, a post, CreateChannel, DeleteChannel, with crashes and failed statements of every kind | the rows of `RfmpSync`, with their counters and answers | numbers without gap, exact counters, answers that stay true, the lock comes back |
| 6 | `FramePath` (done) | rows, dictionaries, frames and bytes of a message and of an SVEC | the contents behind the model values of `RfmpSync` and `FragmentReassembly` | one encoding, one row; what the queue cannot rebuild |
| 7 | `ClientStream`, `ApiStream` (done) | `handleStream`, `BroadcastMessage` and their callers under `wsMu`, and the marks that decide whether they are called | `ApiStream` implements `ClientStream` for each connection | each broadcast once, one order, once per mark, the lock comes back |
| 8 | `DisplayApp` (done) | the display's two goroutines, its screens and requests | a client of `ClientStream` | nothing missed that stream and limit could bring, nothing twice, the right channel |
| 9 | `ConfigStore`, `Ax25` (done) | the file, the memory and the callsign of frames, two requests at once, the settings screen; the AX.25 codec | `ConfigStore` uses `Ax25` | one station again after any overlap; frames name us |
| 10 | `NetworkRefinement` | `RfmpSync` whose frames go through a `TransmissionQueue` | implements `RfmpSync` with msgq = live rows | every queued frame's fate is one `RfmpSync` allows |
| 11 | `LinkSend` | `SendFrame` with the connection it copied | `TncLink`'s `close` and `connect` | a nil error means written to a connection that was open |

Theorems still wanted: those of `LinkSend` and `NetworkRefinement`, which are not written.

## What is modelled

### RfmpSync, MCRfmpSync, Microblog

A network of daemons. Each action is what a goroutine does between two points
where a crash, another goroutine or a frame can intervene: SQLite has one
connection and commits per statement, so a statement (or a transaction under
`Database.mu`) is the grain.

| State | Code |
|---|---|
| `store[n]` | rows of `messages`: id, from_node, seq |
| `seen[n]` | rows of `seen_cache` without fragment index; `migrate` drops the table at startup |
| `msgq[n]`, `svecq[n]` | rows of `transmission_queue`, and the same frame on the air and in a hearer's buffers |
| `rx[n]` | where the receive goroutine is: idle; `save` (between MarkSeenIfNew and SaveMessage); `forward`; `svec` (in the loop over origins) |
| `sending[n]` | HTTP handlers inside `Daemon.SendMessage`, after SaveMessageWithSeq |

`SendMessage`, `SendQueue`, `SendMarkSeen` are the three steps of
`Daemon.SendMessage`; `HearMsg`, `SaveMessage` / `SaveMessageFails`, `Forward`
those of `handleMSG`; `HearSvec`, `PushOrigin` those of `handleSVEC`;
`BroadcastSVEC` is a tick of `syncLoop`; `ExpireSeen` one of `cleanupLoop`;
`MsgGone`, `SvecGone` end a frame's life; `Crash` stops and restarts a daemon.

A message stays in `msgq` while it can still be heard, any neighbour may hear it
several times or not at all, in any order: this covers retries, the row that is
sent again after a crash, the random delays of `internal/timing`, loss and
reordering. What it leaves out: bodies and statistics; fragments (a MSG is one
frame here, see `FragmentReassembly` for what that hides); and the `raw_frame`
and `transmitted_at` columns, which nothing decides on.

`Microblog` is what users are promised: a set of messages per node that grows
by posts numbered 1, 2, 3, … and by copies of messages that their origin has.

### TransmissionQueue

One table, `transmissionLoop` with one row in its hands, and
`CleanupTransmissionQueue` between any two statements of the loop.
`scheduled_at` is `later`, `due` or `stale` (due for over a minute) instead of a
date. Dropped errors are actions (`GetNextUnmarked`, `MarkFails`, `CleanupResetFails`, and `MarkFailedUnread`, which takes the attempts
for 0 when they cannot be read),
counted with crashes in `faults`. The branches that call MarkTransmitted without
sending (bad JSON, unknown type, encode error) are not reached by rows that the
daemon itself inserted, except the one it means to take for a row that cannot be
rebuilt, where it panics instead: `PanicOnUnbuildable`.

`Unbuildable` rows exist: `msgFromPB` lets a channel name with capitals in,
`MSGFromDict` refuses it when the relay is taken from the queue.

### FragmentReassembly

One message and one receiver; the neighbours that send it are named by their
`fragment_threshold`. Everything in the receiver is keyed by message id, so
messages do not meet. `FragmentMessage(c)` cuts by the arithmetic of the code
(`Size`, `Total`, `Slice`). handleFRAG is two steps, between which other goroutines run:
`HearFragment` is `fragFromPB`'s limit and MarkSeenIfNew, which commits, and leaves the fragment in `hand`;
`AddFragment` is `Fragmenter.AddFragment` with `FragmentCollector.AddFragment`,
completeness and decoding. A complete collector whose bytes are not the message
may decode (a garbled message) or stay. A tick of `cleanupLoop` is two steps too, `CleanupSeenCache` and
`CleanupExpired` (`sweep` says which is next), so that a mark may be a tick older than the collector it belongs to. The
`fragments` table is written and cleaned and never read, and is left out.

### TncLink, MCTncLink, FrameChannel

The stream of bytes from Direwolf and the receive goroutine that reads it. `wire`
is what the TNC sent and nobody has read; `buffer` is `KISSProtocol.buffer`;
`conn` tells apart a connection that is open, one whose other end has vanished
without a word, one whose socket has an error to report, and none. `Read(k)` is a
turn of `receiveLoop` that gets k bytes, runs `DecodeFrames` and hands the UI
frames to OnFrame (`got`); `ReadError` and `Connect` are the way back through
`Run`. The codec is modelled by what it does: FENDs are taken
in pairs, and the bytes between them unescaped. `StartIdx` scans the stream byte by byte and says where the
frame begins that has not ended; `Ended` is the frame that a byte ends; `Rest` and `DecodeFrames` are what one
call keeps and returns. These are recursive functions and flattened sequences, no RECURSIVE operators, and so can
be proved about. An even number of FENDs between frames does no harm, and an odd one does (see
Findings); the run has both. Names begin with `Link` (`LinkInit`, `LinkNext`) because `Radio_proofs` extends
this module and `TransmissionQueue`.
`FrameChannel` is what the daemon may rely on: a queue of frames
whose tail a broken connection cuts off. The mapping takes for the queue what
would be decoded from `buffer` and `wire` together, so every way of cutting the stream
into reads is checked against sending and receiving whole frames. `FrameChannel` alone allows a decoder
that loses everything; `NoneLost` says what it must not lose.

### MessageStore, MCMessageStore

The tables `messages`, `channels`, `nodes`, `users` and everyone who writes them: the
receive goroutine and any number of HTTP requests. A step is one SQL statement (there
is one connection); `mu` is Database.mu. `pc[p]` is the statement goroutine p does next: `wait`
(for mu), `insert`, `channel` and `unique` (the two of updateChannelStats), `node`,
`user`, `delete`. `PostMessage`, `ReadNumber`, `InsertOwn`, `CountForUser` are a POST;
`HearMessage`, `InsertHeard` a reception; `CountMessage`, `CountWriters`, `CountForNode`
the statistics of both, and `StatisticsFail` their dropped errors. Every other statement may fail too
(`StatementFails`): SELECT MAX(seq), the INSERTs, the COUNT and DELETE of DeleteChannel; a client is then told 500
(`Failure`), which it cannot tell from the 500 for an id that is taken. `CountForDelete` and
`DeleteRow` are DeleteChannel, which does not take mu. `reply[h]` is what the client
of request h was told, and `disturbed` remembers the channels for which the code
cannot promise exact counters (a crash or a failed statement within a save; a row deleted
between the count and the DELETE while a message came). Times and texts are left out: listing queries
are the sets they return.

### FramePath, MCFramePath

What becomes of a message's content. A request becomes a row (`RowOfRequest`) and a frame
(`FrameOfRequest`); a received frame becomes a row (`RowOfFrame`) and is queued; a row
becomes a frame again when it is pushed (`MessageRowToFrame`). Frames wait in the
queue as dictionaries of strings (`ToDict`, `MSGFromDict`, `FragToDict`, …), go on the air
as protobuf messages (`MsgToPB`, `MsgFromPB`), whole or in pieces. A conversion is
modelled by what it keeps and loses: a time loses its fraction, `reply_to` its
capitals or, if it is no id, everything, an empty author and none become one. The SVEC's
`name:number,name:number` string is a sequence of tokens that is really joined and really split, since
callsigns of other implementations may hold colons and commas. Who speaks when is abstracted to
"anyone, at any time", which is more than `RfmpSync` allows. Assumed (`FramePathAssumption`): callsigns are sequences of tokens, authors are
not shared between nodes (see Findings), and all nodes have one threshold (with
two, totals differ and a collector refuses the other's pieces: `FragmentReassembly`).

### ClientStream, ApiStream, ApiClient

`ClientStream` is what a connection to /stream may rely on: every call of BroadcastMessage, once, while it is on
the list. A call is a number; `casts` tells the message of each, and one message may have several. `HearMessage`
makes one when MarkSeenIfNew finds no mark in `seen`: the first time, after `ExpireSeen`, or when the echo of a post comes before
its `MarkSeen` (daemon.go:441-444); whether SaveMessage then inserts, ignores or fails is not asked. `SendMessage`
makes the others. `unmarked` counts how often a mark was missing. `ApiStream` has the handler of
each connection (`stream[c]`), the goroutines in BroadcastMessage (`caster[g]`: waiting for
wsMu, or writing to client number `next` with those that failed so far), `wsClients`
and the other ends (`peer`). `Finish` removes the failed clients by index from the back, as the
code does. A connection whose Upgrade is done and that is not yet registered misses what
is broadcast then: `line` is `dialled`. `ApiClient` looks at all this from one connection, `client`, and
maps it to `ClientStream`; the run takes one that may stall, whose behaviours include those of the others.

### DisplayApp, MCDisplayApp

`WSClient.connectLoop` (`Dial`, `Read`, `LinkBreaks`) fills a bounded channel and drops what does
not fit; `main` takes keys and messages in turn and blocks in each HTTP request. A
request (`call`) is sent, served by the daemon at one moment and used at a later one, or fails;
the daemon is `ClientStream` with its rows, and may broadcast a message again. GetMessages asks for 50 (`Limit`): the answer is
one of `Newest`, the last by `received_at`, which has whole seconds (`Second`), so that the order among those of one second is
open. `missed` collects the messages that the stream did not bring and those that an answer had no place
for, and forgets them when a list that has them is loaded. A list entry keeps only whether a channel is empty: the count is for drawing.

### ConfigStore, Ax25, MCConfigStore

`file`, `mem` and `radio` are config.yaml, `Daemon.Config` and the copy in DirewolfClient.
POST /config/callsign assigns four fields one after the other (`SetCallsign`, a step each) and then
saves: marshal, empty the file, write it (`Marshal`, `Open`, `Write`); nothing is locked. Two writers
that overlap leave a file that is no YAML (`Over`); Load takes an empty file for the defaults and
stops at a garbled one. A file cut short at a byte where what is left still parses is not modelled: it would
be a configuration with fewer fields. PUT /config merges into a copy, saves it and restarts the daemon later.
The settings screen is `OnEnter`, `Edit`, `Save`. `host` stands for all fields that PUT
merges alike. Texts are ASCII (`Char`): the callsigns of other alphabets, which the code cuts into bytes, are left out. `Ax25` encodes and decodes frames byte by byte; strings are sequences of character codes.

## What the runs check

Each run answers one question; bounds are in the cfg.

| Run | Checks | Bounds, and why they suffice |
|---|---|---|
| `sync_pair` | `IInv` (`TypeOK`, `NoPhantom`, `OwnContiguous`, `SvecTruthful` and what makes them inductive), `SameMessage`, `ClockNeverDrops`, refinement of `Microblog`, `Convergence` | 2 nodes, 2 posts of one of them, which may crash: enough for the second to arrive and the first to be lost, for a gap, a stale SVEC, a message that comes back to its origin after a crash |
| `sync_converge_faults` | `Convergence` | 2 nodes that both may fail in every way, 1 post; crash between MarkSeenIfNew and SaveMessage, failed INSERT, expiry |
| `sync_converge_line` | `SeenIsStored`, `Convergence`, `Quiescence` | 3 nodes in a line, of which the middle one may crash: the middle one relays a message whose origin the far one cannot hear |
| `txq_loop` | `SentOnce`, `SettledHonestly`, `HeldIsLive`, `NoneForgotten`, `SettledForGood`, `Settles` | 3 rows, of which one panics; 2 attempts (3 in the code), 2 faults: a fault before and one after another row's send |
| `frag_safety` | `Intact`, `SeenCoversCollector`, `NotTwice`, `ReassembledAfterLoss` | cuts into 3 and into 2 pieces, one loss or restart, marks that last 4 ticks and collectors that last 2 (13 and 2 in the code): a mark outlives a collector by a tick more than the two between which cleanupLoop can fall |
| `tnc_link` | `BufferIsOneBeginning`, refinement of `FrameChannel`, `NoneLost`, `BackOnline` | 2 frames out of 3 (of bytes to escape, of bytes that look like escapes, and one to be ignored), once one or two FENDs between frames; reads of every size; one lost connection, at any byte: two whole frames in one read, and two halves from two connections |
| `store_tables` | `CountsHold` (`TypeOK`, `CountsNeverExceed`, `CountsExact`), `NumbersInOrder`, `AnswersHold`, `LockGivenBack` | 2 requests and the receive goroutine, 2 posts and one foreign message, two names of a channel, one fault: two saves at once, a repeated reception, a delete between count and save, a crash at or the failure of any statement |
| `frame_path` | `OneEncoding`, `RowsAgree`, `OnlyForeignStops`, `ClaimsHeld` | 2 nodes, one post out of every kind of author, `reply_to` and body (whole, in 2 pieces that are accepted, in 3 that are not), one of 3 foreign messages (plain, with a colon and capitals, with a comma), one SVEC: posted, relayed and pushed copies meet |
| `api_stream` | `StreamInOrder` (`TypeOK`, `SameOrder`, `OncePerMark`), refinement of `ClientStream`, `LockGivenBack` | 3 connections (2 can fail in one broadcast while the third stays), one of which may stall, one request beside the receive goroutine, 2 broadcasts: of a post and a message heard, of one heard twice, of a post and its echo |
| `display_stream` | `NothingMissed`, `ShownRightly` (`NoDuplicates`, `ShownBelongs`), `SelectedInRange` | 2 channels, 2 messages of one of them, which may come while the other is looked at; 2 broadcasts, of both or twice of one; a queue of 1 (64 in the code) that overflows and answers of 1 message (50) that leave one out, either one, since both come in the same second; 2 connections, so that one breaks and the next begins afresh |
| `config_store` | `Settled`, `HasCallsign`, `FramesNameUs` | 2 requests at once, 3 changes, one fault: an overlap of two, then one alone |
| `txq_unbuildable` | `AllSettle`, violated | see Findings |

Each property has, in `PROJECT.json`, a mutated form of a definition (an
operator beside it, commented "Mutant") under which the same run refutes it.

`TypeOK` is a conjunct of `IInv`, `CountsHold`, `BufferIsOneBeginning`, `StreamInOrder`, `SelectedInRange`
and `HasCallsign`; those of `TransmissionQueue` and `FragmentReassembly` are proved.

All `MaxSeq`, `MaxSvec`, `MaxFaults` bound the model checking; the code
has no such limits. `MaxSvec` = 1 still lets an SVEC grow stale while messages
arrive; one of `MaxPosts`, `MaxForeign`, `MaxVectors` each in `frame_path` gives each
kind of content its turn, and the proofs cover several at once. Deadlock is
checked except in `api_stream`, which ends when every connection was used and `MaxCasts` calls were made,
and `config_store`, which ends when `MaxChanges` is reached. Failures are bounded per node
(`Faults`) or in number (`MaxFaults`).

### Fairness

- `LoopsRun`: a goroutine that can go on does; Go schedules it, and
  handlers do not wait for one another (the exception, `BroadcastMessage`
  writing to a stalled client, is in `ApiStream`). `syncLoop` ticks.
- `FairLossy`: radio may lose any frame, but of wanted frames that are on the
  air infinitely often some are heard. Without it no protocol converges.
- `Stable`: from some time on no crash and no failed INSERT — convergence is
  promised for when faults stop. `CleanupRuns` makes seen entries expire.
- `FramesGo` (`QuietSpec`): rows are settled, which `Settles` shows of the queue.
- `TransmissionQueue`: strong fairness for taking a row, because
  `ORDER BY scheduled_at` serves the oldest first, a row that failed goes behind,
  and one that made the daemon panic stays 'transmitting' until the next cleanup,
  while the others have their turn; weak for the rest; nothing about faults, which
  the bound ends.
- `TncLink`: the receive goroutine runs, a dial succeeds in the end, and SVECs are
  written every `sync_interval`, so that the kernel notices a TNC that has vanished.
- `FragmentReassembly`: neighbours repeat the message (SVECs make them push it),
  what is not lost is heard, `cleanupLoop` ticks. A behaviour has one `pace`; `prompt` means that a complete
  repetition is heard and added between two ticks: `sync_interval` and the tick are both of
  minutes. The receive goroutine takes what comes (strong fairness for a fragment, which waits only while another is in hand). Liveness is stated for that pace, safety for both.
- `MessageStore`: whoever holds mu runs and its statements end, nothing else.
- `ApiStream`: whoever is in BroadcastMessage runs, and a client that has stopped reading reads
  or goes one day. The code does not see to the second (there is no write
  deadline): until then reception, posts and new connections all wait.
- `DisplayApp`, `ConfigStore`, `FramePath`: safety only, no fairness.

## What is proved

TLAPS checks every theorem, for all values of the constants.

- `RfmpSync_proofs`, from `SyncAssumption` (types of the constants).
  None of the safety properties is inductive alone. `SvecTruthful` needs only that rows are never
  deleted; `NoPhantom` needs that frames are queued after they are saved and that
  rows survive crashes; `SameMessage` needs `UniqueRows` (the two unique
  indexes), `IdsOfOrigin`, and `NoPhantom` to bring any two copies into one table:
  their origin's. `OwnContiguous` needs `NoPhantom` (a received message of our
  own is already there, so the INSERT is ignored) and `SendsOwn`. Their
  conjunction `IInv` is inductive (`Inductive`). `SameMessageAlways` also assumes
  `DisjointIds`: two nodes never hash to one id, true when authors are not shared
  between nodes. `SeenIsStoredAlways` assumes in addition that INSERTs do not fail,
  strengthened by `ForwardIsStored`; with failing INSERTs it is false,
  and only expiry and the next SVEC repair the loss (`sync_converge_faults`).
  `Refinement`: the stores implement `Microblog`; `SendMessage` is `Post`,
  `SaveMessage` is `Learn` (by `NoPhantom`) or a stutter, all else stutters.
- `Radio_proofs`, the queue, from `QueueAssumption`. `SentOnce` is
  strengthened to `WriteBound`: a live row not yet written in this hand has at
  most `faults` writes, so that SendFrame has one to spend; a hand lets a live row
  go only by settling it, requeueing it unsent, or at the price of a fault.
- `Radio_proofs`, the link, from `LinkAssumption` (frames are sequences of bytes; any number of FENDs
  may come between them). What `DecodeFrames` does with one more byte (`RestGrows`, `DecodeGrows`)
  follows from the definition of `FlattenSeq`, which is shown to exist and followed byte by byte. `EncodeDecodes`:
  for every frame, escaping and unescaping give it back, and its encoding decodes to it alone. `CutAnywhere`: decoding a
  stream in two calls, the second behind what the first kept, gives what one call
  gives, by induction over the second part. A `Read` therefore leaves `Queue` and `got` together as they were, which is
  `Deliver` of `FrameChannel` or a stutter. `BufferIsOneBeginning` is not enough for the sends: `LinkInv` adds that on an
  open connection `buffer` and `wire` together leave nothing, or a lone FEND. An encoded frame is then one more frame in
  the first case and none in the second, and either case comes again. `Break` and `Connect` take the tail of the queue
  (`Lose`), for the frames of a beginning of the stream are a beginning of its frames. `LinkRefinement` and `NothingLost` follow.
- `FragmentReassembly_proofs`, from `FragmentAssumption` (in particular
  `CollectorTicks + 1 < SeenTicks`). `SlicesMakeTheMessage` is the arithmetic of
  cutting: slices lie end to end and cover the message for every length and threshold.
  A mark is made before its fragment is added and swept before the collectors are, so it is at most a tick older than
  the collector, and two within a tick (`SeenCoversCollector`).
  `NotTwice` is strengthened by `FirstIsMarked`: while the last delivery is recent,
  index 0 is still marked, and every complete collector needs index 0.
  `Intact` holds under `DistinctTotals`: thresholds in use make different
  numbers of fragments. Without that it is false: thresholds 4 and 5 cut a message of
  length 6 with overhead 1 into two different pairs.

- `MessageStore_proofs`, from `StoreAssumption`. `NumbersInOrder` is strengthened by `WhereOK`: a
  goroutine between SELECT MAX(seq) and the last statement of its save holds mu, and the
  number in its hand is the number of own messages plus one; hence own numbers have no gap, the
  unique index on (from_node, seq) never refuses a row, and a 500 means that the id was taken unless a
  statement failed. `AnswersHold`
  then follows because no step deletes a message. `CountsHold` is about sizes of sets that change while
  goroutines are between their statements: `CountInv` says of every counter which messages it has
  counted, and which are still to be counted by whom (`CountsOK`). The sum over the channels is
  compared with the messages by adding one channel at a time.
- `FramePath_proofs`, from `FramePathAssumption`. The first invariant says that every row, queue item and frame
  carries (`Carries`) a member of `Source`: the encodings of the rows at the nodes that posted them
  and of foreign messages. Round-trip lemmas (`DictRoundTrip`, `RowRoundTrip`,
  `RequestRoundTrip`, `NormalTwice`) show that no conversion leaves `Source`, and `SourceUnique`
  that an id names one member. `SameBytes` and `SameRows` follow for any number of nodes,
  messages, pieces and relays. `StopInv` adds that what a node queues can be rebuilt, unless it is a
  foreign message of a channel with capitals or names a callsign with a comma, and that a vector claims only
  what its sender stores. Its core is `SVECParses`: the entries of a vector, joined with commas
  and colons, split at commas and at the last colon, are the entries again, when no callsign has a comma;
  colons in callsigns do no harm.
- `ApiStream_proofs`, from `StreamAssumption` and `ClientAssumption`. `CasterOK` says where a broadcast has got to: the clients before
  the next one have the call's message or are gone, those after it have not, and only the holder of wsMu writes.
  Calls are then written one at a time, so that any two clients see one order. `OneOrder` says besides that a message
  is broadcast again only as often as its mark was missing: a message without a mark, and not just being posted, has been
  broadcast no more often than that.
  `WithoutKeepsOthers` is the loop that removes failed clients by index from the back: for any
  ascending indexes it leaves exactly the others. `Refinement`: every connection implements `ClientStream`.
- `DisplayApp_proofs`, from `DisplayAssumption`. The list shown covers its channel (`Covers`): what it lacks is in the
  bounded channel, not read yet, being broadcast, or in `missed` (not brought by the stream, or left out by the limit). It is kept because an answer to
  GetMessages covers its channel from the moment the daemon makes it until `OnEnter` uses it
  (`CallOK`), while the stream goes on; `ShownBelongs` needs that main is blocked in a request of the
  screen it shows.
- `ConfigStore_proofs`, from `ConfigAssumption` (bodies and files are configurations, texts are ASCII, the first
  file has a callsign). `Settled` is strengthened by `Alone`: a POST that no other request has overlapped has
  assigned exactly the fields its position says (`Progress`), and nobody else is under way.
  `Named` needs the types of what requests carry (`RequestsOK`, `Shown`). `FramesName` is the codec:
  `Ax25RoundTrip` for frames with any number of digipeaters and any payload (`IsEncoding` says which byte
  stands where; the extension bit ends the addresses at the right one; blanks pad what has no blanks), and
  `FullCallsignParses`: the number after the dash, written by `Itoa` and read by `Atoi`, is the SSID.

The library's induction principles take an operator and cannot be used here. Induction over numbers is done with sets instead:
`SmallestNumber` gets a least element from the library's theorem that strict inclusion of finite sets is well-founded (0..x orders the
numbers), and `NumbersByInduction` follows, and from it, by length, `SequencesByInduction`. Recursive functions (`Itoa`, `FlattenSeq`, the joined text) are
shown to exist and then followed step by step (`StepByStep`).

Only model-checked: `Convergence`, `Quiescence`, `Settles`, `ReassembledAfterLoss`,
`BackOnline` and both `LockGivenBack`, since liveness under fairness is outside the prover. All invariants,
action properties and refinements that the passing runs check are proved.

## Findings

- `txq_unbuildable` — MSGFromDict's nil `*MSG` in a `Frame` interface is not
  nil; the daemon panics, and again after each restart, for cleanup makes the
  row pend again. Other rows do settle in between (`Settles`). `OnlyForeignStops`
  of `FramePath` says which rows these are: relayed messages of a channel with capitals, and SVECs of a node
  that knows a callsign with a comma.

Disagreements met while modelling that have no run of their own:

- handleMSG drops SaveMessage's boolean (daemon.go:133): a message whose seen entry has expired, or that comes
  after a restart, is notified and rebroadcast again (`OncePerMark` counts how often). docs/rfmp-rfc.txt:866 "A message MUST be processed (stored,
  forwarded) only once."; :888 "The seen cache MAY be discarded on restart; the persistent store ensures no
  duplicate processing." It also notifies clients when the INSERT failed (`HearMessage` of `ApiStream`). The echo of a post that is heard between
  QueueTransmission and MarkSeen (daemon.go:441, :444) is notified a second time too.
- Marks of fragments last an hour, collectors minutes. After two losses the marks may expire at different
  times for ever, and a message that is repeated without further loss is never put together: with `[](faults <= 2)` in
  its place `ReassembledAfterLoss` is violated. A tick that sweeps the old collector between the two statements of handleFRAG has the effect
  of a second loss, and the property is stated for a pace at which none does. docs/rfmp-rfc.txt:884 "The cache is an
  optimization, not a correctness requirement." `Convergence` of `RfmpSync`, where a message is one frame,
  is therefore a promise about messages that need no fragments.
- After one FEND too many between two frames DecodeFrames reads between the wrong FENDs for the rest of the
  connection, and every frame is lost, though none is ever mixed (`LinkRefinement` holds for any number of FENDs).
  docs/rfmp-rfc.txt:847 "Discard leading FEND bytes (consecutive FENDs between frames are permitted and carry no data)."
  A TNC that sends none, or an even number, is not affected: `NoneLost` speaks of frames that are sent when no frame
  has begun, and without that condition `tnc_link` refutes it.
- DeleteChannel counts and then deletes without the lock (database.go:603, :609): openapi.yaml:168 "Deletes a channel
  only if it has no messages." A message saved in between keeps its row and loses its channel's
  (`disturbed` in `CountsExact`).
- handlers.go:367 "Merge: only override fields the client sends (non-zero)" — SSID and OfflineMode are always overwritten, so a save
  on the display's settings screen turns OfflineMode off. An SSID above 15 is taken (README.md:149 says 0-15), and CreateUIFrame
  then fails on every frame; so does a callsign that PUT does not check. A PUT that is followed by a POST
  /config/callsign before its restart is lost. `-sim` changes the configuration in memory, and SetCallsign
  saves that to the file.
- Two POSTs of the callsign at once may leave the file, the memory and the frames with different stations
  until the next change (`Settled` is about what that repairs).
- docs/rfmp-rfc.txt 5.1 derives ids from `from_node`; SendMessage takes the author when the client gives one (daemon.go:384), so
  that one author who posts one text in one second at two nodes makes two messages with one id.
  The models assume disjoint ids.
- The row at the origin keeps `reply_to` as the client wrote it; all other rows have 12 lower-case digits or
  nothing (`Meaning` in `RowsAgree`).
- README.md:240 "Messages sent from either interface appear in both in real-time." — not those that the display's channel
  of 64 had no room for, or that came while it reconnected, until the channel is opened again (`missed`); and of a channel with
  more than 50 messages the older ones not at all (ui_timeline.go:18).
- GetVectorClock leaves out an origin whose message 1 is missing and handleSVEC takes its origins from the vectors, so that
  messages held beyond such a gap are not pushed to a node that has nothing (RFC 9.2 (3)); handleSVEC pushes rows above
  the remote's number without comparing clocks, so also when its own contiguous clock is not ahead (RFC 9.2 (2)c).
- A collector that is complete and does not decode stays until it expires and refuses further
  fragments (RFC 8.2 (5)c: discard it); a body of 10000 bytes at a threshold of 50 needs about
  290 fragments, which are queued and sent and which `fragFromPB` refuses (RFC 8.1 (3) wants the API to
  reject it).

## What is not modelled

In the plan: `SendFrame`'s copy of the connection, and the queue within the network of daemons.
Left out for good: drawing, keys' debouncing, GPIO and the LED goroutine of the display, and the web page (output
only; the page is one more client of `ClientStream`), the RF simulator (a test harness whose losses the models already allow),
the random delays of `internal/timing` (no order of frames is promised), the generated protobuf code,
static files, CORS and method checks of the API, command-line flags, packaging and board files, logging and its rotation.
