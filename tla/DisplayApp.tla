----------------------------- MODULE DisplayApp -----------------------------
(* The handheld display (cmd/rfmp-display), a client of the stream of a     *)
(* daemon.  Two goroutines: WSClient.connectLoop, which reads the stream    *)
(* into a bounded channel and drops what does not fit, and main, which      *)
(* takes keys and messages in turn and blocks in every HTTP request.  An    *)
(* answer is made by the daemon at one moment and used at a later one, and  *)
(* holds no more than the newest messages of a channel.  The daemon may     *)
(* broadcast a message again (ApiStream).  The settings screen is in        *)
(* ConfigStore.                                                             *)
EXTENDS Integers, Sequences, SequencesExt, FiniteSets

CONSTANTS
  Message,
  Name,        \* names of channels
  ChannelOf,   \* the channel of each message
  Second,      \* what received_at may be: the system clock, in whole seconds
  Limit,       \* what TimelineScreen.OnEnter asks for (50 in the code)
  Cap,         \* capacity of WSClient.messages (64 in the code)
  MaxCasts,    \* bound on the calls of BroadcastMessage
  MaxDials     \* bound on the connections the display makes

ASSUME DisplayAssumption ==
  /\ IsFiniteSet(Name)
  /\ \A m \in Message : ChannelOf[m] \in Name
  /\ Second \subseteq Nat \ {0}
  /\ Limit \in Nat \ {0} /\ Cap \in Nat \ {0}
  /\ MaxCasts \in Nat /\ MaxDials \in Nat

Call == 1 .. MaxCasts

NoName == ""

VARIABLES
  casts,       \* history: the message of each call of BroadcastMessage
  casting,     \* the calls that have not ended
  line,        \* the connection: "none", "dialled", "up", or "gone" without
               \* the display's knowing
  got,         \* the calls whose message reached its socket
  received,    \* received_at of the messages that have a row, 0 of the others
  rows,        \* the rows of table channels
  nread,       \* how much of got readLoop has read
  dials,       \* connections made so far
  queue,       \* WSClient.messages
  screen,      \* App.current
  call,        \* the HTTP request that main is blocked in
  channel,     \* App.channel
  shown,       \* App.messages, newest first
  listed,      \* App.channels
  selected,    \* ChannelListScreen.selected, from 1
  stale,       \* history: the last GetMessages failed
  missed       \* history: messages that the stream did not bring, or that an
               \* answer had no place for, since they were last loaded

handled == ToSet(casts)
saved   == {m \in Message : received[m] # 0}

Stream == INSTANCE ClientStream WITH begun <- DOMAIN casts

daemonVars == <<casts, casting, line, got, received, rows>>
appVars == <<screen, call, channel, shown, listed, selected, stale>>
wsVars  == <<nread, dials, queue>>
vars    == <<daemonVars, wsVars, appVars, missed>>

NoCall == [op |-> "none"]
Ask(op, arg) == [op |-> op, arg |-> arg, at |-> "sent", list |-> <<>>, cast |-> 0]
Entry(ch, e) == [name |-> ch, empty |-> e]
Entries == [name : Name, empty : BOOLEAN]

Calls == [op   : {"channels", "messages", "post", "create", "delete"},
          arg  : Name \cup {NoName},
          at   : {"sent", "served", "answered"},
          list : Seq(Message) \cup Seq(Entries),   \* what a GET was answered
          cast : Call \cup {0}]                    \* what a POST waits for

Stored(ch)  == {m \in saved : ChannelOf[m] = ch}
Of(calls)   == {casts[b] : b \in calls}
UnreadCalls == ToSet(SubSeq(got, nread + 1, Len(got)))

TypeOK ==
  /\ casts \in Seq(Message) /\ Len(casts) <= MaxCasts
  /\ casting \subseteq DOMAIN casts
  /\ received \in [Message -> Second \cup {0}] /\ saved \subseteq handled
  /\ line \in {"none", "dialled", "up", "gone"}
  /\ got \in Seq(DOMAIN casts) /\ nread \in 0 .. Len(got)
  /\ rows \subseteq Name /\ dials \in 0 .. MaxDials
  /\ queue \in Seq(handled) /\ Len(queue) <= Cap
  /\ screen \in {"channels", "timeline", "compose", "create"}
  /\ call \in Calls \cup {NoCall}
  /\ channel \in Name \cup {NoName}
  /\ shown \in Seq(handled)
  /\ listed \in Seq(Entries) /\ selected \in Nat \ {0}
  /\ stale \in BOOLEAN /\ missed \subseteq handled

\* main: ws.Connect, and the list of channels is asked for.
Init ==
  /\ casts = <<>> /\ Stream!Init
  /\ received = [m \in Message |-> 0] /\ rows = {} /\ nread = 0 /\ dials = 0 /\ queue = <<>>
  /\ screen = "channels" /\ call = Ask("channels", NoName)
  /\ channel = NoName /\ shown = <<>> /\ listed = <<>> /\ selected = 1
  /\ stale = FALSE /\ missed = {}

-----------------------------------------------------------------------------
(* The daemon.                                                              *)

\* A message comes in, and a call of BroadcastMessage will bring it.
Enters(m) ==
  /\ Len(casts) < MaxCasts
  /\ casts' = Append(casts, m)
  /\ Stream!Begin(Len(casts'))
  /\ UNCHANGED <<wsVars, missed>>

\* Its row, unless it has one, and its channel's.
Saved(m) ==
  /\ rows' = rows \cup {ChannelOf[m]}
  /\ IF m \in saved THEN UNCHANGED received
     ELSE \E now \in Second : received' = [received EXCEPT ![m] = now]

(* handleMSG or another client's POST.  A message comes again when its mark *)
(* in seen_cache is missing; the INSERT may fail.                           *)
Arrives(m) ==
  /\ Enters(m)
  /\ Saved(m) \/ UNCHANGED <<received, rows>>
  /\ UNCHANGED appVars

(* Other clients create and delete channels, and so do requests that the    *)
(* display has given up.                                                    *)
OthersChange(ch) ==
  /\ \/ rows' = rows \cup {ch}
     \/ Stored(ch) = {} /\ rows' = rows \ {ch}
  /\ UNCHANGED <<casts, casting, line, got, received, wsVars, appVars, missed>>

Bring(b) ==
  /\ UNCHANGED casts /\ Stream!Bring(b)
  /\ UNCHANGED <<received, rows, wsVars, appVars, missed>>

\* The end of a broadcast; a POST of the display that waits for it is answered.
End(b) ==
  /\ UNCHANGED casts /\ Stream!End(b)
  /\ missed' = IF b \in ToSet(got) THEN missed ELSE missed \cup {casts[b]}
  /\ call' = IF call.op = "post" /\ call.at = "served" /\ call.cast = b
             THEN [call EXCEPT !.at = "answered"] ELSE call
  /\ UNCHANGED <<received, rows, wsVars, screen, channel, shown, listed, selected, stale>>

\* handleStream puts the connection on the list; the network cuts it.
LineMoves ==
  /\ UNCHANGED casts /\ (Stream!Listed \/ Stream!Lost)
  /\ UNCHANGED <<received, rows, wsVars, appVars, missed>>

Answered(list) == call' = [call EXCEPT !.at = "answered", !.list = list]
Sent(op) == call # NoCall /\ call.op = op /\ call.at = "sent"

\* getChannelsList, getMessages: what the tables hold at that moment.
AnswerChannels ==
  /\ Sent("channels")
  /\ Answered(SetToSeq({Entry(ch, Stored(ch) = {}) : ch \in rows}))
  /\ UNCHANGED <<rows, missed>>

(* GetRecentMessages: ORDER BY received_at DESC LIMIT.  Those of one second *)
(* are in any order.                                                        *)
Newest(ch) ==
  {list \in SeqOf(Stored(ch), Limit) :
     /\ IsInjective(list)
     /\ Len(list) = Limit \/ ToSet(list) = Stored(ch)
     /\ \A i, j \in DOMAIN list : i < j => received[list[j]] <= received[list[i]]
     /\ \A i \in DOMAIN list : \A m \in Stored(ch) \ ToSet(list) :
          received[m] <= received[list[i]]}

AnswerMessages ==
  /\ Sent("messages")
  /\ \E list \in Newest(call.arg) :
       Answered(list) /\ missed' = missed \cup (Stored(call.arg) \ ToSet(list))
  /\ UNCHANGED rows

AnswerCreate ==
  /\ Sent("create")
  /\ rows' = rows \cup {call.arg}
  /\ Answered(<<>>)
  /\ UNCHANGED missed

\* handleChannelByName: 200, 404 or 409.
AnswerDelete ==
  /\ Sent("delete")
  /\ rows' = IF Stored(call.arg) = {} THEN rows \ {call.arg} ELSE rows
  /\ Answered(<<>>)
  /\ UNCHANGED missed

Answer ==
  /\ AnswerChannels \/ AnswerMessages \/ AnswerCreate \/ AnswerDelete
  /\ UNCHANGED <<casts, casting, line, got, received, wsVars>>
  /\ UNCHANGED <<screen, channel, shown, listed, selected, stale>>

\* postMessage of what the display sends; the answer waits for the broadcast.
ServePost(m) ==
  /\ Sent("post") /\ ChannelOf[m] = call.arg
  /\ m \notin handled
  /\ Enters(m) /\ Saved(m)
  /\ call' = [call EXCEPT !.at = "served", !.cast = Len(casts')]
  /\ UNCHANGED <<screen, channel, shown, listed, selected, stale>>

-----------------------------------------------------------------------------
(* WSClient.                                                                *)

\* connectLoop: Dial.  An attempt that fails only waits and tries again.
Dial ==
  /\ dials < MaxDials
  /\ UNCHANGED casts /\ Stream!Dial
  /\ dials' = dials + 1
  /\ UNCHANGED <<received, rows, nread, queue, appVars, missed>>

Incoming == casts[got[nread + 1]]

\* readLoop: a message goes into the channel, or is dropped if it is full.
Read ==
  /\ nread < Len(got)
  /\ nread' = nread + 1
  /\ IF Len(queue) < Cap
     THEN queue' = Append(queue, Incoming) /\ UNCHANGED missed
     ELSE missed' = missed \cup {Incoming} /\ UNCHANGED queue
  /\ UNCHANGED <<daemonVars, dials, appVars>>

(* readLoop ends with an error, whatever end the connection came to;        *)
(* connectLoop closes it and dials again.  What was on the way is lost.     *)
LinkBreaks ==
  /\ line # "none"
  /\ line' = "none" /\ got' = <<>> /\ nread' = 0
  /\ missed' = missed \cup Of(UnreadCalls)
  /\ UNCHANGED <<casts, casting, received, rows, dials, queue, appVars>>

-----------------------------------------------------------------------------
(* main and the screens.  Each step is a key, a message or the end of a     *)
(* request: no key is looked at while main is blocked in one.               *)

Ready(s) == call = NoCall /\ screen = s
daemon   == <<daemonVars, wsVars, missed>>

\* NewChannelListScreen and its OnEnter.
OpenChannels ==
  /\ screen' = "channels" /\ channel' = NoName /\ selected' = 1
  /\ call' = Ask("channels", NoName)
  /\ UNCHANGED <<daemon, shown, listed, stale>>

\* NewTimelineScreen and its OnEnter.
OpenTimeline(ch) ==
  /\ screen' = "timeline" /\ channel' = ch
  /\ call' = Ask("messages", ch)
  /\ UNCHANGED <<daemon, shown, listed, selected, stale>>

Opens(s) ==
  /\ screen' = s
  /\ UNCHANGED <<daemon, call, channel, shown, listed, selected, stale>>

Request(op, arg) ==
  /\ call' = Ask(op, arg)
  /\ UNCHANGED <<daemon, screen, channel, shown, listed, selected, stale>>

Chosen == listed[selected]

\* ChannelListScreen.HandleKey.
Select(i) ==
  /\ i \in 1 .. Len(listed)
  /\ selected' = i
  /\ UNCHANGED <<daemon, screen, call, channel, shown, listed, stale>>

KeyInChannels ==
  /\ Ready("channels")
  /\ \/ Select(selected + 1) \/ Select(selected - 1)
     \/ listed # <<>> /\ OpenTimeline(Chosen.name)
     \/ Opens("create")
     \/ listed # <<>> /\ Chosen.empty /\ Request("delete", Chosen.name)

\* CreateChannelScreen.HandleKey: Enter with a name, Enter without or Back.
KeyInCreate ==
  /\ Ready("create")
  /\ OpenChannels \/ \E ch \in Name : Request("create", ch)

\* TimelineScreen.HandleKey: Back, or the first letter of a message.
KeyInTimeline ==
  /\ Ready("timeline")
  /\ OpenChannels \/ Opens("compose")

\* ComposeScreen.HandleKey: Enter with a text, Enter without or Back.
KeyInCompose ==
  /\ Ready("compose")
  /\ OpenTimeline(channel) \/ Request("post", channel)

(* The end of a request: its answer or, before or after the daemon has done *)
(* it, an error (refused, or no answer in 5 seconds).                       *)
Ok == call.at = "answered"

\* Mutant: selected is left as it is.
ListLoadedUnclamped ==
  /\ call.op = "channels"
  /\ \/ Ok /\ listed' = call.list
     \/ UNCHANGED listed
  /\ call' = NoCall
  /\ UNCHANGED <<daemon, screen, channel, shown, selected, stale>>

\* ChannelListScreen.OnEnter.
ListLoaded ==
  /\ call.op = "channels"
  /\ \/ Ok /\ listed' = call.list
     \/ UNCHANGED listed
  /\ selected' = IF selected > Len(listed') THEN 1 ELSE selected
  /\ call' = NoCall
  /\ UNCHANGED <<daemon, screen, channel, shown, stale>>

\* Mutant: what waits in the channel is taken for old and thrown away.
TimelineLoadedAlone ==
  /\ call.op = "messages"
  /\ Ok /\ shown' = call.list /\ stale' = FALSE /\ missed' = missed \ ToSet(call.list)
  /\ call' = NoCall /\ queue' = <<>>
  /\ UNCHANGED <<daemonVars, nread, dials, screen, channel, listed, selected>>

\* TimelineScreen.OnEnter: after an error the old list stays.
TimelineLoaded ==
  /\ call.op = "messages"
  /\ \/ Ok /\ shown' = call.list /\ stale' = FALSE /\ missed' = missed \ ToSet(call.list)
     \/ stale' = TRUE /\ UNCHANGED <<shown, missed>>
  /\ call' = NoCall
  /\ UNCHANGED <<daemonVars, wsVars, screen, channel, listed, selected>>

\* ComposeScreen.send: the text is gone either way.
Posted  == call.op = "post" /\ OpenTimeline(channel)
Created == call.op = "create" /\ OpenChannels

\* 'd': OnEnter of the same screen, which keeps its selection.
Deleted ==
  /\ call.op = "delete"
  /\ channel' = NoName
  /\ call' = Ask("channels", NoName)
  /\ UNCHANGED <<daemon, screen, shown, listed, selected, stale>>

\* Mutant: no comparison of ids.
ShowTwice(m) == IF ChannelOf[m] = channel THEN <<m>> \o shown ELSE shown

\* App.onNewMessage.
onNewMessage(m) ==
  IF ChannelOf[m] = channel /\ m \notin ToSet(shown) THEN <<m>> \o shown ELSE shown

\* main's drainWS.
Drain ==
  /\ call = NoCall /\ queue # <<>>
  /\ shown' = onNewMessage(Head(queue))
  /\ queue' = Tail(queue)
  /\ UNCHANGED <<daemonVars, nread, dials, missed, screen, call, channel, listed, selected, stale>>

Key    == KeyInChannels \/ KeyInCreate \/ KeyInTimeline \/ KeyInCompose
Return == ListLoaded \/ TimelineLoaded \/ Posted \/ Created \/ Deleted
UI     == Key \/ Return \/ Drain

Next ==
  \/ \E m \in Message : Arrives(m) \/ ServePost(m)
  \/ \E b \in Call : Bring(b) \/ End(b)
  \/ \E ch \in Name : OthersChange(ch)
  \/ LineMoves \/ Answer
  \/ Dial \/ Read \/ LinkBreaks
  \/ UI

Spec == Init /\ [][Next]_vars

-----------------------------------------------------------------------------
Showing == call = NoCall /\ screen \in {"timeline", "compose"} /\ ~stale

(* A stored message of the channel on the screen is on the screen or on its *)
(* way to it, unless the stream could not bring it (it was broadcast while  *)
(* the display was not on the list, its connection broke, or its channel of *)
(* 64 was full) or it was too old: the channel's last 50 did not hold it    *)
(* when they were last loaded.  So OnEnter's snapshot and the stream leave  *)
(* no gap, and README.md:240 holds as far as the stream and the 50 do.      *)
NothingMissed ==
  Showing =>
    Stored(channel) \subseteq
      ToSet(shown) \cup ToSet(queue) \cup Of(UnreadCalls) \cup Of(casting) \cup missed

(* No message is shown twice, though a snapshot and the stream both bring   *)
(* it (onNewMessage compares ids).                                          *)
NoDuplicates == IsInjective(shown)

(* What is shown under the name of a channel belongs to it, whatever        *)
(* messages come while the user changes screens; a GetMessages that fails   *)
(* is the exception, since OnEnter keeps the list shown before.             *)
ShownBelongs == Showing => \A m \in ToSet(shown) : ChannelOf[m] = channel

(* The two together, of the list on the screen: onNewMessage takes only     *)
(* what is of its channel and not yet in it.                                *)
ShownRightly == NoDuplicates /\ ShownBelongs

(* Enter and 'd' index the list with a selection that is in it, also after  *)
(* channels were deleted (ChannelListScreen.HandleKey would panic).         *)
SelectedInRange == TypeOK /\ (Ready("channels") => listed = <<>> \/ selected <= Len(listed))
=============================================================================
