------------------------------- MODULE TncLink -------------------------------
(* The daemon's TCP connection to the Direwolf TNC: the receive side of     *)
(* internal/network/direwolf.go and the KISS framing of kiss.go.            *)
(*                                                                          *)
(* TCP is a stream: a Read returns any number of the bytes under way, and   *)
(* KISSProtocol.buffer keeps what is left of a frame.  A byte is FEND,      *)
(* FESC, TFEND, TFESC or another one.  A KISS frame holds an AX.25 frame,   *)
(* which is a sequence of bytes here; those in Ignored are no UI frames of  *)
(* no layer 3 protocol, and receiveLoop drops them.  Ports are left out.    *)
EXTENDS Naturals, Sequences, SequencesExt

CONSTANTS
  Ax25Frame,   \* the frames that the TNC may hear on the radio
  Ignored,     \* those that are too short, or not UI, or of another protocol
  IdleFends,   \* how many FENDs the TNC may send at once between frames
  MaxIdle,     \* bound on how often it does
  MaxFrames,   \* bound on frames
  MaxBreaks    \* bound on losses of the connection

FEND  == "C0"
FESC  == "DB"
TFEND == "DC"
TFESC == "DD"
KISSDataFrame == "00"
Byte == {FEND, FESC, TFEND, TFESC, KISSDataFrame, "41"}

ASSUME LinkAssumption ==
  /\ Ax25Frame \subseteq Seq(Byte) /\ Ignored \subseteq Ax25Frame
  /\ IdleFends \subseteq Nat /\ MaxIdle \in Nat
  /\ MaxFrames \in Nat /\ MaxBreaks \in Nat

VARIABLES
  conn,    \* dc.conn: "none" (nil), "open", "silent" (the TNC has vanished and
           \* nothing tells), or "broken" (the socket has an error to report)
  wire,    \* bytes sent by the TNC and not yet read
  buffer,  \* KISSProtocol.buffer
  got,     \* history: what OnFrame was given
  frames, idles, breaks   \* history: how many so far

linkVars == <<conn, wire, buffer, got, frames, idles, breaks>>

-----------------------------------------------------------------------------
\* KISSFrame.Encode.
Escape(b) == CASE b = FEND -> <<FESC, TFEND>>
               [] b = FESC -> <<FESC, TFESC>>
               [] OTHER    -> <<b>>

Encode(f) ==
  LET content == <<KISSDataFrame>> \o f IN
  <<FEND>> \o FlattenSeq([i \in DOMAIN content |-> Escape(content[i])]) \o <<FEND>>

(* The unescaping of DecodeKISSFrame: FESC and the byte after it stand for  *)
(* one byte, what follows the FESC tells which.                             *)
ValidEscapes(s) ==
  \A i \in DOMAIN s : s[i] = FESC => i < Len(s) /\ s[i + 1] \in {TFEND, TFESC}

Unescaped(s, i) ==
  IF s[i] = FESC THEN <<>>
  ELSE IF i > 1 /\ s[i - 1] = FESC THEN <<IF s[i] = TFEND THEN FEND ELSE FESC>>
  ELSE <<s[i]>>

Unescape[s \in Seq(Byte)] == FlattenSeq([i \in DOMAIN s |-> Unescaped(s, i)])

(* DecodeKISSFrame: one frame, or none.  The low half of the command byte   *)
(* is 0, which is also true of C0 (port 12).                                *)
DecodeKISSFrame[data \in Seq(Byte)] ==
  IF /\ data # <<>> /\ ValidEscapes(data)
     /\ Unescape[data][1] \in {KISSDataFrame, FEND}
  THEN <<Tail(Unescape[data])>>
  ELSE <<>>

(* DecodeFrames drops what is before a FEND, looks for the next one, takes  *)
(* what is between them for a frame, and goes on behind the second.  Where  *)
(* the frame begins that has not ended is startIdx, or 0 if there is none.  *)
StartIdx[b \in Seq(Byte)] ==
  LET start[i \in 0 .. Len(b)] ==
        IF i = 0 THEN 0
        ELSE IF b[i] # FEND THEN start[i - 1]
        ELSE IF start[i - 1] = 0 THEN i ELSE 0
  IN start[Len(b)]

\* Mutant: one frame for one call.
RestOfFirst(b) ==
  LET ends == {j \in DOMAIN b : b[j] = FEND /\ \E i \in 1 .. j - 1 : b[i] = FEND}
  IN IF ends = {} THEN b ELSE SubSeq(b, Min(ends) + 1, Len(b))

\* Mutant: what is no whole frame is dropped at the end of a call.
RestDropped(b) == <<>>

\* What stays in the buffer.
Rest(b) == IF StartIdx[b] = 0 THEN <<>> ELSE SubSeq(b, StartIdx[b], Len(b))

\* The frame that byte i ends, which is none unless one has begun before.
Ended(b, i) ==
  LET start == StartIdx[SubSeq(b, 1, i - 1)] IN
  IF b[i] = FEND /\ start # 0 THEN DecodeKISSFrame[SubSeq(b, start + 1, i - 1)] ELSE <<>>

DecodeFrames[b \in Seq(Byte)] == FlattenSeq([i \in DOMAIN b |-> Ended(b, i)])

(* What receiveLoop hands to OnFrame: those that DecodeAX25Frame takes, and *)
(* that have the control byte and the PID of the protocol.                  *)
Handed[fs \in Seq(Seq(Byte))] ==
  FlattenSeq([i \in DOMAIN fs |-> IF fs[i] \in Ignored THEN <<>> ELSE <<fs[i]>>])

-----------------------------------------------------------------------------
LinkInit ==
  /\ conn = "none" /\ wire = <<>> /\ buffer = <<>> /\ got = <<>>
  /\ frames = 0 /\ idles = 0 /\ breaks = 0

\* Mutant: without kiss.Reset.
ConnectKeepsBuffer ==
  /\ conn = "none"
  /\ conn' = "open" /\ wire' = <<>>
  /\ UNCHANGED <<buffer, got, frames, idles, breaks>>

\* Run dials until it succeeds; connect then resets the KISS decoder.
Connect ==
  /\ conn = "none"
  /\ conn' = "open" /\ wire' = <<>> /\ buffer' = <<>>
  /\ UNCHANGED <<got, frames, idles, breaks>>

TncSends(f) ==
  /\ conn = "open" /\ frames < MaxFrames
  /\ wire' = wire \o Encode(f)
  /\ frames' = frames + 1
  /\ UNCHANGED <<conn, buffer, got, idles, breaks>>

TncSendsFends(n) ==
  /\ conn = "open" /\ idles < MaxIdle
  /\ wire' = wire \o [i \in 1 .. n |-> FEND]
  /\ idles' = idles + 1
  /\ UNCHANGED <<conn, buffer, got, frames, breaks>>

\* The TNC closes or crashes, or the path to it goes: any tail is lost.
Break ==
  /\ conn = "open" /\ breaks < MaxBreaks
  /\ conn' \in {"silent", "broken"}
  /\ \E k \in 0 .. Len(wire) : wire' = SubSeq(wire, 1, k)
  /\ breaks' = breaks + 1
  /\ UNCHANGED <<buffer, got, frames, idles>>

(* Only a write tells of a TNC that has vanished: SendFrame returns nil,    *)
(* and later the kernel gives the bytes up and the socket has an error.     *)
WriteTimesOut ==
  /\ conn = "silent"
  /\ conn' = "broken"
  /\ UNCHANGED <<wire, buffer, got, frames, idles, breaks>>

\* receiveLoop: Read returns k bytes, and every frame in them is handed on.
Read(k) ==
  LET b == buffer \o SubSeq(wire, 1, k) IN
  /\ conn # "none" /\ k <= Len(wire)
  /\ wire' = SubSeq(wire, k + 1, Len(wire))
  /\ buffer' = Rest(b)
  /\ got' = got \o Handed[DecodeFrames[b]]
  /\ UNCHANGED <<conn, frames, idles, breaks>>

\* Mutant: any error is taken for the timeout of the read deadline.
ReadErrorContinues ==
  /\ conn = "broken" /\ wire = <<>>
  /\ UNCHANGED linkVars

\* Nothing comes within the read deadline of a second: receiveLoop goes on.
ReadTimeout == conn \in {"open", "silent"} /\ wire = <<>> /\ UNCHANGED linkVars

\* Read fails: close, and back to Run.
ReadError ==
  /\ conn = "broken" /\ wire = <<>>
  /\ conn' = "none"
  /\ UNCHANGED <<wire, buffer, got, frames, idles, breaks>>

LinkNext ==
  \/ Connect
  \/ \E f \in Ax25Frame : TncSends(f)
  \/ \E n \in IdleFends : TncSendsFends(n)
  \/ Break
  \/ WriteTimesOut
  \/ \E k \in 1 .. Len(wire) : Read(k)
  \/ ReadTimeout
  \/ ReadError

LinkSpec == LinkInit /\ [][LinkNext]_linkVars

(* The receive goroutine runs, dialling succeeds some time after the TNC is *)
(* back, and syncLoop has SVECs written, so that a write tells of a loss.   *)
LinkFairness ==
  /\ WF_linkVars(Connect) /\ WF_linkVars(ReadError) /\ WF_linkVars(WriteTimesOut)
  /\ WF_linkVars(\E k \in 1 .. Len(wire) : Read(k))

FairLinkSpec == LinkSpec /\ LinkFairness

-----------------------------------------------------------------------------
Worth == Ax25Frame \ Ignored   \* what is handed on when it is heard

LinkTypeOK ==
  /\ conn \in {"none", "open", "silent", "broken"}
  /\ wire \in Seq(Byte) /\ buffer \in Seq(Byte)
  /\ got \in Seq(Worth)
  /\ frames \in 0 .. MaxFrames /\ idles \in 0 .. MaxIdle /\ breaks \in 0 .. MaxBreaks

(* DecodeFrames leaves at most one frame that has begun and not ended in    *)
(* the buffer: a frame that is complete is not held back until more bytes   *)
(* come.  Only UI frames of the stream are handed on (LinkTypeOK).          *)
BufferIsOneBeginning ==
  /\ LinkTypeOK
  /\ \A i \in DOMAIN buffer : buffer[i] = FEND <=> i = 1

(* However the stream is cut into reads and wherever a connection ends, the *)
(* daemon gets whole frames, as they were sent, in order, none twice and    *)
(* none made up of the halves of two (Encode, DecodeFrames, Reset).         *)
Queue == Handed[DecodeFrames[buffer \o wire]]
Channel == INSTANCE FrameChannel WITH Frame <- Worth, queue <- Queue
ImplementsFrameChannel == Channel!Spec

(* As long as a connection lasts, no frame disappears, whatever is read and *)
(* when; and a UI frame that is sent when no frame has begun is one more    *)
(* (Encode, DecodeFrames, receiveLoop).                                     *)
Heard == got \o Queue
NoneLost == [][
  /\ conn' = conn /\ frames' = frames => Heard' = Heard
  /\ \A f \in Worth :
       TncSends(f) /\ Rest(buffer \o wire) = <<>> => Heard' = Append(Heard, f)]_linkVars

(* However the connection is lost, the daemon gets one again (Run,          *)
(* receiveLoop, close).                                                     *)
BackOnline == conn # "open" ~> conn = "open"
=============================================================================
