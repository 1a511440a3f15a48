----------------------------- MODULE ConfigStore -----------------------------
(* The configuration of one daemon: config.yaml, the Config in memory, the  *)
(* copy of the callsign in DirewolfClient, and those who change them:       *)
(* POST /config/callsign, PUT /config, the settings screen of the display,  *)
(* and restarts.  Nothing is locked: a handler that changes the callsign    *)
(* assigns four fields one by one and then saves; os.WriteFile empties the  *)
(* file before it writes it.                                                *)
(*                                                                          *)
(* host stands for all fields that PUT merges when they are not zero.       *)
EXTENDS Ax25

CONSTANTS
  Handler,     \* requests served at the same time
  Text,        \* callsigns that clients send
  Number,      \* SSIDs that they send
  Incoming,    \* bodies of PUT /config
  Unset,       \* the host of a body that sends none
  FirstConfig, \* the file the administrator wrote
  Nil,
  MaxChanges,  \* bound on the requests that change something
  MaxFaults    \* bound on crashes and failed writes

VARIABLES
  file,        \* config.yaml: a configuration, Empty or Garbled
  mem,         \* Daemon.Config, or Nil while the daemon is down
  radio,       \* DirewolfClient.Callsign and SSID
  pc,          \* what each request is about to do
  due,         \* a restart is due: "yes" or "no"
  fields,      \* SettingsScreen.fields, or Nil
  settled,     \* history: "yes" when the last change ran alone to its end
  changes,     \* history: requests so far that change something
  faults       \* history: crashes and failed writes so far

vars == <<file, mem, radio, pc, due, fields, settled, changes, faults>>

Empty   == [yaml |-> "empty"]
Garbled == [yaml |-> "garbled"]
Idle    == [at |-> "idle"]
N0CALL  == <<78, 48, 67, 65, 76, 76>>

DefaultConfig == [callsign |-> N0CALL, ssid |-> 0, offline |-> "off", host |-> "127.0.0.1"]
Identity(cfg) == [callsign |-> cfg.callsign, ssid |-> cfg.ssid]

\* strings.TrimSpace, and then ToUpper.
Trim(s) == LET ink == {i \in DOMAIN s : s[i] # Space} IN
           IF ink = {} THEN <<>> ELSE SubSeq(s, Min(ink), Max(ink))
Normal(s) == ToUpper(Trim(s))

\* callsignRegex.
IsCallsign(s) == Len(s) \in 1 .. 6 /\ ToSet(s) \subseteq Digits \cup Capitals

Config ==
  [callsign : Seq(Char), ssid : Int, offline : {"on", "off"},
   host : {in.host : in \in Incoming} \cup {FirstConfig.host, DefaultConfig.host}]

ASSUME ConfigAssumption ==
  /\ MaxChanges \in Nat /\ MaxFaults \in Nat
  /\ Incoming \subseteq Config /\ FirstConfig \in Config /\ FirstConfig.callsign # <<>>
  /\ Text \subseteq Seq(Char) /\ Nil \notin Config

TypeOK ==
  /\ file \in Config \cup {Empty, Garbled}
  /\ mem \in Config \cup {Nil}
  /\ radio \in [callsign : Seq(Char), ssid : Int]
  /\ \A p \in Handler :
       pc[p].at \in {"idle", "callsign", "ssid", "radio", "radioSsid", "marshal", "open", "write"}
  /\ due \in {"yes", "no"} /\ settled \in {"yes", "no"} /\ changes \in 0 .. MaxChanges /\ faults \in 0 .. MaxFaults

-----------------------------------------------------------------------------
(* Start and stop.                                                          *)

\* Mutant: an empty file is an empty configuration.
LoadZero(yaml) == IF yaml = Empty THEN [DefaultConfig EXCEPT !.callsign = <<>>] ELSE yaml

\* config.Load: what the file does not set keeps its default.
Load(yaml) == IF yaml = Empty THEN DefaultConfig ELSE yaml

Init ==
  /\ file = FirstConfig /\ mem = Load(file) /\ radio = Identity(mem)
  /\ pc = [p \in Handler |-> Idle]
  /\ due = "no" /\ fields = Nil /\ settled = "yes" /\ changes = 0 /\ faults = 0

Stop ==
  /\ mem' = Nil /\ due' = "no"
  /\ pc' = [p \in Handler |-> Idle]
  /\ UNCHANGED <<file, radio, fields, settled, changes>>

\* systemctl restart, half a second after a PUT was answered.
Restart == mem # Nil /\ due = "yes" /\ Stop /\ UNCHANGED faults

Crash == mem # Nil /\ faults < MaxFaults /\ faults' = faults + 1 /\ Stop

\* Mutant: the link keeps the callsign it had.
StartKeepsRadio ==
  /\ mem = Nil /\ file # Garbled
  /\ mem' = Load(file)
  /\ settled' = IF file = Empty THEN "no" ELSE "yes"
  /\ UNCHANGED <<file, radio, pc, due, fields, changes, faults>>

(* main: Load, then daemon.New with a DirewolfClient for this callsign.  A  *)
(* file that is not YAML ends the program, again and again.                 *)
Start ==
  /\ mem = Nil /\ file # Garbled
  /\ mem' = Load(file)
  /\ radio' = Identity(mem')
  /\ settled' = IF file = Empty THEN "no" ELSE "yes"
  /\ UNCHANGED <<file, pc, due, fields, changes, faults>>

-----------------------------------------------------------------------------
(* SetCallsign and SaveToFile, statement by statement.                      *)

Goes(p, step) == pc' = [pc EXCEPT ![p] = step]
Then(p, at)   == Goes(p, [pc[p] EXCEPT !.at = at])
Active        == {p \in Handler : pc[p] # Idle}

(* A change begins; it runs alone if no other is under way, and the rest    *)
(* then no longer do.                                                       *)
Begin(p, step) ==
  /\ mem # Nil /\ pc[p] = Idle
  /\ changes < MaxChanges /\ changes' = changes + 1
  /\ settled' = "no"
  /\ pc' = [q \in Handler |-> IF q = p THEN step
                              ELSE IF pc[q] = Idle THEN Idle
                              ELSE [pc[q] EXCEPT !.alone = FALSE]]

\* handleCallsign: what is not a callsign or an SSID is refused.
PostCallsign(p, text, number) ==
  /\ IsCallsign(Normal(text)) /\ number \in 0 .. 15
  /\ Begin(p, [at |-> "callsign", id |-> [callsign |-> Normal(text), ssid |-> number],
               put |-> "no", alone |-> Active = {}])
  /\ UNCHANGED <<file, mem, radio, due, fields, faults>>

SetCallsign(p) ==
  /\ \/ /\ pc[p].at = "callsign" /\ Then(p, "ssid")
        /\ mem' = [mem EXCEPT !.callsign = pc[p].id.callsign] /\ UNCHANGED radio
     \/ /\ pc[p].at = "ssid" /\ Then(p, "radio")
        /\ mem' = [mem EXCEPT !.ssid = pc[p].id.ssid] /\ UNCHANGED radio
     \/ /\ pc[p].at = "radio" /\ Then(p, "radioSsid")
        /\ radio' = [radio EXCEPT !.callsign = mem.callsign] /\ UNCHANGED mem
     \/ /\ pc[p].at = "radioSsid" /\ Then(p, "marshal")
        /\ radio' = [radio EXCEPT !.ssid = pc[p].id.ssid] /\ UNCHANGED mem
  /\ UNCHANGED <<file, due, fields, settled, changes, faults>>

\* SaveToFile: yaml.Marshal, and os.WriteFile, which opens with O_TRUNC.
Marshal(p) ==
  /\ pc[p].at = "marshal"
  /\ Goes(p, [at |-> "open", data |-> mem, put |-> "no", alone |-> pc[p].alone])
  /\ UNCHANGED <<file, mem, radio, due, fields, settled, changes, faults>>

Open(p) ==
  /\ pc[p].at = "open"
  /\ file' = Empty
  /\ Then(p, "write")
  /\ UNCHANGED <<mem, radio, due, fields, settled, changes, faults>>

(* Two writers may both have emptied the file: the second writes over the   *)
(* text of the first, and what was longer shows behind it.                  *)
Over(data) == IF file \in {Empty, data} THEN {data} ELSE {data, Garbled}

Answered(p) ==
  /\ Goes(p, Idle)
  /\ due' = IF pc[p].put = "yes" THEN "yes" ELSE due

Write(p) ==
  /\ pc[p].at = "write"
  /\ file' \in Over(pc[p].data)
  /\ settled' = IF pc[p].alone /\ pc[p].put = "no" THEN "yes" ELSE "no"
  /\ Answered(p)
  /\ UNCHANGED <<mem, radio, fields, changes, faults>>

\* The disk is full: SetCallsign logs it, PUT answers 500.
WriteFails(p) ==
  /\ pc[p].at = "write" /\ faults < MaxFaults
  /\ Goes(p, Idle)
  /\ faults' = faults + 1
  /\ UNCHANGED <<file, mem, radio, due, fields, settled, changes>>

-----------------------------------------------------------------------------
(* PUT /config.                                                             *)

\* SSID and OfflineMode are overwritten, sent or not.
Merge(cfg, in) ==
  [callsign |-> IF in.callsign # <<>> THEN Normal(in.callsign) ELSE cfg.callsign,
   ssid |-> in.ssid, offline |-> in.offline,
   host |-> IF in.host # Unset THEN in.host ELSE cfg.host]

\* handleConfig: merged into a copy; memory only changes by the restart.
PutConfig(p, in) ==
  LET merged == Merge(mem, in) IN
  /\ mem # Nil /\ merged.callsign # <<>>
  /\ Begin(p, [at |-> "open", data |-> merged, put |-> "yes", alone |-> Active = {}])
  /\ UNCHANGED <<file, mem, radio, due, fields, faults>>

-----------------------------------------------------------------------------
(* The settings screen of the display.                                      *)

\* OnEnter: GET /config, or an error.
OnEnter ==
  /\ fields' = IF mem = Nil THEN Nil
               ELSE [callsign |-> mem.callsign, ssid |-> Itoa(mem.ssid), host |-> mem.host]
  /\ UNCHANGED <<file, mem, radio, pc, due, settled, changes, faults>>

\* handleEditKey: any text in any field.
Edit ==
  /\ fields # Nil
  /\ \/ \E s \in Text : fields' = [fields EXCEPT !.callsign = s]
     \/ \E s \in Text : fields' = [fields EXCEPT !.ssid = s]
  /\ UNCHANGED <<file, mem, radio, pc, due, settled, changes, faults>>

\* save: what is no number becomes 0; OfflineMode is never sent.
Sent == [callsign |-> fields.callsign, ssid |-> IF IsNumber(fields.ssid) THEN Atoi(fields.ssid) ELSE 0,
         offline |-> "off", host |-> fields.host]

Save(p) == fields # Nil /\ PutConfig(p, Sent)

Next ==
  \/ \E p \in Handler :
       \/ \E s \in Text, n \in Number : PostCallsign(p, s, n)
       \/ \E in \in Incoming : PutConfig(p, in)
       \/ SetCallsign(p) \/ Marshal(p) \/ Open(p) \/ Write(p) \/ WriteFails(p)
       \/ Save(p)
  \/ OnEnter \/ Edit
  \/ Restart \/ Crash \/ Start

Spec == Init /\ [][Next]_vars

-----------------------------------------------------------------------------
(* Once a POST /config/callsign has run alone to its end, or a start has    *)
(* loaded a whole file, the file, the memory and the frames of this node    *)
(* name one callsign, whatever overlapping requests, restarts, crashes or a *)
(* full disk had done to them before (SetCallsign writes them one by one).  *)
Settled ==
  settled = "yes" /\ mem # Nil => file = mem /\ radio = Identity(mem)

(* The daemon never runs without a callsign, and no save writes a file that *)
(* has none: handleConfig looks at the merged callsign, blanks removed, and *)
(* a file that a crash left empty gives the default; one that does not      *)
(* parse stops the start.                                                   *)
HasCallsign ==
  /\ TypeOK
  /\ mem # Nil => mem.callsign # <<>>
  /\ file \notin {Empty, Garbled} => file.callsign # <<>>

(* With a callsign and an SSID as POST accepts them, also with one of each  *)
(* of two requests, SendFrame builds a frame that every receiver decodes to *)
(* the same payload and the same name, repeated by digipeaters or not.      *)
FramesNameUs ==
  IsCallsign(radio.callsign) /\ radio.ssid \in 0 .. 15 =>
    LET info == <<1, 0>>
        digi == [callsign |-> N0CALL, ssid |-> 15]
        f    == CreateUIFrame(FullCallsign(radio), <<82, 70, 77, 80>>, info)
    IN /\ f # Err
       /\ \A path \in {<<>>, <<digi>>, <<digi, digi>>} :
            LET sent == [f EXCEPT !.digipeaters = path]
                got  == DecodeAX25Frame(Encode(sent))
            IN got = sent /\ FullCallsign(got.source) = FullCallsign(radio)
=============================================================================
