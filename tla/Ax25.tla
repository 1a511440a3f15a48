-------------------------------- MODULE Ax25 --------------------------------
(* The AX.25 codec: addresses and UI frames as bytes.  Text is a sequence   *)
(* of character codes.                                                      *)
EXTENDS Integers, Sequences, SequencesExt, FiniteSetsExt

Char  == 0 .. 127   \* ASCII
Space == 32
Plus  == 43
Dash  == 45
Digits   == 48 .. 57
Capitals == 65 .. 90
Err == [error |-> "invalid"]

ToUpper(s) == [i \in DOMAIN s |-> IF s[i] \in 97 .. 122 THEN s[i] - 32 ELSE s[i]]

\* strconv.Atoi: digits behind at most one sign.
Unsigned(s) == IF s # <<>> /\ s[1] \in {Plus, Dash} THEN Tail(s) ELSE s
IsNumber(s) == Unsigned(s) # <<>> /\ ToSet(Unsigned(s)) \subseteq Digits
Atoi(s)     ==
  LET d == Unsigned(s)
      value[k \in 0 .. Len(d)] == IF k = 0 THEN 0 ELSE 10 * value[k - 1] + d[k] - 48
  IN IF s[1] = Dash THEN -value[Len(d)] ELSE value[Len(d)]
Itoa(n)     ==
  LET size == IF n < 0 THEN -n ELSE n
      text[k \in 0 .. size] ==
        IF k < 10 THEN <<48 + k>> ELSE Append(text[k \div 10], 48 + (k % 10))
  IN IF n < 0 THEN <<Dash>> \o text[size] ELSE text[size]

NewAX25Address(callsign, ssid) ==
  IF Len(callsign) > 6 \/ ssid \notin 0 .. 15 THEN Err
  ELSE [callsign |-> ToUpper(callsign), ssid |-> ssid]

ParseAX25Address(s) ==
  LET dashes == {i \in DOMAIN s : s[i] = Dash}
      number == SubSeq(s, Min(dashes) + 1, Len(s))
  IN IF dashes = {} THEN NewAX25Address(s, 0)
     ELSE IF ~IsNumber(number) THEN Err
     ELSE NewAX25Address(SubSeq(s, 1, Min(dashes) - 1), Atoi(number))

\* AX25Address.String, as Config.FullCallsign and DirewolfClient.fullCallsign.
FullCallsign(a) == IF a.ssid = 0 THEN a.callsign ELSE a.callsign \o <<Dash>> \o Itoa(a.ssid)

Bit(b) == IF b THEN 1 ELSE 0

\* Mutant: the number is not shifted.
EncodeAddressUnshifted(a, isLast) ==
  [i \in 1 .. 7 |-> IF i = 7 THEN 96 + a.ssid
                    ELSE 2 * (IF i <= Len(a.callsign) THEN a.callsign[i] ELSE Space)]

\* AX25Address.Encode: 0x60 | ssid << 1 | last.
EncodeAddress(a, isLast) ==
  [i \in 1 .. 7 |-> IF i = 7 THEN 96 + 2 * a.ssid + Bit(isLast)
                    ELSE (2 * (IF i <= Len(a.callsign) THEN a.callsign[i] ELSE Space)) % 256]

DecodeAX25Address(data) ==
  LET chars[i \in 0 .. 6] ==
        IF i = 0 THEN <<>>
        ELSE IF data[i] \div 2 = Space THEN chars[i - 1]
        ELSE Append(chars[i - 1], data[i] \div 2)
  IN [callsign |-> chars[6], ssid |-> (data[7] \div 2) % 16]

\* AX25Frame.Encode.
Encode(f) ==
  LET path == <<f.source>> \o f.digipeaters IN
  EncodeAddress(f.destination, FALSE)
    \o FlattenSeq([i \in DOMAIN path |-> EncodeAddress(path[i], i = Len(path))])
    \o <<f.control, f.pid>> \o f.info

\* The address field ends with the first address whose last bit is set.
LastAddress(data) ==
  LET ends == {k \in 2 .. Len(data) \div 7 : data[7 * k] % 2 = 1} IN
  IF ends = {} THEN Len(data) \div 7 ELSE Min(ends)

DecodeAX25Frame(data) ==
  LET n    == LastAddress(data)
      a(k) == DecodeAX25Address(SubSeq(data, 7 * k - 6, 7 * k))
  IN IF Len(data) < 16 \/ 7 * n + 2 > Len(data) THEN Err
     ELSE [destination |-> a(1), source |-> a(2),
           digipeaters |-> [k \in 1 .. n - 2 |-> a(k + 2)],
           control |-> data[7 * n + 1], pid |-> data[7 * n + 2],
           info |-> SubSeq(data, 7 * n + 3, Len(data))]

CreateUIFrame(source, destination, info) ==
  LET src == ParseAX25Address(source)
      dst == ParseAX25Address(destination)
  IN IF src = Err \/ dst = Err THEN Err
     ELSE [destination |-> dst, source |-> src, digipeaters |-> <<>>,
           control |-> 3, pid |-> 240, info |-> info]
=============================================================================
