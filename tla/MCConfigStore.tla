--------------------------- MODULE MCConfigStore ---------------------------
(* Two requests at a time.  A callsign comes in lower case, as a digit, or  *)
(* as blanks; an SSID within and, by PUT, beyond 0..15.                     *)
EXTENDS ConfigStore, TLC

CONSTANTS p1, p2

Texts == {<<97, 49>>, <<50>>}
First == [callsign |-> <<75, 49, 65, 66, 67, 68>>, ssid |-> 0, offline |-> "on", host |-> "h0"]
Puts  == {[callsign |-> <<>>, ssid |-> 16, offline |-> "on", host |-> "h1"],
          [callsign |-> <<32>>, ssid |-> 0, offline |-> "on", host |-> "unset"]}
Requests == Permutations({p1, p2})
=============================================================================
