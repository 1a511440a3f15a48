------------------------------ MODULE MCTncLink ------------------------------
(* Small frames that hold every byte the framing treats specially, one that *)
(* looks like an escape, and one that receiveLoop ignores.                  *)
EXTENDS TncLink

Frames   == {<<FEND, FESC>>, <<FESC, TFEND>>, <<KISSDataFrame>>}
TooShort == {<<KISSDataFrame>>}
=============================================================================
