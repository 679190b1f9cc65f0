----------------------------- MODULE MCGuestIO -----------------------------
(***************************************************************************)
(* GuestIO with small words, and with bytes for characters: 3 is the line  *)
(* feed, 13 the carriage return, 99 a line's text, 48 and 120 "0x", 50 to  *)
(* 52 the hexadecimal digits.                                              *)
(***************************************************************************)
EXTENDS GuestIO, FiniteSets

MCByte == 0 .. 127
MCLine == <<99, 3>>
MCMemories == {m \in [0 .. 5 -> {0, 1, 3}] : /\ Cardinality({a \in 0 .. 5 : m[a] = 3}) <= 1
                                          /\ Cardinality({a \in 0 .. 5 : m[a] = 1}) <= 3}
MCInputs == {<<1, 3, 0, 13>>, <<0, 1, 1, 1>>, <<13, 1, 3>>}
MCHex == <<50, 51, 52>>
MCPrefix == <<48, 120>>
MCFiles == UNION {[1 .. n -> {0, 1, 3}] : n \in 0 .. 3}
MCtest789 == <<2, 0, 1>>
=============================================================================
