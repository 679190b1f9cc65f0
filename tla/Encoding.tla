------------------------------ MODULE Encoding ------------------------------
(***************************************************************************)
(* examples/go/stateless: numbers as bytes, the least significant first,   *)
(* and the bounds tests, which the reader of main.go and the serialization *)
(* package share.  Bytes are digits to the base B, so that eight of them   *)
(* stay enumerable.                                                        *)
(***************************************************************************)
EXTENDS Integers, Sequences

CONSTANT B   \* values of a byte; 256 in the code

ASSUME ByteAssumption == B \in Nat /\ B > 1 /\ B % 2 = 0

Octet == 0 .. B - 1
Uint8 == [kind |-> "int", width |-> 1, signed |-> FALSE]
ByteSlice == [kind |-> "slice", elem |-> Uint8]

(* The three ways a call ends: a result, a returned error, a panic *)
Ok(r) == [st |-> "ok", r |-> r]
Err == [st |-> "err"]
Panic == [st |-> "panic"]
-----------------------------------------------------------------------------
(* The values of w bytes *)
Span(w) == LET span[k \in 0 .. w] == IF k = 0 THEN 1 ELSE B * span[k - 1] IN span[w]

(* v >> (8 * k) for k up to w *)
Shifts(w, v) == LET shifted[k \in 0 .. w] == IF k = 0 THEN v ELSE shifted[k - 1] \div B
                IN shifted

BigPutUint(w, v) ==                                                      \* mutant
  LET shifted == Shifts(w, v) IN [i \in 1 .. w |-> shifted[w - i] % B]

(* binary.LittleEndian and the conversions to and from two's complement *)
PutUint(w, v) == LET shifted == Shifts(w, v) IN [i \in 1 .. w |-> shifted[i - 1] % B]

Uint(bytes) ==
  LET high[k \in 0 .. Len(bytes)] ==   \* the number of the last k bytes
        IF k = 0 THEN 0 ELSE bytes[Len(bytes) - k + 1] + B * high[k - 1]
  IN high[Len(bytes)]

Signed(w, u) == IF u >= Span(w) \div 2 THEN u - Span(w) ELSE u

(* n bytes from index on (counted from 0); anything else is out of range *)
InRange(data, index, n) == n >= 0 /\ index + n <= Len(data)
Bytes(data, index, n) == SubSeq(data, index + 1, index + n)
-----------------------------------------------------------------------------
(* A decoded value and the index behind it *)
At(v, index) == Ok([v |-> v, index |-> index])

(* A slice of bytes or a string: eight bytes of length, then as many bytes *)
PutBytes(v) == PutUint(8, Len(v)) \o v

Prefixed(data, index) ==
  LET length == Signed(8, Uint(Bytes(data, index, 8)))
  IN IF InRange(data, index, 8) /\ InRange(data, index + 8, length)
     THEN At(Bytes(data, index + 8, length), index + 8 + length) ELSE Panic

(* DeserializeData: an error and left-over bytes are panics *)
Whole(call, data) ==
  IF call.st = "ok" /\ call.r.index = Len(data) THEN Ok(call.r.v) ELSE Panic
=============================================================================
