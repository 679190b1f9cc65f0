--------------------------- MODULE Serialization ---------------------------
(***************************************************************************)
(* examples/go/stateless/serialization: the encoder and the decoder of the *)
(* guest's input, as functions over a Go type and a value of it.           *)
(*                                                                         *)
(* A type is a record: [kind |-> "bool"], [kind |-> "string"],             *)
(*   [kind |-> "int", width |-> 1, 2, 4 or 8, signed |-> ...],             *)
(*   [kind |-> "slice", elem |-> ...], [kind |-> "array", n |->, elem |->],*)
(*   [kind |-> "ptr", elem |-> ...], [kind |-> "struct", fields |-> <<>>]; *)
(*   any other kind is one the code does not know.                         *)
(* A slice, an array, a string or a struct is the sequence of its parts, a *)
(* pointer the sequence of what it points to, at most one value.           *)
(***************************************************************************)
EXTENDS Encoding

Invalid == [kind |-> "invalid"]   \* Kind() of the Elem() of a nil pointer

(* "if err != nil { return err }", then go on with the result.  (The set of
   one element has TLC evaluate the call once.) *)
Then(call, Rest(_)) ==
  CHOOSE end \in {IF c.st = "ok" THEN Rest(c.r) ELSE c : c \in {call}} : TRUE
-----------------------------------------------------------------------------
RECURSIVE serializeData(_, _), serializeFields(_, _)

(* for i := 0; i < v.NumField(); i++ *)
serializeFields(types, v) ==
  IF types = <<>> THEN Ok(<<>>)
  ELSE Then(serializeData(Head(types), Head(v)), LAMBDA d :
         Then(serializeFields(Tail(types), Tail(v)), LAMBDA rest : Ok(d \o rest)))

(* Slices and arrays are for bytes only: the message of the error that is
   meant for other elements calls v.Elem(), which panics *)
serializeData(T, v) ==
  CASE T.kind = "bool" -> Ok(<<IF v THEN 1 ELSE 0>>)
    [] T.kind = "int" -> Ok(PutUint(T.width, v))
    [] T.kind = "slice" -> IF T.elem = Uint8 THEN Ok(PutBytes(v)) ELSE Panic
    [] T.kind = "array" -> IF T.elem = Uint8 THEN Ok(v) ELSE Panic
    [] T.kind = "string" -> Ok(PutBytes(v))
    [] T.kind = "ptr" -> IF v = <<>> THEN Ok(<<0>>)
                         ELSE Then(serializeData(T.elem, Head(v)), LAMBDA d : Ok(<<1>> \o d))
    [] T.kind = "struct" -> serializeFields(T.fields, v)
    [] OTHER -> Err

(* MustSerializeData: an error becomes a panic *)
MustSerializeData(T, v) == LET d == serializeData(T, v) IN IF d = Err THEN Panic ELSE d
-----------------------------------------------------------------------------
RECURSIVE deserializeData(_, _, _), deserializeAll(_, _, _)

(* A fixed part of n bytes *)
Fixed(data, index, n, Value(_)) ==
  IF InRange(data, index, n) THEN At(Value(Bytes(data, index, n)), index + n) ELSE Panic

(* the loops over the elements of an array and the fields of a struct *)
deserializeAll(data, types, index) ==
  IF types = <<>> THEN At(<<>>, index)
  ELSE Then(deserializeData(data, Head(types), index), LAMBDA d :
         Then(deserializeAll(data, Tail(types), d.index), LAMBDA rest :
           At(<<d.v>> \o rest.v, rest.index)))

UnextendedInteger(T, b) == Uint(b)                               \* mutant
Integer(T, b) == IF T.signed THEN Signed(T.width, Uint(b)) ELSE Uint(b)

(* The target is a fresh zero value: what a pointer in it would point to is
   no value that could be set *)
deserializeData(data, T, index) ==
  CASE T.kind = "bool" -> Fixed(data, index, 1, LAMBDA b : b[1] = 1)
    [] T.kind = "int" -> Fixed(data, index, T.width, LAMBDA b : Integer(T, b))
    [] T.kind = "slice" -> IF T.elem = Uint8 THEN Prefixed(data, index) ELSE Panic
    [] T.kind = "array" -> deserializeAll(data, [i \in 1 .. T.n |-> T.elem], index)
    [] T.kind = "string" -> Prefixed(data, index)
    [] T.kind = "ptr" -> IF ~InRange(data, index, 1) THEN Panic
                         ELSE IF data[index + 1] = 0 THEN At(<<>>, index + 1)
                         ELSE deserializeData(data, Invalid, index + 1)
    [] T.kind = "struct" -> deserializeAll(data, T.fields, index)
    [] OTHER -> Err

LaxDeserializeData(data, T) ==      \* mutant: bytes may be left over
  LET d == Then(deserializeData(data, T, 0), LAMBDA r : Ok(r.v))
  IN IF d = Err THEN Panic ELSE d

DeserializeData(data, T) == Whole(deserializeData(data, T, 0), data)
=============================================================================
