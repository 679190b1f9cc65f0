----------------------------- MODULE MCWitness -----------------------------
(***************************************************************************)
(* The two byte slices main() reads, and items of every kind the encoder   *)
(* accepts, with the extreme values of each width.                         *)
(***************************************************************************)
EXTENDS Witness, Serialization

Item(T, v) == [type |-> T, value |-> v]
I(w, s) == [kind |-> "int", width |-> w, signed |-> s]
Slice(T) == [kind |-> "slice", elem |-> T]
Array(n, T) == [kind |-> "array", n |-> n, elem |-> T]
Ptr(T) == [kind |-> "ptr", elem |-> T]
Struct(ts) == [kind |-> "struct", fields |-> ts]
Str == [kind |-> "string"]
Bool == [kind |-> "bool"]

Extremes(w, s) == IF s THEN {-(Span(w) \div 2), -1, 0, Span(w) \div 2 - 1} ELSE {0, 1, Span(w) - 1}

SliceValues == {<<>>, <<0>>, <<3, 1>>, <<1, 0, 0, 0, 0, 0, 0, 0, 2>>}

MCPrograms ==
  (* main: Read[[]byte] twice *)
  { <<Item(Slice(Uint8), a), Item(Slice(Uint8), b)>> : a \in SliceValues, b \in SliceValues }
  \cup UNION { { <<Item(I(w, s), x), Item(Str, <<2>>)>> : x \in Extremes(w, s) }
               : w \in {1, 2, 4, 8}, s \in BOOLEAN }
  \cup { <<Item(Struct(<<Bool, Str, Array(2, Uint8), I(2, TRUE)>>), <<b, x, <<1, 2>>, -1>>)>>
         : b \in BOOLEAN, x \in {<<>>, <<3>>} }
  \cup { <<Item(Struct(<<Str, Str>>), <<x, y>>), Item(Uint8, 1)>>
         : x \in {<<>>, <<1, 0>>}, y \in {<<>>, <<2>>} }
  \cup { <<Item(Struct(<<Ptr(Uint8), Uint8>>), <<p, 2>>), Item(Ptr(Str), <<>>)>>
         : p \in {<<>>, <<3>>} }

RECURSIVE Parts(_, _)
(* an item and everything in it, as pairs of a type and a value *)
Parts(T, v) ==
  {<<T, v>>} \cup UNION
     CASE T.kind \in {"ptr", "array"} -> {Parts(T.elem, v[i]) : i \in DOMAIN v}
       [] T.kind = "struct" -> {Parts(T.fields[i], v[i]) : i \in DOMAIN v}
       [] OTHER -> {}

Content(items) == UNION {Parts(items[i].type, items[i].value) : i \in DOMAIN items}
MCWithBool == {p \in MCPrograms : \E x \in Content(p) : x[1].kind = "bool"}
MCWithPointer == {p \in MCPrograms : \E x \in Content(p) : x[1].kind = "ptr" /\ x[2] # <<>>}
=============================================================================
