------------------------------ MODULE Witness ------------------------------
(***************************************************************************)
(* examples/go/stateless/main.go, the part that reads: the embedded        *)
(* witness.bin is a sequence of frames, an 8-byte length and that many     *)
(* bytes of a serialized value, and the guest takes one value after the    *)
(* other from it with Read[T].  The file comes from outside: it is what    *)
(* MustSerializeData made of the values, and it may have been cut short or *)
(* have one wrong byte.                                                    *)
(***************************************************************************)
EXTENDS Encoding, SequencesExt

CONSTANTS Serializer(_, _), Deserializer(_, _),   \* the serialization package
          Programs,      \* what may be sent: sequences of [type, value]
          WithBool,      \* those in which there is a bool
          WithPointer    \* those in which there is a pointer that is not nil

(* The encoder did not panic on what was sent *)
ASSUME ProgramsAssumption ==
  \A program \in Programs :
    /\ Len(program) \in Nat \ {0}
    /\ \A k \in 1 .. Len(program) :
         LET d == Serializer(program[k].type, program[k].value)
         IN d.st = "ok" /\ d.r \in Seq(Octet) /\ Len(d.r) < Span(8) \div 2

VARIABLES sent,           \* the items in witness.bin, in order
          witnessBytes,
          damage,         \* "none", "cut" or "altered"
          witnessOffset,
          length,         \* the length Read has just read
          got,            \* the results of Read
          stage           \* "length", "data", "done" or "panic"

witnessVars == <<sent, witnessBytes, damage, witnessOffset, length, got, stage>>

Frame(d) == PutUint(8, Len(d)) \o d

Frames(items) ==
  FlattenSeq([k \in 1 .. Len(items) |-> Frame(Serializer(items[k].type, items[k].value).r)])

Wanted == sent[Len(got) + 1].type
-----------------------------------------------------------------------------
Arrives(file) ==
  \/ damage = "none" /\ witnessBytes = file
  \/ damage = "cut" /\ \E n \in 0 .. Len(file) - 1 : witnessBytes = SubSeq(file, 1, n)
  \/ /\ damage = "altered"
     /\ \E i \in 1 .. Len(file) : \E b \in Octet \ {file[i]} :
          witnessBytes = [file EXCEPT ![i] = b]

WitnessInit ==
  /\ sent \in Programs
  /\ Arrives(Frames(sent))
  /\ witnessOffset = 0 /\ length = 0 /\ got = <<>>
  /\ stage = "length"

EagerPanics == stage' = "panic"     \* mutant: the offset moves before the test
               /\ witnessOffset' = witnessOffset + 8
               /\ UNCHANGED <<length, got>>

(* a panic ends the program *)
Panics == stage' = "panic" /\ UNCHANGED <<witnessOffset, length, got>>

(* What UnsafeReadFromEmbedded(n) can deliver.  A negative n, or one that
   overflows the sum in its test, panics in make. *)
Available(n) == InRange(witnessBytes, witnessOffset, n)

ReadLength ==
  /\ stage = "length"
  /\ IF Available(8)
     THEN /\ length' = Signed(8, Uint(Bytes(witnessBytes, witnessOffset, 8)))
          /\ witnessOffset' = witnessOffset + 8
          /\ stage' = "data" /\ UNCHANGED got
     ELSE Panics
  /\ UNCHANGED <<sent, witnessBytes, damage>>

ReadData ==
  /\ stage = "data"
  /\ IF ~Available(length) THEN Panics
     ELSE /\ witnessOffset' = witnessOffset + length
          /\ \E d \in {Deserializer(Bytes(witnessBytes, witnessOffset, length), Wanted)} :
                IF d.st = "ok" THEN /\ got' = Append(got, d.r)
                                    /\ stage' = IF Len(got') = Len(sent) THEN "done" ELSE "length"
                               ELSE stage' = "panic" /\ UNCHANGED got
          /\ UNCHANGED length
  /\ UNCHANGED <<sent, witnessBytes, damage>>

Ended == stage \in {"done", "panic"} /\ UNCHANGED witnessVars

WitnessNext == ReadLength \/ ReadData \/ Ended

WitnessSpec == WitnessInit /\ [][WitnessNext]_witnessVars /\ WF_witnessVars(ReadLength \/ ReadData)
-----------------------------------------------------------------------------
(* The offset never leaves the file, whatever lengths stand in it. *)
WitnessTypeOK ==
  /\ witnessOffset \in 0 .. Len(witnessBytes)
  /\ length \in -(Span(8) \div 2) .. Span(8) \div 2 - 1
  /\ Len(got) <= Len(sent)
  /\ stage \in {"length", "data", "done", "panic"}

(* No value is made up, swapped or lost: from a file without a wrong byte
   the guest gets the values that were sent, in order, and it reads to the
   end only if nothing was cut off. *)
InOrder ==
  damage # "altered" =>
    /\ \A i \in DOMAIN got : got[i] = sent[i].value
    /\ stage = "done" => damage = "none" /\ witnessOffset = Len(witnessBytes)

(* Whatever stands in the file, what has been read encodes to exactly the
   bytes consumed: no frame is accepted with bytes left over, missing or
   ignored.  (A bool is the exception: every byte but 1 reads as false.) *)
Canonical ==
  stage \in {"length", "done"} /\ sent \notin WithBool =>
    Bytes(witnessBytes, 0, witnessOffset) =
      Frames([i \in DOMAIN got |-> [type |-> sent[i].type, value |-> got[i]]])

(* An undamaged file is read to its end.  Pointers are the exception: the
   decoder refuses every pointer that is not nil, although the encoder
   writes it. *)
Delivered ==
  damage = "none" /\ sent \notin WithPointer ~> stage = "done"
=============================================================================
