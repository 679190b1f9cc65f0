----------------------------- MODULE WasmMemory -----------------------------
(***************************************************************************)
(* What a WebAssembly guest may rely on about its linear memory: an array  *)
(* of bytes that only grows, by whole pages that read as zero, and that    *)
(* changes otherwise only by the guest's own stores, fills and copies.     *)
(* memory.grow answers the old size, or -1 when it changed nothing.        *)
(* memlib.c implements this array in the RAM of a bare-metal machine;      *)
(* Memlib.tla is shown to refine this module.                              *)
(***************************************************************************)
EXTENDS Integers

CONSTANTS PageSize,  \* bytes of one page
          MaxPages,  \* the maximum the guest declares
          Byte       \* the values a cell can hold, 0 among them

VARIABLES pages,     \* size of the memory, in pages
          lin,       \* its contents, a function on 0 .. pages * PageSize - 1
          last       \* the last operation, with its operands or its answer

wmVars == <<pages, lin, last>>

Size == pages * PageSize

Init == /\ pages = 0
        /\ lin = [i \in 0 .. -1 |-> 0]
        /\ last = <<"none">>

Grow(delta) ==
  /\ pages' = pages + delta
  /\ lin' = [i \in 0 .. (pages + delta) * PageSize - 1 |->
               IF i < Size THEN lin[i] ELSE 0]
  /\ last' = <<"grow", pages>>

GrowRefused == last' = <<"grow", -1>> /\ UNCHANGED <<pages, lin>>

Store(i, v) == /\ lin' = [lin EXCEPT ![i] = v]
               /\ last' = <<"store", i, v>>
               /\ UNCHANGED pages

Fill(i, n, v) ==
  /\ lin' = [j \in 0 .. Size - 1 |-> IF j \in i .. i + n - 1 THEN v ELSE lin[j]]
  /\ last' = <<"fill", i, n, v>>
  /\ UNCHANGED pages

Copy(d, s, n) ==
  /\ lin' = [j \in 0 .. Size - 1 |->
               IF j \in d .. d + n - 1 THEN lin[s + (j - d)] ELSE lin[j]]
  /\ last' = <<"copy", d, s, n>>
  /\ UNCHANGED pages

(* The runtime allocates the initial pages, before the guest's first access *)
Allocate(n) ==
  /\ pages = 0 /\ last = <<"none">>
  /\ pages' = n
  /\ lin' = [i \in 0 .. n * PageSize - 1 |-> 0]
  /\ UNCHANGED last

Next == \/ \E n \in 0 .. MaxPages : Allocate(n)
        \/ \E delta \in 0 .. MaxPages - pages : Grow(delta)
        \/ GrowRefused
        \/ \E i \in 0 .. Size - 1, v \in Byte : Store(i, v)
        \/ \E i \in 0 .. Size, n \in 0 .. Size, v \in Byte :
              i + n <= Size /\ Fill(i, n, v)
        \/ \E d, s \in 0 .. Size, n \in 0 .. Size :
              d + n <= Size /\ s + n <= Size /\ Copy(d, s, n)

Spec == Init /\ [][Next]_wmVars
=============================================================================
