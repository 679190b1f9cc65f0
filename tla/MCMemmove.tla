------------------------------ MODULE MCMemmove ------------------------------
(***************************************************************************)
(* Calls for TLC, for both builds: sizes on both sides of every threshold  *)
(* of the copy loops (3 and 16 words), each alignment of dst, and          *)
(* distances between src and dst from one byte to beyond an unrolled block.*)
(***************************************************************************)
EXTENDS Memmove

CONSTANTS Base,               \* a multiple of 8
          Sizes32, Sizes64,
          Gaps32, Gaps64      \* distance between src and dst, either way

Call(r, fn, d, f, n) == [szreg |-> r, fn |-> fn, dst |-> d, src |-> f, sz |-> n]

CallsOf(r, sizes, gaps) ==
  {Call(r, "memmove", Base + m, Base + m + k, n) :
     m \in 0 .. r - 1, k \in gaps \cup {-g : g \in gaps}, n \in sizes}
  \cup {c \in {Call(r, "memcpy", Base + m, Base + m - g, n) :
               m \in 0 .. r - 1, g \in gaps, n \in sizes} :
          c.src + c.sz <= c.dst}

MCCalls == CallsOf(4, Sizes32, Gaps32) \cup CallsOf(8, Sizes64, Gaps64)
=============================================================================
