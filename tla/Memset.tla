------------------------------- MODULE Memset -------------------------------
(***************************************************************************)
(* w2c2/embedded/memops.S: _memset, one action per loop iteration or       *)
(* straight-line block.  A byte of memory or a byte lane of a register is  *)
(* a tag: Ch, the byte to fill with; Junk, the bits of the int argument    *)
(* above it; Old, what memory held; 0, a zero byte.  A word register is a  *)
(* function from its SZREG lanes to tags, so that a shift by 8 * k bits is *)
(* a shift by k lanes.  Address registers are integers: the code computes  *)
(* modulo 2^XLEN and may pass below zero, but comes back before a store.   *)
(***************************************************************************)
EXTENDS Integers

CONSTANTS Builds,    \* the builds to try, by SZREG
          Words,     \* bound: sizes to try, in whole registers
          AddrBound  \* bound: one more than the highest address

ASSUME MemsetAssumption ==
  /\ Builds \subseteq {4, 8}
  /\ Words \subseteq Nat /\ AddrBound \in Nat
  /\ \A r \in Builds, w \in Words : (w + 3) * r <= AddrBound

VARIABLES SZREG,    \* bytes of a register: 4 on rv32, 8 on rv64
          pc,       \* the next block to run
          a0, sz,   \* the arguments dst and sz; a0 is never written
          a1,       \* the fill byte, later the fill word
          a2, a3, a4, a5,
          t0,       \* Duff's device: stores of the main loop to jump over
          mem

args == <<SZREG, a0, sz>>
vars == <<pc, args, a1, a2, a3, a4, a5, t0, mem>>

Addr == 0 .. AddrBound - 1
Lanes == 0 .. SZREG - 1
Ch == 1
Junk == 2
Old == 3
Both == 4      \* two nonzero bytes or-ed together
Target == a0 .. a0 + sz - 1
-----------------------------------------------------------------------------
(* slli by k bytes, and "or" on tags *)
Shl(w, k) == [i \in Lanes |-> IF i >= k THEN w[i - k] ELSE 0]
Or(v, w) == [i \in Lanes |-> IF v[i] = 0 \/ v[i] = w[i] THEN w[i]
                             ELSE IF w[i] = 0 THEN v[i] ELSE Both]

(* 1: the byte in every lane, doubling 8, 16 and on rv64 32 bits *)
Propagate(w) ==
  LET w2 == Or(w, Shl(w, 1))
      w4 == Or(w2, Shl(w2, 2))
  IN IF SZREG = 8 THEN Or(w4, Shl(w4, 4)) ELSE w4

Clamped(w) == [i \in Lanes |-> IF i = 0 THEN w[0] ELSE 0]

RoundDown(x) == (x \div SZREG) * SZREG
-----------------------------------------------------------------------------
Init == /\ pc = "entry"
        /\ SZREG \in Builds
        /\ a0 \in SZREG .. 2 * SZREG - 1                  \* every alignment
        /\ sz \in {w * SZREG + b : w \in Words, b \in Lanes}
        /\ a1 = [i \in Lanes |-> IF i = 0 THEN Ch ELSE Junk]
        /\ a2 = sz
        /\ a3 = 0 /\ a4 = 0 /\ a5 = 0 /\ t0 = 0
        /\ mem = [a \in Addr |-> Old]

(* up to label 0 of the head loop: small sizes skip the alignment and the
   clamping of the fill byte *)
Entry ==
  /\ pc = "entry"
  /\ a5' = a0 /\ a4' = 2 * SZREG
  /\ IF a2 < 2 * SZREG
     THEN pc' = "finish" /\ UNCHANGED <<a1, a2, a3>>
     ELSE LET mis == a0 % SZREG
          IN /\ a1' = Clamped(a1)
             /\ IF mis = 0
                THEN pc' = "word" /\ a3' = 0 /\ UNCHANGED a2
                ELSE /\ pc' = "head"
                     /\ a2' = a2 + (mis - SZREG)
                     /\ a3' = a0 - (mis - SZREG)
  /\ UNCHANGED <<args, t0, mem>>

(* sb a1, 0(a5); addi a5, a5, 1; bltu a5, last, 0b *)
StoreByte(last, loop, exit) ==
  /\ mem' = [mem EXCEPT ![a5] = a1[0]]
  /\ a5' = a5 + 1
  /\ pc' = IF a5 + 1 < last THEN loop ELSE exit

HeadByte == /\ pc = "head"
            /\ StoreByte(a3, "head", "word")
            /\ UNCHANGED <<args, a1, a2, a3, a4, t0>>

(* 1: the fill word, the end of the main loop and the jump into it: with
   a3 = 31*SZREG-masked bytes to do first, the last a3 / SZREG of the 32
   stores are run and a5 is lowered to compensate for their offsets *)
WordWith(first) ==
  /\ pc = "word"
  /\ a1' = Propagate(a1)
  /\ a4' = RoundDown(a5 + a2)
  /\ a3' = ((a2 \div SZREG) % 32) * SZREG
  /\ a2' = a2 % SZREG
  /\ IF a3' = 0 THEN UNCHANGED <<a5, t0>>
     ELSE a5' = a5 + a3' - 32 * SZREG /\ t0' = first - a3' \div SZREG
  /\ pc' = "main"
  /\ UNCHANGED <<args, mem>>

SkewedWord == WordWith(33)         \* mutant: the jump lands one store late

Word == WordWith(32)

(* 2: thirty-two stores, the first t0 of them jumped over *)
MainLoopUntil(end) ==
  /\ pc = "main"
  /\ mem' = [a \in Addr |-> IF a \in a5 + t0 * SZREG .. a5 + 32 * SZREG - 1
                            THEN a1[(a - a5) % SZREG] ELSE mem[a]]
  /\ a5' = a5 + 32 * SZREG
  /\ t0' = 0
  /\ pc' = IF a5' < end THEN "main" ELSE "finish"
  /\ UNCHANGED <<args, a1, a2, a3, a4>>

OverrunMainLoop == MainLoopUntil(a4 + 1)   \* mutant: bleu for bltu

MainLoop == MainLoopUntil(a4)

(* 4: a2 bytes are left *)
Finish == /\ pc = "finish"
          /\ IF a2 = 0 THEN pc' = "ret" /\ UNCHANGED a2
                       ELSE pc' = "tail" /\ a2' = a2 + a5
          /\ UNCHANGED <<args, a1, a3, a4, a5, t0, mem>>

(* mutant: dst is not incremented *)
StuckTailByte == /\ pc = "tail"
                 /\ mem' = [mem EXCEPT ![a5] = a1[0]]
                 /\ UNCHANGED <<pc, args, a1, a2, a3, a4, a5, t0>>

TailByte == /\ pc = "tail"
            /\ StoreByte(a2, "tail", "ret")
            /\ UNCHANGED <<args, a1, a2, a3, a4, t0>>

(* 5: a0 still is the dst that was passed *)
Ret == /\ pc = "ret" /\ pc' = "done"
       /\ UNCHANGED <<args, a1, a2, a3, a4, a5, t0, mem>>

Returned == pc = "done" /\ UNCHANGED vars

Step == Entry \/ HeadByte \/ Word \/ MainLoop \/ Finish \/ TailByte \/ Ret
Next == Step \/ Returned

Spec == Init /\ [][Next]_vars /\ WF_vars(Step)
-----------------------------------------------------------------------------
(* Word stores happen at multiples of SZREG and never leave the target, for
   whichever of the 32 stores the computed jump lands on. *)
WordStoresAligned ==
  pc = "main" => /\ a5 % SZREG = 0
                 /\ a5 + t0 * SZREG .. a5 + 32 * SZREG - 1 \subseteq Target

RW == INSTANCE RegionWrite WITH target <- Target,
                                goal <- [a \in Target |-> Ch],
                                done <- pc = "done"

(* "fills the first sz bytes of the memory area pointed to by dst with the
   constant byte ch": exactly those, for every alignment and size, through
   head, Duff jump, main loop and tail; no byte of the target ever holds
   anything but its old or its new value, and no other byte changes, even
   for a moment. *)
ImplementsRegionWrite == RW!Spec

(* Every loop ends, whatever the size and alignment. *)
Terminates == <>(pc = "done")
=============================================================================
